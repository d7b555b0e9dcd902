---- MODULE MCViewWindow ----
(* Pictures, of which a behaviour is about one: a view of eight by four    *)
(* pixels on a maze of three by two squares, the game of one of the three  *)
(* earlier versions with a view of six by six on a maze of two by two, or  *)
(* the texts beside them.                                                  *)
EXTENDS ViewWindow, Sequences, TLAPS

CONSTANTS GameTicks, Seconds, RTC_DIV, MINUTE, MaxMinutes, COLUMNS, CAPTION_TEXT_NUM, MaxText,
          LetterHeight, Letters            \* FONT_HEIGHT and font_data of the texts

VARIABLES
    part,
    maze, walk, game_pic, need_redraw, shown, game_ticks, game_pc,    \* of all games
    game_ground, old_n_fruit, trans_flag, caption, age, overdue, fruit_at_start,
    trail, sideways, eaten,
    rtc_div, seconds, minutes, reads, bar, led, old,
    planes, text, status_bar, status, mask, title

\* The player's picture lets the ground through in one corner.
MCMask == Cells \ {<<0, 0>>}

\* Where a level is won: a corner that the view has to follow the player to.
MCExits == {<<10, 6>>}

Lattice == INSTANCE MazeLattice

Open == Lattice!Inside(2, 2)

At(a, b) == Lattice!MAZE_INDEX(2, a, b)

Ahead == [fruits |-> {At(3, 1)}, exit |-> At(3, 3), seen |-> {}]

\* With a fruit at the start, and without one.
Mazes == {[fruits |-> {At(1, 1), At(1, 3)}, exit |-> At(3, 3), seen |-> {}], Ahead}

\* One way through it, with the fruit in its only corner.
Corridor == {At(1, 1), At(2, 1), At(3, 1), At(3, 2), At(3, 3)}

Captioned == INSTANCE CaptionGame WITH
    X_DIM <- 2, Y_DIM <- 2, OpenSpaces <- Open, Opaque <- Mask, SCROLL_X_DIM <- 6, SCROLL_Y_DIM <- 6,
    Captions <- {{<<0, 0>>, <<2, 0>>}}, Garbled <- {{}, {<<2, 0>>}}, CAPTION_X_OFFSET <- 1, CAPTION_Y_OFFSET <- 2,
    CaptionSeconds <- Seconds, MaxTicks <- GameTicks,
    pic <- game_pic, ticks <- game_ticks, pc <- game_pc, ground <- game_ground

Clocked == INSTANCE ClockedGame WITH
    X_DIM <- 2, Y_DIM <- 2, OpenSpaces <- Open, Opaque <- Mask, SCROLL_X_DIM <- 6, SCROLL_Y_DIM <- 6,
    MaxTicks <- GameTicks,
    pic <- game_pic, ticks <- game_ticks, pc <- game_pc

First == INSTANCE FirstGame WITH
    X_DIM <- 2, Y_DIM <- 2, OpenSpaces <- Corridor, Opaque <- Mask, SCROLL_X_DIM <- 6, SCROLL_Y_DIM <- 6,
    Mazes <- {Ahead}, MaxTicks <- GameTicks,
    pic <- game_pic, ticks <- game_ticks, pc <- game_pc

\* Two characters.
MCLetters == [c \in 1 .. 2 |-> [j \in 0 .. 1 |-> IF c = 1 THEN {7, 3, j} ELSE {6 - j, 4, 0}]]

Text == INSTANCE TextBar WITH
    FONT_HEIGHT <- LetterHeight, font_data <- Letters, bar <- status_bar, caption <- title

gameVars == <<maze, walk, game_pic, need_redraw, shown, game_ticks, game_pc>>
captionVars == <<game_ground, old_n_fruit, trans_flag, caption, age, overdue, fruit_at_start>>
firstVars == <<trail, sideways, eaten>>
clockVars == <<rtc_div, seconds, minutes, reads, bar, led, old>>
textVars == <<planes, text, status_bar, status, mask, title>>

MCInit ==
    /\ part \in {"view", "captions", "clock", "first", "text"}
    /\ Init /\ Captioned!Init /\ Clocked!Init /\ First!Init /\ Text!Init

View(A) == part = "view" /\ A /\ UNCHANGED <<part, gameVars, captionVars, clockVars, firstVars, textVars>>
OfCaptions(A) == part = "captions" /\ A /\ UNCHANGED <<part, vars, clockVars, firstVars, textVars>>
OfClock(A) == part = "clock" /\ A /\ UNCHANGED <<part, vars, captionVars, firstVars, textVars>>
OfFirst(A) == part = "first" /\ A /\ UNCHANGED <<part, vars, captionVars, clockVars, textVars>>
OfText(A) == part = "text" /\ A /\ UNCHANGED <<part, vars, gameVars, captionVars, clockVars, firstVars>>

MCNext ==
    \/ View(Next) \/ OfCaptions(Captioned!Next) \/ OfClock(Clocked!Next)
    \/ OfFirst(First!Next) \/ OfText(Text!Next)

MCSpec == MCInit /\ [][MCNext]_<<part, vars, gameVars, captionVars, clockVars, firstVars, textVars>>

(* Between frames the picture and the screen show what CaptionGame and     *)
(* ClockedGame promise - no trace of the player, no caption, no fruit that *)
(* was eaten, and the level's time - and no more is wrong in FirstGame     *)
(* than it promises (mazegame.c of originals/ECE_391_MP2, 598-717, of      *)
(* ECE391-MP2-Device-Drivers, 539-681, and of mp2_ssbonde2, 415-530).      *)
FramesTrue ==
    /\ part = "captions" => Captioned!TracesCovered /\ Captioned!ScreenTrue
    /\ part = "clock" => Clocked!FrameTrue /\ Clocked!StatusTrue
    /\ part = "first" => First!FirstGameSafety

(* Nothing is written beside the buffer and the view is that of the maze,  *)
(* as long as no two ticks came at once and no caption was drawn in the    *)
(* level; and a bar's texts are those it was given: ViewWindow's           *)
(* ViewSafety and TextBar's TextShown (modex.c:357-520 and text.c:574-633  *)
(* of mp2_ssbonde2).                                                       *)
DrawnRight == ViewSafety /\ Text!TextShown

ASSUME MazesGood == \A m \in Mazes : Captioned!FreshMaze(m)

(* What holds of the real numbers: a view of 320 by 182 and blocks of 12   *)
(* by 12 pixels, captions of 104 by 16 above the player, 8 pixels and more *)
(* of the boundary never shown.                                            *)
ASSUME ViewAssumption ==
    /\ SCROLL_X_DIM \in Nat \ {0} /\ SCROLL_X_DIM % 4 = 0 /\ SCROLL_Y_DIM \in Nat \ {0}
    /\ EXTRA \in Nat
    /\ BLOCK_X_DIM \in Nat \ {0} /\ BLOCK_Y_DIM \in Nat \ {0}
    /\ TEXT_LEN \in 1 .. SCROLL_X_DIM /\ FONT_HEIGHT \in 1 .. SCROLL_Y_DIM
    /\ CAPTION_X_OFF \in Nat /\ CAPTION_Y_OFF \in Nat /\ FONT_HEIGHT <= CAPTION_Y_OFF + BLOCK_Y_DIM
    /\ X_DIM \in Nat /\ Y_DIM \in Nat /\ PAN_BORDER \in Nat
    /\ SHOW_MIN \in 0 .. BLOCK_X_DIM /\ SHOW_MIN \in 0 .. BLOCK_Y_DIM
    /\ 2 * BLOCK_X_DIM <= SHOW_MIN + SCROLL_X_DIM
    /\ 2 * BLOCK_Y_DIM <= SHOW_MIN + SCROLL_Y_DIM

-----------------------------------------------------------------------------
(***************************************************************************)
(* The four planes of the build buffer: which byte is which pixel's.       *)
(***************************************************************************)

\* Sizes are numbers.
LEMMA Sizes ==
    /\ SCROLL_X_WIDTH \in Nat \ {0} /\ SCROLL_X_DIM = 4 * SCROLL_X_WIDTH
    /\ SCROLL_SIZE \in Nat \ {0} /\ SCROLL_SIZE = SCROLL_Y_DIM * SCROLL_X_WIDTH
    /\ BUILD_BUF_SIZE = 4 * SCROLL_SIZE + 1 + EXTRA
    /\ BUILD_BASE_INIT \in 0 .. EXTRA
<1>1. /\ SCROLL_X_WIDTH \in Nat \ {0} /\ SCROLL_X_DIM = 4 * SCROLL_X_WIDTH
    BY ViewAssumption, SMT DEF SCROLL_X_WIDTH
<1>2. SCROLL_SIZE \in Nat \ {0} /\ SCROLL_SIZE = SCROLL_Y_DIM * SCROLL_X_WIDTH
    BY <1>1, ViewAssumption, SMT DEF SCROLL_SIZE
<1>3. BUILD_BUF_SIZE = 4 * SCROLL_SIZE + 1 + EXTRA /\ BUILD_BASE_INIT \in 0 .. EXTRA
    BY <1>2, ViewAssumption, SMT DEF BUILD_BUF_SIZE, BUILD_BASE_INIT, SCREEN_SIZE
<1> QED
    BY <1>1, <1>2, <1>3

\* A column's byte and plane.
LEMMA ColumnIs ==
    ASSUME NEW x \in Int
    PROVE  x \div 4 \in Int /\ x % 4 \in 0 .. 3 /\ x = 4 * (x \div 4) + (x % 4)
BY SMT

\* Rows are one after the other.
LEMMA RowsAre ==
    ASSUME NEW sy \in Int, NEW y \in sy .. sy + SCROLL_Y_DIM - 1
    PROVE  /\ y * SCROLL_X_WIDTH \in Int /\ sy * SCROLL_X_WIDTH \in Int
           /\ sy * SCROLL_X_WIDTH <= y * SCROLL_X_WIDTH
           /\ y * SCROLL_X_WIDTH <= sy * SCROLL_X_WIDTH + SCROLL_SIZE - SCROLL_X_WIDTH
           /\ (sy + SCROLL_Y_DIM - 1) * SCROLL_X_WIDTH = sy * SCROLL_X_WIDTH + SCROLL_SIZE - SCROLL_X_WIDTH
<1> DEFINE w == SCROLL_X_WIDTH
           d == SCROLL_Y_DIM
           j == y - sy
<1>1. w \in Nat \ {0} /\ d \in Nat \ {0} /\ SCROLL_SIZE = d * w /\ j \in 0 .. d - 1 /\ y = sy + j
    BY Sizes, ViewAssumption
<1> HIDE DEF w, d, j
<1>2. y * w \in Int /\ sy * w \in Int /\ d * w \in Int /\ j * w \in Int
    BY <1>1
<1>3. y * w = sy * w + j * w
    BY <1>1, SMT
<1>4. (sy + d - 1) * w = sy * w + d * w - w
    BY <1>1, SMT
<1>5. 0 <= j * w
    BY <1>1, SMT
<1>6. d * w = j * w + (d - j) * w
    BY <1>1, SMT
<1>7. (d - j) * w >= w
    BY <1>1, SMT
<1>8. (d - j) * w \in Int
    BY <1>1
<1> QED
    BY <1>1, <1>2, <1>3, <1>4, <1>5, <1>6, <1>7, <1>8, SMT DEF w, d

\* One row begins where the row before it ends.
LEMMA RowAfterRow ==
    ASSUME NEW y \in Int, NEW z \in Int, y < z
    PROVE  y * SCROLL_X_WIDTH + SCROLL_X_WIDTH <= z * SCROLL_X_WIDTH
<1> DEFINE w == SCROLL_X_WIDTH
           k == z - y
<1>1. w \in Nat \ {0} /\ k \in Nat \ {0} /\ z = y + k
    BY Sizes
<1> HIDE DEF w, k
<1>2. z * w = y * w + k * w /\ k * w >= w
    BY <1>1, SMT
<1> QED
    BY <1>1, <1>2, SMT DEF w

\* A plane begins a picture's size behind the next column's.
LEMMA PlaneIs ==
    ASSUME NEW r \in 0 .. 3
    PROVE  /\ (3 - r) * SCROLL_SIZE \in Int
           /\ r = 0 => (3 - r) * SCROLL_SIZE = 3 * SCROLL_SIZE
           /\ r = 1 => (3 - r) * SCROLL_SIZE = 2 * SCROLL_SIZE
           /\ r = 2 => (3 - r) * SCROLL_SIZE = SCROLL_SIZE
           /\ r = 3 => (3 - r) * SCROLL_SIZE = 0
BY Sizes

\* Pixels of a view, as numbers.
LEMMA PixelIs ==
    ASSUME NEW sx \in Int, NEW sy \in Int, NEW p \in Pixels(sx, sy)
    PROVE  p = <<p[1], p[2]>> /\ p[1] \in sx .. sx + SCROLL_X_DIM - 1 /\ p[2] \in sy .. sy + SCROLL_Y_DIM - 1
BY DEF Pixels

\* What a byte's address is made of.
LEMMA AddressIs ==
    ASSUME NEW off \in Int, NEW x \in Int, NEW y \in Int
    PROVE  Address(off, x, y) \in Int
<1>1. x \div 4 \in Int /\ y * SCROLL_X_WIDTH \in Int /\ (3 - (x % 4)) * SCROLL_SIZE \in Int
    BY ColumnIs, Sizes, PlaneIs
<1> QED
    BY <1>1 DEF Address

(* A view that fits is in the buffer with all of its pixels: it is enough  *)
(* to look at the first pixel's byte and the last one's.                   *)
LEMMA FitsMeans ==
    ASSUME NEW off \in Int, NEW sx \in Int, NEW sy \in Int, Fits(off, sx, sy),
           NEW p \in Pixels(sx, sy)
    PROVE  Address(off, p[1], p[2]) \in Addresses
<1> DEFINE x == p[1]
           y == p[2]
           plane == (3 - (x % 4)) * SCROLL_SIZE
           row == y * SCROLL_X_WIDTH
           row0 == sy * SCROLL_X_WIDTH
           a == x \div 4
           a0 == sx \div 4
           last == sx + SCROLL_X_DIM - 1
           e == last \div 4
<1>1. x \in sx .. last /\ y \in sy .. sy + SCROLL_Y_DIM - 1 /\ last \in Int
    BY PixelIs, ViewAssumption
<1>2. /\ row \in Int /\ row0 \in Int /\ row0 <= row
      /\ row <= row0 + SCROLL_SIZE - SCROLL_X_WIDTH
      /\ (sy + SCROLL_Y_DIM - 1) * SCROLL_X_WIDTH = row0 + SCROLL_SIZE - SCROLL_X_WIDTH
    BY <1>1, RowsAre
<1>3. plane \in Int /\ 0 <= plane /\ plane <= 3 * SCROLL_SIZE
    <2>1. x % 4 \in 0 .. 3
        BY <1>1, ColumnIs
    <2> QED
        BY <2>1, PlaneIs, Sizes
<1>4. a \in Int /\ a0 \in Int /\ e \in Int /\ a0 <= a /\ a <= e
    BY <1>1, SMT
<1>5. off + a0 + row0 >= 0 /\ off + 3 * SCROLL_SIZE + e + (row0 + SCROLL_SIZE - SCROLL_X_WIDTH) < BUILD_BUF_SIZE
    BY <1>2 DEF Fits
<1>6. Address(off, x, y) = off + a + row + plane
    BY DEF Address
<1>7. SCROLL_SIZE \in Nat /\ SCROLL_X_WIDTH \in Nat /\ BUILD_BUF_SIZE \in Nat
    BY Sizes, ViewAssumption
<1> HIDE DEF x, y, plane, row, row0, a, a0, last, e
<1>8. Address(off, x, y) \in 0 .. BUILD_BUF_SIZE - 1
    BY <1>2, <1>3, <1>4, <1>5, <1>6, <1>7
<1> QED
    BY <1>8 DEF Addresses, x, y

(* No two pixels of a view have the same byte, although the planes of a    *)
(* view whose first column is not a multiple of four are shifted: the byte *)
(* that one plane gives up at its start is the one the next one needs.     *)
LEMMA OneByteEach ==
    ASSUME NEW off \in Int, NEW sx \in Int, NEW sy \in Int,
           NEW p \in Pixels(sx, sy), NEW q \in Pixels(sx, sy),
           Address(off, p[1], p[2]) = Address(off, q[1], q[2])
    PROVE  p = q
<1> DEFINE w == SCROLL_X_WIDTH
           S == SCROLL_SIZE
           a == p[1] \div 4
           r == p[1] % 4
           u == p[2] * w
           b == q[1] \div 4
           t == q[1] % 4
           v == q[2] * w
           c == sx \div 4
           m == sx % 4
           z == sy * w
           pr == (3 - r) * S
           pt == (3 - t) * S
<1>1. /\ p = <<p[1], p[2]>> /\ p[1] \in sx .. sx + SCROLL_X_DIM - 1 /\ p[2] \in sy .. sy + SCROLL_Y_DIM - 1
      /\ q = <<q[1], q[2]>> /\ q[1] \in sx .. sx + SCROLL_X_DIM - 1 /\ q[2] \in sy .. sy + SCROLL_Y_DIM - 1
    BY PixelIs
<1>2. /\ w \in Nat \ {0} /\ S \in Nat \ {0} /\ SCROLL_X_DIM = 4 * w
      /\ p[1] \in Int /\ q[1] \in Int /\ p[2] \in Int /\ q[2] \in Int
    BY <1>1, Sizes, ViewAssumption
<1>3. /\ a \in Int /\ r \in 0 .. 3 /\ p[1] = 4 * a + r
      /\ b \in Int /\ t \in 0 .. 3 /\ q[1] = 4 * b + t
      /\ c \in Int /\ m \in 0 .. 3 /\ sx = 4 * c + m
    BY <1>2, ColumnIs
<1>4. /\ u \in Int /\ v \in Int /\ z \in Int
      /\ z <= u /\ u <= z + S - w /\ z <= v /\ v <= z + S - w
    BY <1>1, RowsAre
<1>5. /\ p[2] < q[2] => u + w <= v
      /\ q[2] < p[2] => v + w <= u
    BY <1>2, RowAfterRow
<1>6. a + u + pr = b + v + pt /\ pr \in Int /\ pt \in Int
    <2>1. /\ Address(off, p[1], p[2]) = off + a + u + pr
          /\ Address(off, q[1], q[2]) = off + b + v + pt
        BY DEF Address
    <2>2. pr \in Int /\ pt \in Int
        BY <1>3, PlaneIs
    <2>3. off + a + u + pr = off + b + v + pt
        BY <2>1
    <2> HIDE DEF a, b, u, v, pr, pt
    <2> QED
        BY <2>2, <2>3, <1>3, <1>4
<1>7. /\ p[1] >= sx /\ p[1] <= sx + 4 * w - 1 /\ q[1] >= sx /\ q[1] <= sx + 4 * w - 1
    BY <1>1, <1>2
<1>8. /\ r = 0 => pr = 3 * S
      /\ r = 1 => pr = 2 * S
      /\ r = 2 => pr = S
      /\ r = 3 => pr = 0
      /\ t = 0 => pt = 3 * S
      /\ t = 1 => pt = 2 * S
      /\ t = 2 => pt = S
      /\ t = 3 => pt = 0
    BY <1>3, PlaneIs
<1> HIDE DEF w, S, a, r, u, b, t, v, c, m, z, pr, pt
<1>9. r = t
    <2>1. /\ 4 * c + m <= 4 * a + r /\ 4 * a + r <= 4 * c + m + 4 * w - 1
          /\ 4 * c + m <= 4 * b + t /\ 4 * b + t <= 4 * c + m + 4 * w - 1
        BY <1>3, <1>7
    <2>2. /\ r >= m => a >= c /\ a <= c + w - 1
          /\ r < m => a >= c + 1 /\ a <= c + w
          /\ t >= m => b >= c /\ b <= c + w - 1
          /\ t < m => b >= c + 1 /\ b <= c + w
        BY <2>1, <1>2, <1>3
    <2>3. r < t => a + u + pr > b + v + pt
        BY <2>2, <1>2, <1>3, <1>4, <1>8, SMTT(60)
    <2>4. t < r => b + v + pt > a + u + pr
        BY <2>2, <1>2, <1>3, <1>4, <1>8, SMTT(60)
    <2> QED
        BY <2>3, <2>4, <1>3, <1>4, <1>6
<1>10. a + u = b + v
    BY <1>3, <1>4, <1>6, <1>8, <1>9
<1>11. a <= b + w - 1 /\ b <= a + w - 1
    BY <1>2, <1>3, <1>7, <1>9
<1>12. p[2] = q[2]
    BY <1>2, <1>3, <1>4, <1>5, <1>10, <1>11
<1>13. a = b
    <2>1. u = v
        BY <1>12 DEF u, v
    <2> QED
        BY <2>1, <1>3, <1>4, <1>10
<1> QED
    BY <1>1, <1>3, <1>9, <1>12, <1>13

-----------------------------------------------------------------------------
(***************************************************************************)
(* What drawing writes.                                                    *)
(***************************************************************************)

\* The bytes are those of these pixels, each with its pixel's value.
Paints(bytes, off, P, value) ==
    /\ DOMAIN bytes = {Address(off, p[1], p[2]) : p \in P}
    /\ \A p \in P : bytes[Address(off, p[1], p[2])] = value[p]

\* What the maze's map shows.
MapOf(P, blocks) == [p \in P |-> <<p[1], p[2], Shows(blocks, p[1], p[2])>>]

(* What is drawn within a view that fits is in the buffer, and only these  *)
(* pixels change.                                                          *)
LEMMA WrittenIs ==
    ASSUME NEW off \in Int, NEW sx \in Int, NEW sy \in Int, Fits(off, sx, sy),
           NEW P, P \subseteq Pixels(sx, sy), NEW value, NEW bytes, Paints(bytes, off, P, value),
           NEW buffer
    PROVE  /\ ~Breaks(bytes)
           /\ \A q \in Pixels(sx, sy) :
                  Written(buffer, bytes)[Address(off, q[1], q[2])] =
                      IF q \in P THEN value[q] ELSE buffer[Address(off, q[1], q[2])]
<1>1. DOMAIN bytes \subseteq Addresses
    BY FitsMeans DEF Paints
<1>2. ASSUME NEW q \in Pixels(sx, sy)
      PROVE  Written(buffer, bytes)[Address(off, q[1], q[2])] =
                 IF q \in P THEN value[q] ELSE buffer[Address(off, q[1], q[2])]
    <2>1. Address(off, q[1], q[2]) \in Addresses
        BY FitsMeans
    <2>2. Address(off, q[1], q[2]) \in DOMAIN bytes <=> q \in P
        BY OneByteEach DEF Paints
    <2> QED
        BY <2>1, <2>2 DEF Written, Paints
<1> QED
    BY <1>1, <1>2 DEF Breaks

\* Parts of a line, drawn one after the other, are on one byte each.
LEMMA HorizontalPaints ==
    ASSUME NEW off \in Int, NEW sx \in Int, NEW sy \in Int,
           NEW y \in sy .. sy + SCROLL_Y_DIM - 1, NEW blocks
    PROVE  LET P == (sx .. sx + SCROLL_X_DIM - 1) \X {y}
           IN  Paints(horiz_line(off, sx, y, blocks), off, P, MapOf(P, blocks))
<1> DEFINE P == (sx .. sx + SCROLL_X_DIM - 1) \X {y}
           I == 0 .. SCROLL_X_DIM - 1
           byte(i) == off + (sx \div 4) + y * SCROLL_X_WIDTH
                      + ((sx % 4) + i) \div 4 + (3 - (((sx % 4) + i) % 4)) * SCROLL_SIZE
           index == [a \in {byte(i) : i \in I} |-> CHOOSE i \in I : byte(i) = a]
           line == fill_horiz_buffer(sx, y, blocks)
           bytes == [a \in DOMAIN index |-> line[index[a]]]
<1>1. horiz_line(off, sx, y, blocks) = bytes
    BY DEF horiz_line
<1>2. ASSUME NEW i \in I
      PROVE  byte(i) = Address(off, sx + i, y) /\ byte(i) \in Int
    <2>1. ((sx % 4) + i) % 4 = (sx + i) % 4 /\ (sx \div 4) + ((sx % 4) + i) \div 4 = (sx + i) \div 4
        BY ViewAssumption, SMT
    <2>2. /\ sx \div 4 \in Int /\ ((sx % 4) + i) \div 4 \in Int /\ (sx + i) \div 4 \in Int
          /\ y * SCROLL_X_WIDTH \in Int /\ (3 - ((sx + i) % 4)) * SCROLL_SIZE \in Int
        BY ViewAssumption, Sizes, SMT
    <2> DEFINE aa == sx \div 4
               bb == ((sx % 4) + i) \div 4
               cc == (sx + i) \div 4
               rr == y * SCROLL_X_WIDTH
               pp == (3 - ((sx + i) % 4)) * SCROLL_SIZE
    <2>3. byte(i) = off + aa + rr + bb + pp
        BY <2>1
    <2>4. Address(off, sx + i, y) = off + cc + rr + pp
        BY DEF Address
    <2>5. aa + bb = cc /\ aa \in Int /\ bb \in Int /\ cc \in Int /\ rr \in Int /\ pp \in Int
        BY <2>1, <2>2
    <2> HIDE DEF aa, bb, cc, rr, pp
    <2> QED
        BY <2>3, <2>4, <2>5
<1>3. ASSUME NEW i \in I
      PROVE  <<sx + i, y>> \in P /\ <<sx + i, y>> \in Pixels(sx, sy)
    BY ViewAssumption DEF Pixels
<1>4. ASSUME NEW p \in P
      PROVE  p[1] - sx \in I /\ p = <<sx + (p[1] - sx), y>> /\ p[2] = y /\ p[1] = sx + (p[1] - sx)
    BY ViewAssumption
<1> HIDE DEF byte
<1>5. {byte(i) : i \in I} = {Address(off, p[1], p[2]) : p \in P}
    <2>1. ASSUME NEW i \in I PROVE byte(i) \in {Address(off, p[1], p[2]) : p \in P}
        <3> DEFINE p == <<sx + i, y>>
        <3>1. p[1] = sx + i /\ p[2] = y /\ p \in P
            BY <1>3
        <3>2. byte(i) = Address(off, p[1], p[2])
            BY <1>2, <3>1
        <3> QED
            BY <3>1, <3>2
    <2>2. ASSUME NEW p \in P PROVE Address(off, p[1], p[2]) \in {byte(i) : i \in I}
        <3>1. p[1] - sx \in I /\ Address(off, p[1], p[2]) = byte(p[1] - sx)
            BY <1>2, <1>4
        <3> QED
            BY <3>1
    <2> QED
        BY <2>1, <2>2
<1>6. ASSUME NEW p \in P
      PROVE  bytes[Address(off, p[1], p[2])] = MapOf(P, blocks)[p]
    <2> DEFINE a == Address(off, p[1], p[2])
               j == index[a]
    <2>1. a \in DOMAIN index
        BY <1>5
    <2>2. j \in I /\ byte(j) = a
        <3>1. \E i \in I : byte(i) = a
            BY <2>1
        <3> QED
            BY <2>1, <3>1
    <2>3. <<sx + j, y>> = p
        <3>1. Address(off, sx + j, y) = a
            BY <2>2, <1>2
        <3>2. <<sx + j, y>> \in Pixels(sx, sy) /\ p \in Pixels(sx, sy)
            BY <2>2, <1>3, <1>4
        <3> QED
            BY <3>1, <3>2, OneByteEach
    <2>4. bytes[a] = line[j]
        BY <2>1
    <2>5. line[j] = <<sx + j, y, Shows(blocks, sx + j, y)>>
        BY <2>2 DEF fill_horiz_buffer
    <2>6. sx + j = p[1] /\ y = p[2]
        BY <2>3
    <2>7. MapOf(P, blocks)[p] = <<p[1], p[2], Shows(blocks, p[1], p[2])>>
        BY DEF MapOf
    <2> HIDE DEF j, a, line, bytes, P
    <2>8. line[j] = <<p[1], p[2], Shows(blocks, p[1], p[2])>>
        BY <2>5, <2>6
    <2> QED
        BY <2>4, <2>7, <2>8 DEF a
<1> HIDE DEF P
<1> QED
    BY <1>1, <1>5, <1>6 DEF Paints, P

\* The same for a column.
LEMMA VerticalPaints ==
    ASSUME NEW off \in Int, NEW sx \in Int, NEW sy \in Int,
           NEW x \in sx .. sx + SCROLL_X_DIM - 1, NEW blocks
    PROVE  LET P == {x} \X (sy .. sy + SCROLL_Y_DIM - 1)
           IN  Paints(vert_line(off, sx, x, sy, blocks), off, P, MapOf(P, blocks))
<1> DEFINE P == {x} \X (sy .. sy + SCROLL_Y_DIM - 1)
           I == 0 .. SCROLL_Y_DIM - 1
           byte(i) == off + (x \div 4) + sy * SCROLL_X_WIDTH
                      + (3 - (x % 4)) * SCROLL_SIZE + i * SCROLL_X_WIDTH
           index == [a \in {byte(i) : i \in I} |-> CHOOSE i \in I : byte(i) = a]
           line == fill_vert_buffer(x, sy, blocks)
           bytes == [a \in DOMAIN index |-> line[index[a]]]
<1>1. vert_line(off, sx, x, sy, blocks) = bytes
    BY DEF vert_line
<1>2. ASSUME NEW i \in I
      PROVE  byte(i) = Address(off, x, sy + i) /\ byte(i) \in Int
    <2> DEFINE aa == x \div 4
               rr == sy * SCROLL_X_WIDTH
               ii == i * SCROLL_X_WIDTH
               ss == (sy + i) * SCROLL_X_WIDTH
               pp == (3 - (x % 4)) * SCROLL_SIZE
    <2>1. ss = rr + ii
        BY ViewAssumption, Sizes, SMT
    <2>2. aa \in Int /\ rr \in Int /\ ii \in Int /\ ss \in Int /\ pp \in Int
        BY ViewAssumption, Sizes, SMT
    <2>3. byte(i) = off + aa + rr + pp + ii /\ Address(off, x, sy + i) = off + aa + ss + pp
        BY DEF Address
    <2> HIDE DEF aa, rr, ii, ss, pp
    <2> QED
        BY <2>1, <2>2, <2>3
<1>3. ASSUME NEW i \in I
      PROVE  <<x, sy + i>> \in P /\ <<x, sy + i>> \in Pixels(sx, sy)
    BY ViewAssumption DEF Pixels
<1>4. ASSUME NEW p \in P
      PROVE  p[2] - sy \in I /\ p = <<x, sy + (p[2] - sy)>> /\ p[1] = x /\ p[2] = sy + (p[2] - sy)
    BY ViewAssumption
<1> HIDE DEF byte
<1>5. {byte(i) : i \in I} = {Address(off, p[1], p[2]) : p \in P}
    <2>1. ASSUME NEW i \in I PROVE byte(i) \in {Address(off, p[1], p[2]) : p \in P}
        <3> DEFINE p == <<x, sy + i>>
        <3>1. p[1] = x /\ p[2] = sy + i /\ p \in P
            BY <1>3
        <3>2. byte(i) = Address(off, p[1], p[2])
            BY <1>2, <3>1
        <3> QED
            BY <3>1, <3>2
    <2>2. ASSUME NEW p \in P PROVE Address(off, p[1], p[2]) \in {byte(i) : i \in I}
        <3>1. p[2] - sy \in I /\ Address(off, p[1], p[2]) = byte(p[2] - sy)
            BY <1>2, <1>4
        <3> QED
            BY <3>1
    <2> QED
        BY <2>1, <2>2
<1>6. ASSUME NEW p \in P
      PROVE  bytes[Address(off, p[1], p[2])] = MapOf(P, blocks)[p]
    <2> DEFINE a == Address(off, p[1], p[2])
               j == index[a]
    <2>1. a \in DOMAIN index
        BY <1>5
    <2>2. j \in I /\ byte(j) = a
        <3>1. \E i \in I : byte(i) = a
            BY <2>1
        <3> QED
            BY <2>1, <3>1
    <2>3. <<x, sy + j>> = p
        <3>1. Address(off, x, sy + j) = a
            BY <2>2, <1>2
        <3>2. <<x, sy + j>> \in Pixels(sx, sy) /\ p \in Pixels(sx, sy)
            BY <2>2, <1>3, <1>4
        <3> QED
            BY <3>1, <3>2, OneByteEach
    <2>4. bytes[a] = line[j]
        BY <2>1
    <2>5. line[j] = <<x, sy + j, Shows(blocks, x, sy + j)>>
        BY <2>2 DEF fill_vert_buffer
    <2>6. x = p[1] /\ sy + j = p[2]
        BY <2>3
    <2>7. MapOf(P, blocks)[p] = <<p[1], p[2], Shows(blocks, p[1], p[2])>>
        BY DEF MapOf
    <2> HIDE DEF j, a, line, bytes, P
    <2>8. line[j] = <<p[1], p[2], Shows(blocks, p[1], p[2])>>
        BY <2>5, <2>6
    <2> QED
        BY <2>4, <2>7, <2>8 DEF a
<1> HIDE DEF P
<1> QED
    BY <1>1, <1>5, <1>6 DEF Paints, P

\* The bytes a copy is meant to leave: those of build before it, moved.
BytesFrom(from, to, length) == [a \in to .. to + length - 1 |-> build[from + (a - to)]]

\* What a copy that never writes a byte before it reads it leaves: each byte.
LEMMA CopyIs ==
    ASSUME NEW from \in Int, NEW to \in Int, NEW length \in Int
    PROVE  CopyBytes(from, to, length) = BytesFrom(from, to, length)
<1> DEFINE delta == from - to
           forward == CopiesForward(from, to)
           overwritten(i) == IF forward THEN i + delta \in 0 .. i - 1
                             ELSE i + delta \in i + 1 .. length - 1
           copy == CHOOSE copy : copy = [i \in 0 .. length - 1 |->
                       IF overwritten(i) THEN copy[i + delta] ELSE build[from + i]]
           plain == [i \in 0 .. length - 1 |-> build[from + i]]
<1>1. CopyBytes(from, to, length) = [a \in to .. to + length - 1 |-> copy[a - to]]
    BY DEF CopyBytes
<1>2. ASSUME NEW i \in 0 .. length - 1 PROVE ~overwritten(i)
    BY DEF CopiesForward
<1> HIDE DEF overwritten
<1>3. copy = [i \in 0 .. length - 1 |-> IF overwritten(i) THEN copy[i + delta] ELSE build[from + i]]
    <2>1. plain = [i \in 0 .. length - 1 |-> IF overwritten(i) THEN plain[i + delta] ELSE build[from + i]]
        BY <1>2
    <2> HIDE DEF plain
    <2> QED
        BY <2>1
<1> HIDE DEF copy
<1>4. copy = plain
    BY <1>2, <1>3
<1> QED
    BY <1>1, <1>4 DEF BytesFrom

\* A view that is put in the middle of the buffer fits there.
LEMMA RecentredFits ==
    ASSUME NEW sx \in Int, NEW sy \in Int
    PROVE  Recentred(sx, sy) \in Int /\ Fits(Recentred(sx, sy), sx, sy)
<1> DEFINE w == SCROLL_X_WIDTH
           a == sx \div 4
           e == (sx + SCROLL_X_DIM - 1) \div 4
           z == sy * w
           off == Recentred(sx, sy)
<1>1. /\ w \in Nat \ {0} /\ SCROLL_X_DIM = 4 * w /\ SCROLL_SIZE \in Nat \ {0}
      /\ BUILD_BUF_SIZE = 4 * SCROLL_SIZE + 1 + EXTRA /\ BUILD_BASE_INIT \in 0 .. EXTRA /\ EXTRA \in Nat
    BY Sizes, ViewAssumption
<1>2. a \in Int /\ e \in Int /\ e <= a + w
    BY <1>1, SMT
<1>3. z \in Int /\ (sy + SCROLL_Y_DIM - 1) * w = z + SCROLL_SIZE - w
    <2>1. sy \in sy .. sy + SCROLL_Y_DIM - 1
        BY ViewAssumption
    <2> QED
        BY <2>1, RowsAre
<1>4. off = BUILD_BASE_INIT - a - z
    BY DEF Recentred
<1> HIDE DEF w, a, e, z, off
<1>5. off \in Int /\ off + a + z >= 0 /\ off + 3 * SCROLL_SIZE + e + (z + SCROLL_SIZE - w) < BUILD_BUF_SIZE
    BY <1>1, <1>2, <1>3, <1>4
<1> QED
    BY <1>3, <1>5 DEF Fits, w, a, e, z, off

\* The rectangle that two views share, and the bytes from its first to its last.
LEMMA SharedIs ==
    ASSUME NEW x0 \in Int, NEW y0 \in Int, NEW x1 \in Int, NEW y1 \in Int, NEW off \in Int,
           x0 <= x1, y0 <= y1, NEW x \in x0 .. x1, NEW y \in y0 .. y1
    PROVE  LET first == (x0 \div 4) + y0 * SCROLL_X_WIDTH
               last == (x1 \div 4) + y1 * SCROLL_X_WIDTH + 3 * SCROLL_SIZE
           IN  /\ first \in Int /\ last \in Int /\ first <= last
               /\ Address(off, x, y) - off \in first .. last
<1> DEFINE w == SCROLL_X_WIDTH
           a0 == x0 \div 4
           a1 == x1 \div 4
           a == x \div 4
           u0 == y0 * w
           u1 == y1 * w
           u == y * w
           plane == (3 - (x % 4)) * SCROLL_SIZE
<1>1. a0 \in Int /\ a1 \in Int /\ a \in Int /\ a0 <= a /\ a <= a1
    BY SMT
<1>2. u0 \in Int /\ u1 \in Int /\ u \in Int /\ u0 <= u /\ u <= u1
    <2>1. w \in Nat \ {0}
        BY Sizes
    <2>2. u0 \in Int /\ u1 \in Int /\ u \in Int
        BY <2>1
    <2>3. u0 <= u
        <3>1. CASE y0 < y
            BY <3>1, <2>1, <2>2, RowAfterRow
        <3>2. CASE y0 = y
            BY <3>2, <2>2
        <3> QED
            BY <3>1, <3>2
    <2>4. u <= u1
        <3>1. CASE y < y1
            BY <3>1, <2>1, <2>2, RowAfterRow
        <3>2. CASE y1 = y
            BY <3>2, <2>2
        <3> QED
            BY <3>1, <3>2
    <2> QED
        BY <2>2, <2>3, <2>4
<1>3. plane \in Int /\ 0 <= plane /\ plane <= 3 * SCROLL_SIZE /\ SCROLL_SIZE \in Nat
    <2>1. x % 4 \in 0 .. 3
        BY ColumnIs
    <2> QED
        BY <2>1, PlaneIs, Sizes
<1>4. Address(off, x, y) = off + a + u + plane
    BY DEF Address
<1> HIDE DEF w, a0, a1, a, u0, u1, u, plane
<1>5. /\ a0 + u0 \in Int /\ a1 + u1 + 3 * SCROLL_SIZE \in Int /\ a0 + u0 <= a1 + u1 + 3 * SCROLL_SIZE
      /\ Address(off, x, y) - off \in a0 + u0 .. a1 + u1 + 3 * SCROLL_SIZE
    BY <1>1, <1>2, <1>3, <1>4
<1> QED
    BY <1>5 DEF w, a0, a1, u0, u1

\* A pixel's byte lies as far behind the offset wherever the buffer begins.
LEMMA AddressMoves ==
    ASSUME NEW off \in Int, NEW new \in Int, NEW x \in Int, NEW y \in Int
    PROVE  Address(new, x, y) = new + (Address(off, x, y) - off)
<1> DEFINE a == x \div 4
           u == y * SCROLL_X_WIDTH
           plane == (3 - (x % 4)) * SCROLL_SIZE
<1>1. a \in Int /\ u \in Int /\ plane \in Int
    BY ColumnIs, Sizes, PlaneIs
<1>2. Address(off, x, y) = off + a + u + plane /\ Address(new, x, y) = new + a + u + plane
    BY DEF Address
<1> HIDE DEF a, u, plane
<1> QED
    BY <1>1, <1>2

(* When a view is copied to the middle of the buffer, what it shares with  *)
(* the new view is copied with it, and the copy stays in the buffer.       *)
LEMMA MovedIs ==
    ASSUME NEW sx \in Int, NEW sy \in Int, show_x \in Int, show_y \in Int, img3_off \in Int,
           ~Apart(sx, sy)
    PROVE  /\ DOMAIN Moved(sx, sy) \subseteq Addresses
           /\ \A p \in Pixels(sx, sy) \intersect Pixels(show_x, show_y) :
                  /\ Address(Recentred(sx, sy), p[1], p[2]) \in DOMAIN Moved(sx, sy)
                  /\ Moved(sx, sy)[Address(Recentred(sx, sy), p[1], p[2])] =
                         build[Address(img3_off, p[1], p[2])]
<1> DEFINE off == Recentred(sx, sy)
           start_x == MaxOf(sx, show_x)
           start_y == MaxOf(sy, show_y)
           end_x == MinOf(sx, show_x) + SCROLL_X_DIM - 1
           end_y == MinOf(sy, show_y) + SCROLL_Y_DIM - 1
           start_off == (start_x \div 4) + start_y * SCROLL_X_WIDTH
           end_off == (end_x \div 4) + end_y * SCROLL_X_WIDTH
           length == end_off + 1 - start_off + 3 * SCROLL_SIZE
<1>1. Moved(sx, sy) = CopyBytes(img3_off + start_off, off + start_off, length)
    BY DEF Moved
<1>2. /\ start_x \in Int /\ start_y \in Int /\ end_x \in Int /\ end_y \in Int
      /\ start_x <= end_x /\ start_y <= end_y
      /\ start_x >= sx /\ start_y >= sy /\ end_x <= sx + SCROLL_X_DIM - 1 /\ end_y <= sy + SCROLL_Y_DIM - 1
      /\ start_x >= show_x /\ start_y >= show_y
      /\ end_x <= show_x + SCROLL_X_DIM - 1 /\ end_y <= show_y + SCROLL_Y_DIM - 1
      /\ \A p \in Pixels(sx, sy) \intersect Pixels(show_x, show_y) :
             p[1] \in start_x .. end_x /\ p[2] \in start_y .. end_y
    <2>1. SCROLL_X_DIM \in Nat \ {0} /\ SCROLL_Y_DIM \in Nat \ {0}
        BY ViewAssumption
    <2>2. ASSUME NEW p \in Pixels(sx, sy) \intersect Pixels(show_x, show_y)
          PROVE  p[1] \in start_x .. end_x /\ p[2] \in start_y .. end_y
        <3>1. /\ p[1] \in sx .. sx + SCROLL_X_DIM - 1 /\ p[1] \in show_x .. show_x + SCROLL_X_DIM - 1
              /\ p[2] \in sy .. sy + SCROLL_Y_DIM - 1 /\ p[2] \in show_y .. show_y + SCROLL_Y_DIM - 1
            BY PixelIs
        <3> QED
            BY <2>1, <3>1 DEF MaxOf, MinOf
    <2> QED
        BY <2>1, <2>2 DEF MaxOf, MinOf, Apart
<1>3. off \in Int /\ Fits(off, sx, sy)
    BY RecentredFits
<1> HIDE DEF start_x, start_y, end_x, end_y
<1>4. /\ start_off \in Int /\ end_off \in Int /\ start_off <= end_off + 3 * SCROLL_SIZE
      /\ SCROLL_SIZE \in Nat /\ length \in Int
    <2>1. /\ start_x \div 4 \in Int /\ end_x \div 4 \in Int
          /\ start_y * SCROLL_X_WIDTH \in Int /\ end_y * SCROLL_X_WIDTH \in Int /\ SCROLL_SIZE \in Nat
        BY <1>2, ColumnIs, Sizes
    <2>2. start_x \in start_x .. end_x /\ start_y \in start_y .. end_y
        BY <1>2
    <2>3. start_off <= end_off + 3 * SCROLL_SIZE
        BY <2>2, <1>2, <1>3, SharedIs
    <2> QED
        BY <2>1, <2>3
<1>5. off + start_off >= 0 /\ off + end_off + 3 * SCROLL_SIZE < BUILD_BUF_SIZE
    <2> DEFINE a == sx \div 4
               e == (sx + SCROLL_X_DIM - 1) \div 4
               a1 == start_x \div 4
               e1 == end_x \div 4
               z == sy * SCROLL_X_WIDTH
               y == (sy + SCROLL_Y_DIM - 1) * SCROLL_X_WIDTH
               z1 == start_y * SCROLL_X_WIDTH
               y1 == end_y * SCROLL_X_WIDTH
    <2>1. a \in Int /\ e \in Int /\ a1 \in Int /\ e1 \in Int /\ a <= a1 /\ e1 <= e
        BY <1>2, ViewAssumption, SMT
    <2>2. /\ z \in Int /\ z1 \in Int /\ y \in Int /\ y1 \in Int
          /\ z <= z1 /\ y1 <= y
        <3>1. start_y \in sy .. sy + SCROLL_Y_DIM - 1 /\ end_y \in sy .. sy + SCROLL_Y_DIM - 1
            BY <1>2, ViewAssumption
        <3> QED
            BY <3>1, RowsAre, Sizes, ViewAssumption
    <2>3. off + a + z >= 0 /\ off + 3 * SCROLL_SIZE + e + y < BUILD_BUF_SIZE
        BY <1>3 DEF Fits
    <2>4. start_off = a1 + z1 /\ end_off = e1 + y1
        OBVIOUS
    <2>5. BUILD_BUF_SIZE \in Nat
        BY Sizes, ViewAssumption
    <2> HIDE DEF a, e, a1, e1, z, y, z1, y1, off, start_off, end_off
    <2> QED
        BY <2>1, <2>2, <2>3, <2>4, <2>5, <1>3, <1>4
<1>6. PICK from \in Int, to \in Int, n \in Int :
          from = img3_off + start_off /\ to = off + start_off /\ n = length
    BY <1>3, <1>4
<1>7. CopyBytes(from, to, n) = BytesFrom(from, to, n)
    BY CopyIs
<1>8. to .. to + n - 1 \subseteq Addresses
    <2>1. to + n - 1 = off + end_off + 3 * SCROLL_SIZE
        <3> HIDE DEF off, start_off, end_off
        <3> QED
            BY <1>3, <1>4, <1>6
    <2>2. to >= 0
        BY <1>5, <1>6
    <2>3. BUILD_BUF_SIZE \in Nat
        BY Sizes, ViewAssumption
    <2> HIDE DEF length, off, end_off, start_off
    <2> QED
        BY <2>1, <2>2, <2>3, <1>5, <1>3, <1>4, <1>6 DEF Addresses
<1>9. ASSUME NEW p \in Pixels(sx, sy) \intersect Pixels(show_x, show_y)
      PROVE  /\ Address(off, p[1], p[2]) \in to .. to + n - 1
             /\ CopyBytes(from, to, n)[Address(off, p[1], p[2])] = build[Address(img3_off, p[1], p[2])]
    <2> DEFINE far == Address(off, p[1], p[2]) - off
    <2>1. p[1] \in start_x .. end_x /\ p[2] \in start_y .. end_y
        BY <1>2
    <2>2. far \in start_off .. end_off + 3 * SCROLL_SIZE
        BY <2>1, <1>2, <1>3, SharedIs
    <2>3. Address(off, p[1], p[2]) \in Int /\ Address(img3_off, p[1], p[2]) = img3_off + far
        <3>1. p[1] \in Int /\ p[2] \in Int
            BY <2>1, <1>2
        <3>2. Address(off, p[1], p[2]) \in Int
            BY <3>1, <1>3, AddressIs
        <3>3. Address(img3_off, p[1], p[2]) = img3_off + far
            BY <3>1, <1>3, AddressMoves
        <3> QED
            BY <3>2, <3>3
    <2> HIDE DEF start_off, end_off, off
    <2> DEFINE a == Address(off, p[1], p[2])
    <2>4. far \in Int /\ a = off + far
        BY <2>2, <2>3, <1>3
    <2>5. a \in to .. to + n - 1 /\ from + (a - to) = img3_off + far
        BY <2>2, <2>4, <1>3, <1>4, <1>6
    <2> QED
        BY <2>3, <2>5, <1>7 DEF BytesFrom
<1>10. Moved(sx, sy) = CopyBytes(from, to, n)
    BY <1>1, <1>6
<1> HIDE DEF off
<1>11. DOMAIN Moved(sx, sy) = to .. to + n - 1 /\ DOMAIN Moved(sx, sy) \subseteq Addresses
    BY <1>7, <1>8, <1>10 DEF BytesFrom
<1> QED
    BY <1>9, <1>10, <1>11 DEF off

\* All lines, one after the other, are the whole view.
LEMMA AllPaints ==
    ASSUME NEW off \in Int, NEW sx \in Int, NEW sy \in Int, NEW blocks
    PROVE  LET P == Pixels(sx, sy)
           IN  Paints(AllLines(off, sx, sy, blocks), off, P, MapOf(P, blocks))
<1> DEFINE P == Pixels(sx, sy)
           Y == sy .. sy + SCROLL_Y_DIM - 1
           Line(y) == (sx .. sx + SCROLL_X_DIM - 1) \X {y}
           row == [y \in Y |-> horiz_line(off, sx, y, blocks)]
           holder == [a \in UNION {DOMAIN row[y] : y \in DOMAIN row} |->
                         CHOOSE y \in DOMAIN row : a \in DOMAIN row[y]]
           bytes == [a \in DOMAIN holder |-> row[holder[a]][a]]
<1>1. AllLines(off, sx, sy, blocks) = bytes
    BY DEF AllLines
<1>2. ASSUME NEW y \in Y
      PROVE  /\ DOMAIN row[y] = {Address(off, p[1], p[2]) : p \in Line(y)}
             /\ \A p \in Line(y) : row[y][Address(off, p[1], p[2])] = MapOf(P, blocks)[p]
    <2>1. Paints(horiz_line(off, sx, y, blocks), off, Line(y), MapOf(Line(y), blocks))
        BY HorizontalPaints
    <2>2. \A p \in Line(y) : MapOf(Line(y), blocks)[p] = MapOf(P, blocks)[p]
        BY DEF MapOf, Pixels
    <2>3. row[y] = horiz_line(off, sx, y, blocks)
        OBVIOUS
    <2> HIDE DEF Line, row
    <2> QED
        BY <2>1, <2>2, <2>3 DEF Paints
<1>3. DOMAIN row = Y
    OBVIOUS
<1>4. \A p \in P : p[2] \in Y /\ p \in Line(p[2])
    BY DEF Pixels
<1>5. \A y \in Y : \A p \in Line(y) : p \in P /\ p[2] = y
    BY DEF Pixels
<1> HIDE DEF row, P, Y, Line
<1>6. DOMAIN holder = {Address(off, p[1], p[2]) : p \in P}
    <2>1. ASSUME NEW p \in P PROVE Address(off, p[1], p[2]) \in DOMAIN holder
        BY <1>2, <1>3, <1>4
    <2>2. ASSUME NEW a \in DOMAIN holder PROVE a \in {Address(off, p[1], p[2]) : p \in P}
        <3>1. PICK y \in Y : a \in DOMAIN row[y]
            BY <1>3
        <3>2. PICK p \in Line(y) : a = Address(off, p[1], p[2])
            BY <1>2, <3>1
        <3> QED
            BY <3>1, <3>2, <1>5
    <2> QED
        BY <2>1, <2>2
<1>7. ASSUME NEW p \in P
      PROVE  bytes[Address(off, p[1], p[2])] = MapOf(P, blocks)[p]
    <2> DEFINE a == Address(off, p[1], p[2])
               y == holder[a]
    <2>1. a \in DOMAIN holder
        BY <1>6
    <2>2. y \in Y /\ a \in DOMAIN row[y]
        <3>1. \E z \in Y : a \in DOMAIN row[z]
            BY <2>1, <1>3
        <3> QED
            BY <2>1, <3>1, <1>3
    <2> HIDE DEF y, a, holder
    <2>3. PICK q \in Line(y) : a = Address(off, q[1], q[2])
        <3>1. DOMAIN row[y] = {Address(off, q[1], q[2]) : q \in Line(y)}
            BY <2>2, <1>2
        <3> QED
            BY <2>2, <3>1
    <2>4. q = p
        <3>1. q \in P
            BY <2>2, <2>3, <1>5
        <3> QED
            BY <3>1, <2>3, OneByteEach DEF P, a
    <2>5. bytes[a] = row[y][a]
        BY <2>1 DEF y
    <2> HIDE DEF bytes
    <2>6. row[y][a] = MapOf(P, blocks)[p]
        BY <2>2, <2>3, <2>4, <1>2 DEF a
    <2> QED
        BY <2>5, <2>6 DEF a
<1>8. DOMAIN bytes = {Address(off, p[1], p[2]) : p \in P}
    BY <1>6
<1> HIDE DEF bytes
<1> QED
    BY <1>1, <1>7, <1>8 DEF Paints, P

\* A set of pixels, drawn byte by byte.
LEMMA IndexIs ==
    ASSUME NEW off \in Int, NEW sx \in Int, NEW sy \in Int, NEW P, P \subseteq Pixels(sx, sy),
           NEW p \in P
    PROVE  (CHOOSE q \in P : Address(off, q[1], q[2]) = Address(off, p[1], p[2])) = p
<1> DEFINE q == CHOOSE q \in P : Address(off, q[1], q[2]) = Address(off, p[1], p[2])
<1>1. q \in P /\ Address(off, q[1], q[2]) = Address(off, p[1], p[2])
    OBVIOUS
<1> HIDE DEF q
<1> QED
    BY <1>1, OneByteEach DEF q

\* Clipping along one axis keeps what of a block is in view.
LEMMA ClippedIs ==
    ASSUME NEW pos \in Int, NEW show \in Int, NEW dim \in Nat \ {0}, NEW block \in Nat \ {0},
           pos + block > show, pos < show + dim
    PROVE  LET h == Clipped(pos, show, dim, block)
           IN  /\ h.pos \in Int /\ h.skip \in Nat /\ h.count \in Int /\ h.pos = pos + h.skip
               /\ \A c \in 0 .. h.count - 1 :
                      h.pos + c \in show .. show + dim - 1 /\ h.skip + c \in 0 .. block - 1
               /\ \A x \in show .. show + dim - 1 :
                      x - pos \in 0 .. block - 1 => x - h.pos \in 0 .. h.count - 1
BY SMT DEF Clipped, MaxOf, MinOf

\* The pixels in view of those of a block that are let through.
InBlock(through, px, py) == {p \in Pixels(show_x, show_y) : <<p[1] - px, p[2] - py>> \in through}

\* What a block's pixels are given, by their places.
BlockValue(through, px, py, blk) == [p \in InBlock(through, px, py) |-> blk[<<p[1] - px, p[2] - py>>]]

(* What is drawn of a block is what of it is in view, and no byte beside.  *)
LEMMA BlockPaints ==
    ASSUME show_x \in Int, show_y \in Int, img3_off \in Int, NEW px \in Int, NEW py \in Int,
           NEW through, through \subseteq Cells, NEW blk
    PROVE  Paints(DrawnWhere(through, px, py, blk), img3_off, InBlock(through, px, py),
                  BlockValue(through, px, py, blk))
<1> DEFINE P == InBlock(through, px, py)
           h == Clipped(px, show_x, SCROLL_X_DIM, BLOCK_X_DIM)
           v == Clipped(py, show_y, SCROLL_Y_DIM, BLOCK_Y_DIM)
           cells == {c \in (0 .. h.count - 1) \X (0 .. v.count - 1) :
                        <<h.skip + c[1], v.skip + c[2]>> \in through}
           byte(c) == Address(img3_off, h.pos + c[1], v.pos + c[2])
           index == [a \in {byte(c) : c \in cells} |-> CHOOSE c \in cells : byte(c) = a]
           bytes == [a \in DOMAIN index |-> blk[<<h.skip + index[a][1], v.skip + index[a][2]>>]]
<1>1. /\ SCROLL_X_DIM \in Nat \ {0} /\ SCROLL_Y_DIM \in Nat \ {0}
      /\ BLOCK_X_DIM \in Nat \ {0} /\ BLOCK_Y_DIM \in Nat \ {0}
    BY ViewAssumption
<1>2. \A d \in through : d[1] \in 0 .. BLOCK_X_DIM - 1 /\ d[2] \in 0 .. BLOCK_Y_DIM - 1
    BY DEF Cells
<1>3. ASSUME NEW p \in P
      PROVE  /\ p = <<p[1], p[2]>> /\ p \in Pixels(show_x, show_y)
             /\ p[1] \in show_x .. show_x + SCROLL_X_DIM - 1 /\ p[2] \in show_y .. show_y + SCROLL_Y_DIM - 1
             /\ <<p[1] - px, p[2] - py>> \in through
             /\ p[1] - px \in 0 .. BLOCK_X_DIM - 1 /\ p[2] - py \in 0 .. BLOCK_Y_DIM - 1
             /\ p[1] \in Int /\ p[2] \in Int
    <2>1. p \in Pixels(show_x, show_y) /\ <<p[1] - px, p[2] - py>> \in through
        BY DEF InBlock
    <2>2. /\ p = <<p[1], p[2]>>
          /\ p[1] \in show_x .. show_x + SCROLL_X_DIM - 1 /\ p[2] \in show_y .. show_y + SCROLL_Y_DIM - 1
        BY <2>1, PixelIs
    <2>3. p[1] - px \in 0 .. BLOCK_X_DIM - 1 /\ p[2] - py \in 0 .. BLOCK_Y_DIM - 1
        BY <1>2, <2>1
    <2>4. \A a \in Int, b \in Int : \A i \in a .. b : i \in Int
        OBVIOUS
    <2> QED
        BY <1>1, <2>1, <2>2, <2>3, <2>4
<1>4. CASE OffScreen(px, py)
    <2>1. P = {}
        <3> SUFFICES ASSUME NEW p \in P PROVE FALSE
            OBVIOUS
        <3> DEFINE x == p[1]
                   y == p[2]
        <3>1. /\ x \in show_x .. show_x + SCROLL_X_DIM - 1 /\ y \in show_y .. show_y + SCROLL_Y_DIM - 1
              /\ x - px \in 0 .. BLOCK_X_DIM - 1 /\ y - py \in 0 .. BLOCK_Y_DIM - 1
            BY <1>3
        <3> HIDE DEF x, y
        <3> QED
            BY <1>1, <3>1, <1>4 DEF OffScreen
    <2>2. DrawnWhere(through, px, py, blk) = <<>>
        BY <1>4 DEF DrawnWhere
    <2> HIDE DEF P
    <2> QED
        BY <2>1, <2>2 DEF Paints, P
<1>5. CASE ~OffScreen(px, py)
    <2>1. DrawnWhere(through, px, py, blk) = bytes
        BY <1>5 DEF DrawnWhere
    <2>2. /\ h.pos \in Int /\ h.skip \in Nat /\ h.count \in Int /\ h.pos = px + h.skip
          /\ \A c \in 0 .. h.count - 1 :
                 h.pos + c \in show_x .. show_x + SCROLL_X_DIM - 1 /\ h.skip + c \in 0 .. BLOCK_X_DIM - 1
          /\ \A x \in show_x .. show_x + SCROLL_X_DIM - 1 :
                 x - px \in 0 .. BLOCK_X_DIM - 1 => x - h.pos \in 0 .. h.count - 1
        <3>1. px + BLOCK_X_DIM > show_x /\ px < show_x + SCROLL_X_DIM
            BY <1>1, <1>5 DEF OffScreen
        <3> QED
            BY <1>1, <3>1, ClippedIs
    <2>3. /\ v.pos \in Int /\ v.skip \in Nat /\ v.count \in Int /\ v.pos = py + v.skip
          /\ \A c \in 0 .. v.count - 1 :
                 v.pos + c \in show_y .. show_y + SCROLL_Y_DIM - 1 /\ v.skip + c \in 0 .. BLOCK_Y_DIM - 1
          /\ \A y \in show_y .. show_y + SCROLL_Y_DIM - 1 :
                 y - py \in 0 .. BLOCK_Y_DIM - 1 => y - v.pos \in 0 .. v.count - 1
        <3>1. py + BLOCK_Y_DIM > show_y /\ py < show_y + SCROLL_Y_DIM
            BY <1>1, <1>5 DEF OffScreen
        <3> QED
            BY <1>1, <3>1, ClippedIs
    <2> DEFINE Pixel(c) == <<h.pos + c[1], v.pos + c[2]>>
               Cell(p) == <<p[1] - h.pos, p[2] - v.pos>>
    <2> HIDE DEF h, v
    <2>4. ASSUME NEW c \in cells
          PROVE  /\ Pixel(c) \in P /\ Pixel(c)[1] = h.pos + c[1] /\ Pixel(c)[2] = v.pos + c[2]
                 /\ <<Pixel(c)[1] - px, Pixel(c)[2] - py>> = <<h.skip + c[1], v.skip + c[2]>>
        <3>1. c[1] \in 0 .. h.count - 1 /\ c[2] \in 0 .. v.count - 1 /\ <<h.skip + c[1], v.skip + c[2]>> \in through
            OBVIOUS
        <3>2. Pixel(c)[1] = h.pos + c[1] /\ Pixel(c)[2] = v.pos + c[2]
            OBVIOUS
        <3>3. <<Pixel(c)[1] - px, Pixel(c)[2] - py>> = <<h.skip + c[1], v.skip + c[2]>>
            BY <2>2, <2>3, <3>1, <3>2
        <3>4. Pixel(c) \in Pixels(show_x, show_y)
            BY <2>2, <2>3, <3>1 DEF Pixels
        <3> QED
            BY <3>1, <3>2, <3>3, <3>4 DEF InBlock
    <2>5. ASSUME NEW p \in P
          PROVE  /\ Cell(p) \in cells /\ Pixel(Cell(p)) = p
        <3>1. p[1] - h.pos \in 0 .. h.count - 1 /\ p[2] - v.pos \in 0 .. v.count - 1
            BY <1>3, <2>2, <2>3
        <3> DEFINE x == p[1]
                   y == p[2]
                   hp == h.pos
                   vp == v.pos
                   hs == h.skip
                   vs == v.skip
        <3>2. hs + (x - hp) = x - px /\ vs + (y - vp) = y - py /\ hp + (x - hp) = x /\ vp + (y - vp) = y
            <4>1. /\ x \in Int /\ y \in Int /\ hp \in Int /\ hs \in Int /\ vp \in Int /\ vs \in Int
                  /\ hp = px + hs /\ vp = py + vs
                <5>1. x \in Int /\ y \in Int
                    BY <1>3
                <5>2. hp \in Int /\ hs \in Int /\ hp = px + hs
                    BY <2>2
                <5>3. vp \in Int /\ vs \in Int /\ vp = py + vs
                    BY <2>3
                <5> QED
                    BY <5>1, <5>2, <5>3
            <4> HIDE DEF x, y, hp, vp, hs, vs
            <4> QED
                BY <4>1
        <3>3. Cell(p) \in cells
            BY <3>1, <3>2, <1>3
        <3> QED
            BY <3>2, <3>3, <1>3
    <2>6. ASSUME NEW c \in cells PROVE byte(c) = Address(img3_off, Pixel(c)[1], Pixel(c)[2])
        BY <2>4
    <2> HIDE DEF cells, byte, Pixel, Cell, P
    <2>7. DOMAIN bytes = {Address(img3_off, p[1], p[2]) : p \in P}
        <3>1. ASSUME NEW c \in cells PROVE byte(c) \in {Address(img3_off, p[1], p[2]) : p \in P}
            BY <2>4, <2>6
        <3>2. ASSUME NEW p \in P PROVE Address(img3_off, p[1], p[2]) \in {byte(c) : c \in cells}
            <4>1. Cell(p) \in cells /\ byte(Cell(p)) = Address(img3_off, p[1], p[2])
                BY <2>5, <2>6
            <4> QED
                BY <4>1
        <3>3. DOMAIN bytes = {byte(c) : c \in cells}
            OBVIOUS
        <3> QED
            BY <3>1, <3>2, <3>3
    <2>8. ASSUME NEW p \in P
          PROVE  bytes[Address(img3_off, p[1], p[2])] = BlockValue(through, px, py, blk)[p]
        <3> DEFINE a == Address(img3_off, p[1], p[2])
                   c == index[a]
        <3>1. a \in DOMAIN index /\ a \in DOMAIN bytes
            BY <2>7
        <3>2. c \in cells /\ byte(c) = a
            <4>1. \E d \in cells : byte(d) = a
                BY <3>1
            <4> QED
                BY <3>1, <4>1
        <3>3. Pixel(c) = p
            <4>1. Pixel(c) \in P /\ Address(img3_off, Pixel(c)[1], Pixel(c)[2]) = a
                BY <3>2, <2>4, <2>6
            <4>2. Pixel(c) \in Pixels(show_x, show_y) /\ p \in Pixels(show_x, show_y)
                BY <4>1 DEF P, InBlock
            <4> QED
                BY <4>1, <4>2, OneByteEach
        <3>4. bytes[a] = blk[<<h.skip + c[1], v.skip + c[2]>>]
            BY <3>1
        <3>5. <<p[1] - px, p[2] - py>> = <<h.skip + c[1], v.skip + c[2]>>
            BY <3>2, <3>3, <2>4
        <3>6. BlockValue(through, px, py, blk)[p] = blk[<<p[1] - px, p[2] - py>>]
            BY DEF BlockValue, P
        <3> HIDE DEF a, c, bytes, index
        <3> QED
            BY <3>4, <3>5, <3>6 DEF a
    <2> HIDE DEF bytes
    <2> QED
        BY <2>1, <2>7, <2>8 DEF Paints, P
<1> QED
    BY <1>4, <1>5

(* Wherever the view jumps or moves, it fits the buffer there, and what    *)
(* was in view and still is shows at its new place.                        *)
LEMMA WindowIs ==
    ASSUME show_x \in Int, show_y \in Int, img3_off \in Int,
           NEW sx \in Int, NEW sy \in Int
    PROVE  LET m == set_view_window(sx, sy)
           IN  /\ m.off \in Int /\ Fits(m.off, sx, sy) /\ ~Breaks(m.bytes)
               /\ \A p \in Pixels(sx, sy) \intersect Pixels(show_x, show_y) :
                      Written(build, m.bytes)[Address(m.off, p[1], p[2])] = build[Address(img3_off, p[1], p[2])]
<1>1. CASE Fits(img3_off, sx, sy)
    <2>1. set_view_window(sx, sy) = [off |-> img3_off, bytes |-> <<>>]
        BY <1>1 DEF set_view_window
    <2>2. \A p \in Pixels(sx, sy) : Address(img3_off, p[1], p[2]) \in Addresses
        BY <1>1, FitsMeans
    <2> QED
        BY <1>1, <2>1, <2>2 DEF Breaks, Written
<1>2. CASE ~Fits(img3_off, sx, sy) /\ Apart(sx, sy)
    <2>1. set_view_window(sx, sy) = [off |-> Recentred(sx, sy), bytes |-> <<>>]
        BY <1>2 DEF set_view_window
    <2>2. Pixels(sx, sy) \intersect Pixels(show_x, show_y) = {}
        <3> SUFFICES ASSUME NEW p \in Pixels(sx, sy) \intersect Pixels(show_x, show_y) PROVE FALSE
            OBVIOUS
        <3> DEFINE x == p[1]
                   y == p[2]
        <3>1. x \in sx .. sx + SCROLL_X_DIM - 1 /\ y \in sy .. sy + SCROLL_Y_DIM - 1
            BY PixelIs
        <3>2. x \in show_x .. show_x + SCROLL_X_DIM - 1 /\ y \in show_y .. show_y + SCROLL_Y_DIM - 1
            BY PixelIs
        <3>3. SCROLL_X_DIM \in Nat \ {0} /\ SCROLL_Y_DIM \in Nat \ {0}
            BY ViewAssumption
        <3> HIDE DEF x, y
        <3> QED
            BY <3>1, <3>2, <3>3, <1>2 DEF Apart
    <2> QED
        BY <2>1, <2>2, RecentredFits DEF Breaks
<1>3. CASE ~Fits(img3_off, sx, sy) /\ ~Apart(sx, sy)
    <2>1. set_view_window(sx, sy) = [off |-> Recentred(sx, sy), bytes |-> Moved(sx, sy)]
        BY <1>3 DEF set_view_window
    <2>2. /\ DOMAIN Moved(sx, sy) \subseteq Addresses
          /\ \A p \in Pixels(sx, sy) \intersect Pixels(show_x, show_y) :
                 /\ Address(Recentred(sx, sy), p[1], p[2]) \in DOMAIN Moved(sx, sy)
                 /\ Moved(sx, sy)[Address(Recentred(sx, sy), p[1], p[2])] = build[Address(img3_off, p[1], p[2])]
        BY <1>3, MovedIs
    <2>3. Recentred(sx, sy) \in Int /\ Fits(Recentred(sx, sy), sx, sy)
        BY RecentredFits
    <2> QED
        BY <2>1, <2>2, <2>3 DEF Breaks, Written
<1> QED
    BY <1>1, <1>2, <1>3

\* The buffer holds these values at these pixels.
Holds(buffer, off, P, value) == \A p \in P : buffer[Address(off, p[1], p[2])] = value[p]

\* The buffer after the view has moved and bytes were written in it.
Redrawn(sx, sy, bytes) ==
    LET m == set_view_window(sx, sy)
    IN  Forgotten(Written(Written(build, m.bytes), bytes), m.off, sx, sy)

(* What a move of the view and drawing in it leave: the pixels drawn, and  *)
(* of the others those that were in view.                                  *)
LEMMA DrawnThere ==
    ASSUME show_x \in Int, show_y \in Int, img3_off \in Int,
           NEW sx \in Int, NEW sy \in Int, NEW P, P \subseteq Pixels(sx, sy), NEW value, NEW bytes,
           Paints(bytes, set_view_window(sx, sy).off, P, value)
    PROVE  LET m == set_view_window(sx, sy)
               new == Redrawn(sx, sy, bytes)
           IN  /\ m.off \in Int /\ Fits(m.off, sx, sy) /\ ~Breaks(m.bytes) /\ ~Breaks(bytes)
               /\ Holds(new, m.off, P, value)
               /\ Holds(new, m.off, (Pixels(sx, sy) \intersect Pixels(show_x, show_y)) \ P, pic)
<1> DEFINE m == set_view_window(sx, sy)
           moved == Written(build, m.bytes)
           new == Forgotten(Written(moved, bytes), m.off, sx, sy)
<1>1. /\ m.off \in Int /\ Fits(m.off, sx, sy) /\ ~Breaks(m.bytes)
      /\ \A p \in Pixels(sx, sy) \intersect Pixels(show_x, show_y) :
             moved[Address(m.off, p[1], p[2])] = build[Address(img3_off, p[1], p[2])]
    BY WindowIs
<1> HIDE DEF moved
<1>2. /\ ~Breaks(bytes)
      /\ \A q \in Pixels(sx, sy) :
             Written(moved, bytes)[Address(m.off, q[1], q[2])] =
                 IF q \in P THEN value[q] ELSE moved[Address(m.off, q[1], q[2])]
    BY <1>1, WrittenIs
<1>3. \A q \in Pixels(sx, sy) : new[Address(m.off, q[1], q[2])] = Written(moved, bytes)[Address(m.off, q[1], q[2])]
    <2> DEFINE used == {Address(m.off, p[1], p[2]) : p \in Pixels(sx, sy)}
    <2>1. new = [a \in Addresses |-> IF a \in used THEN Written(moved, bytes)[a] ELSE Junk]
        BY DEF Forgotten
    <2>2. \A q \in Pixels(sx, sy) : Address(m.off, q[1], q[2]) \in Addresses
        BY <1>1, FitsMeans
    <2> HIDE DEF m, new
    <2> QED
        BY <2>1, <2>2
<1> HIDE DEF m, new
<1>4. \A p \in P : p \in Pixels(sx, sy)
    OBVIOUS
<1>5. \A p \in P : new[Address(m.off, p[1], p[2])] = value[p]
    BY <1>2, <1>3, <1>4
<1>6. ASSUME NEW p \in Pixels(sx, sy) \intersect Pixels(show_x, show_y), p \notin P
      PROVE  new[Address(m.off, p[1], p[2])] = build[Address(img3_off, p[1], p[2])]
    BY <1>1, <1>2, <1>3, <1>6
<1>7. Holds(new, m.off, P, value)
    BY <1>5 DEF Holds
<1>8. Holds(new, m.off, (Pixels(sx, sy) \intersect Pixels(show_x, show_y)) \ P, pic)
    BY <1>6 DEF Holds, pic
<1> QED
    BY <1>1, <1>2, <1>7, <1>8 DEF m, new, moved, Redrawn

-----------------------------------------------------------------------------
(***************************************************************************)
(* The view through a walk.                                                *)
(***************************************************************************)

\* The player's block is in view.
PlayerInView ==
    /\ play_x \in Int /\ play_y \in Int
    /\ show_x <= play_x /\ play_x + BLOCK_X_DIM <= show_x + SCROLL_X_DIM
    /\ show_y <= play_y /\ play_y + BLOCK_Y_DIM <= show_y + SCROLL_Y_DIM

\* The view and its buffer: where they are, and no byte beside them written.
ViewPlaced ==
    /\ show_x \in Int /\ show_y \in Int /\ img3_off \in Int
    /\ Fits(img3_off, show_x, show_y)
    /\ fence = TRUE

\* The pixels in view that the player's block covers.
PlayerCells == {p \in Pixels(show_x, show_y) : <<p[1] - play_x, p[2] - play_y>> \in Cells}

\* What the buffer holds for a pixel of the maze.
ByteAt(p) == build[Address(img3_off, p[1], p[2])]

\* What the map has at a pixel.
MapAt(p) == <<p[1], p[2], Shows(seen, p[1], p[2])>>

\* When no tick was missed: the map before the player is drawn, and beside it after that.
PictureKept ==
    /\ clean /\ ticks = 0 => \A p \in Pixels(show_x, show_y) : ByteAt(p) = MapAt(p)
    /\ clean /\ pc \in {"drawn", "showing", "shown"} =>
           /\ \A p \in Pixels(show_x, show_y) : p \notin PlayerCells => ByteAt(p) = MapAt(p)
           /\ \A p \in PlayerCells : ground[<<p[1] - play_x, p[2] - play_y>>] = MapAt(p)

\* How far a frame is, and whether ticks were counted for it.
FrameOrder ==
    /\ pc \in {"begun", "idle", "moved", "drawn", "showing", "shown"}
    /\ ticks \in Nat /\ clean \in BOOLEAN
    /\ pc \in {"begun", "idle"} => ticks = 0
    /\ pc \in {"drawn", "showing", "shown"} => ticks > 0

\* The inductive invariant of the view.
ViewInv == ViewPlaced /\ PlayerInView /\ FrameOrder /\ PictureKept

\* Multiples of the block are apart by multiples of it.
LEMMA MultipleIs ==
    ASSUME NEW block \in Nat \ {0}, NEW x \in Int, NEW d \in Int, x % block = 0
    PROVE  x + d * block \in Int /\ (x + d * block) % block = 0
<1> DEFINE y == x + d * block
           q == y \div block
           r == y % block
           k == x \div block
           e == k + d - q
<1>1. y \in Int
    OBVIOUS
<1> HIDE DEF y
<1>2. /\ q \in Int /\ r \in 0 .. block - 1 /\ y = block * q + r
      /\ k \in Int /\ x = block * k
    BY <1>1, SMT
<1>3. y = block * k + block * d
    BY <1>2 DEF y
<1> HIDE DEF q, r, k
<1>4. e \in Int /\ block * e = block * k + block * d - block * q
    BY <1>2, SMT
<1>5. block * e = r
    BY <1>2, <1>3, <1>4
<1> HIDE DEF e
<1>6. CASE e >= 1
    <2>1. block * e >= block
        BY <1>4, <1>6, SMT
    <2> QED
        BY <2>1, <1>2, <1>5
<1>7. CASE e <= -1
    <2>1. block * e <= -block
        BY <1>4, <1>7, SMT
    <2> QED
        BY <2>1, <1>2, <1>5
<1>8. CASE e = 0
    BY <1>1, <1>5, <1>8 DEF y, r
<1> QED
    BY <1>4, <1>6, <1>7, <1>8

\* A multiple of the block is the corner of the pixels that are divided to it.
LEMMA CornerIs ==
    ASSUME NEW block \in Nat \ {0}, NEW corner \in Int, corner % block = 0, NEW x \in Int
    PROVE  (x \div block) * block = corner <=> x - corner \in 0 .. block - 1
<1> DEFINE q == x \div block
           r == x % block
           k == corner \div block
<1>1. /\ q \in Int /\ r \in 0 .. block - 1 /\ x = block * q + r
      /\ k \in Int /\ corner = block * k
    BY SMT
<1> HIDE DEF q, r, k
<1>2. q * block = block * q /\ block * q \in Int /\ block * k \in Int
    BY <1>1
<1>3. q * block = corner => x - corner \in 0 .. block - 1
    BY <1>1, <1>2
<1>4. ASSUME x - corner \in 0 .. block - 1 PROVE q * block = corner
    <2> DEFINE d == q - k
    <2>1. d \in Int /\ block * q = block * k + block * d /\ block * d \in Int
        BY <1>1, SMT
    <2>2. block * d + r \in 0 .. block - 1
        BY <2>1, <1>1, <1>2, <1>4
    <2> HIDE DEF d
    <2>3. CASE d >= 1
        <3>1. block * d >= block
            BY <2>1, <2>3, SMT
        <3> QED
            BY <3>1, <2>1, <2>2, <1>1
    <2>4. CASE d <= -1
        <3>1. block * d <= -block
            BY <2>1, <2>4, SMT
        <3> QED
            BY <3>1, <2>1, <2>2, <1>1
    <2>5. CASE d = 0
        <3>1. block * d = 0
            BY <2>5
        <3> QED
            BY <3>1, <2>1, <1>1, <1>2
    <2> QED
        BY <2>1, <2>3, <2>4, <2>5
<1> QED
    BY <1>3, <1>4 DEF q

(* A block that comes out of the mist changes the map within it only.      *)
LEMMA UnveiledIs ==
    ASSUME NEW bx \in Int, NEW by \in Int, bx % BLOCK_X_DIM = 0, by % BLOCK_Y_DIM = 0,
           NEW blocks, NEW x \in Int, NEW y \in Int
    PROVE  Shows(blocks \union {<<bx, by>>}, x, y) =
               IF <<x - bx, y - by>> \in Cells THEN "seen" ELSE Shows(blocks, x, y)
<1>1. /\ (x \div BLOCK_X_DIM) * BLOCK_X_DIM = bx <=> x - bx \in 0 .. BLOCK_X_DIM - 1
      /\ (y \div BLOCK_Y_DIM) * BLOCK_Y_DIM = by <=> y - by \in 0 .. BLOCK_Y_DIM - 1
    BY CornerIs, ViewAssumption
<1>2. <<x - bx, y - by>> \in Cells <=> x - bx \in 0 .. BLOCK_X_DIM - 1 /\ y - by \in 0 .. BLOCK_Y_DIM - 1
    BY DEF Cells
<1> DEFINE a == (x \div BLOCK_X_DIM) * BLOCK_X_DIM
           b == (y \div BLOCK_Y_DIM) * BLOCK_Y_DIM
<1>3. Shows(blocks, x, y) = IF <<a, b>> \in blocks THEN "seen" ELSE "mist"
    BY DEF Shows
<1>4. Shows(blocks \union {<<bx, by>>}, x, y) =
          IF <<a, b>> \in blocks \union {<<bx, by>>} THEN "seen" ELSE "mist"
    BY DEF Shows
<1>5. <<a, b>> = <<bx, by>> <=> <<x - bx, y - by>> \in Cells
    BY <1>1, <1>2
<1> HIDE DEF a, b
<1> QED
    BY <1>3, <1>4, <1>5

\* A part of a view, whatever is drawn in it.
LEMMA InBlockIn ==
    ASSUME NEW through, NEW px, NEW py
    PROVE  InBlock(through, px, py) \subseteq Pixels(show_x, show_y)
BY DEF InBlock

(* Every level begins with the maze in view, with the player in its corner.*)
LEMMA ViewInit == Init => ViewInv
<1> SUFFICES ASSUME Init PROVE ViewInv
    OBVIOUS
<1>1. show_x = SHOW_MIN /\ show_y = SHOW_MIN /\ show_x \in Int /\ show_y \in Int
    BY ViewAssumption DEF Init
<1>2. img3_off \in Int /\ Fits(img3_off, show_x, show_y)
    <2>1. Recentred(SHOW_MIN, SHOW_MIN) \in Int /\ Fits(Recentred(SHOW_MIN, SHOW_MIN), SHOW_MIN, SHOW_MIN)
        BY <1>1, RecentredFits
    <2>2. BUILD_BASE_INIT \in Int
        BY Sizes
    <2> QED
        BY <1>1, <2>1, <2>2 DEF Init
<1>3. ViewPlaced
    BY <1>1, <1>2 DEF ViewPlaced, Init
<1>4. PlayerInView
    BY <1>1, ViewAssumption DEF PlayerInView, Init, Corner
<1>5. FrameOrder
    BY DEF FrameOrder, Init
<1>6. ASSUME NEW p \in Pixels(show_x, show_y) PROVE ByteAt(p) = MapAt(p)
    <2> DEFINE P == Pixels(show_x, show_y)
               bytes == AllLines(img3_off, show_x, show_y, seen)
               empty == [a \in Addresses |-> Junk]
    <2>1. Paints(bytes, img3_off, P, MapOf(P, seen))
        BY <1>1, <1>2, AllPaints
    <2>2. build = Written(empty, bytes)
        BY <1>1 DEF Init
    <2> HIDE DEF bytes, empty
    <2>3. ByteAt(p) = MapOf(P, seen)[p]
        <3>1. P \subseteq Pixels(show_x, show_y)
            OBVIOUS
        <3> DEFINE value == MapOf(P, seen)
        <3> HIDE DEF value, P
        <3>2. \A q \in Pixels(show_x, show_y) :
                  Written(empty, bytes)[Address(img3_off, q[1], q[2])] =
                      IF q \in P THEN value[q] ELSE empty[Address(img3_off, q[1], q[2])]
            BY <1>1, <1>2, <2>1, <3>1, WrittenIs DEF value
        <3> QED
            BY <2>2, <3>2 DEF value, ByteAt, P
    <2> QED
        BY <2>3 DEF MapOf, MapAt
<1>7. PictureKept
    BY <1>6 DEF PictureKept, Init
<1> QED
    BY <1>3, <1>4, <1>5, <1>7 DEF ViewInv

\* A level begins: the whole view is drawn, row by row, from the map.
LEMMA NewLevelKeeps == ViewInv /\ NewLevel => ViewInv'
<1> SUFFICES ASSUME ViewInv, NewLevel PROVE ViewInv'
    OBVIOUS
<1> DEFINE P == Pixels(SHOW_MIN, SHOW_MIN)
           m == set_view_window(SHOW_MIN, SHOW_MIN)
           lines == AllLines(m.off, SHOW_MIN, SHOW_MIN, {})
           new == Redrawn(SHOW_MIN, SHOW_MIN, lines)
<1>1. show_x \in Int /\ show_y \in Int /\ img3_off \in Int /\ SHOW_MIN \in Int /\ fence = TRUE
    BY ViewAssumption DEF ViewInv, ViewPlaced
<1>2. /\ show_x' = SHOW_MIN /\ show_y' = SHOW_MIN /\ img3_off' = m.off /\ build' = new
      /\ fence' = (fence /\ ~Breaks(m.bytes) /\ ~Breaks(lines))
    BY DEF NewLevel, Redrawn
<1>3. m.off \in Int /\ Paints(lines, m.off, P, MapOf(P, {}))
    BY <1>1, WindowIs, AllPaints
<1> HIDE DEF lines
<1>4. /\ Fits(m.off, SHOW_MIN, SHOW_MIN) /\ ~Breaks(m.bytes) /\ ~Breaks(lines)
      /\ \A p \in P : new[Address(m.off, p[1], p[2])] = MapOf(P, {})[p]
    <2>1. P \subseteq Pixels(SHOW_MIN, SHOW_MIN)
        OBVIOUS
    <2> DEFINE value == MapOf(P, {})
    <2>2. Paints(lines, m.off, P, value)
        BY <1>3
    <2> HIDE DEF value, P
    <2>3. /\ Fits(m.off, SHOW_MIN, SHOW_MIN) /\ ~Breaks(m.bytes) /\ ~Breaks(lines)
          /\ Holds(new, m.off, P, value)
        BY <1>1, <2>1, <2>2, DrawnThere
    <2> HIDE DEF new, m
    <2> QED
        BY <2>3 DEF value, Holds
<1>5. ViewPlaced'
    <2>1. Fits(img3_off', show_x', show_y') = Fits(img3_off, show_x, show_y)'
        BY DEF Fits, SCROLL_X_WIDTH, SCROLL_SIZE, BUILD_BUF_SIZE, SCREEN_SIZE
    <2> QED
        BY <1>1, <1>2, <1>3, <1>4, <2>1 DEF ViewPlaced
<1>6. PlayerInView'
    BY <1>2, ViewAssumption DEF PlayerInView, NewLevel, Corner
<1>7. FrameOrder' /\ pc' = "begun"
    BY DEF FrameOrder, NewLevel, ViewInv
<1>8. ASSUME NEW p \in Pixels(show_x', show_y') PROVE ByteAt(p)' = MapAt(p)'
    <2>1. p \in P
        BY <1>2
    <2>2. ByteAt(p)' = new[Address(m.off, p[1], p[2])]
        BY <1>2 DEF ByteAt
    <2>3. seen' = {}
        BY DEF NewLevel
    <2> QED
        BY <2>1, <2>2, <2>3, <1>4 DEF MapOf, MapAt
<1>9. PictureKept'
    BY <1>7, <1>8 DEF PictureKept
<1> QED
    BY <1>5, <1>6, <1>7, <1>9 DEF ViewInv

\* Drawing in a view that stays where it is.
LEMMA DrawnHere ==
    ASSUME ViewPlaced, UNCHANGED windowVars, NEW P, P \subseteq Pixels(show_x, show_y),
           NEW value, NEW bytes, Paints(bytes, img3_off, P, value), DrawBytes(bytes)
    PROVE  /\ ViewPlaced'
           /\ \A p \in Pixels(show_x, show_y) : ByteAt(p)' = IF p \in P THEN value[p] ELSE ByteAt(p)
<1>1. /\ show_x \in Int /\ show_y \in Int /\ img3_off \in Int /\ Fits(img3_off, show_x, show_y) /\ fence = TRUE
      /\ show_x' = show_x /\ show_y' = show_y /\ img3_off' = img3_off
      /\ build' = Written(build, bytes) /\ fence' = (fence /\ ~Breaks(bytes))
    BY DEF ViewPlaced, windowVars, DrawBytes
<1>2. /\ ~Breaks(bytes)
      /\ \A q \in Pixels(show_x, show_y) :
             Written(build, bytes)[Address(img3_off, q[1], q[2])] =
                 IF q \in P THEN value[q] ELSE build[Address(img3_off, q[1], q[2])]
    BY <1>1, WrittenIs
<1>3. ViewPlaced'
    BY <1>1, <1>2 DEF ViewPlaced
<1>4. ASSUME NEW p \in Pixels(show_x, show_y)
      PROVE  ByteAt(p)' = IF p \in P THEN value[p] ELSE ByteAt(p)
    BY <1>1, <1>2 DEF ByteAt
<1> QED
    BY <1>3, <1>4

\* What stays where it is when nothing is drawn.
LEMMA ViewStays ==
    ASSUME ViewPlaced, UNCHANGED <<windowVars, build, fence>>
    PROVE  ViewPlaced' /\ \A p : ByteAt(p)' = ByteAt(p)
<1>1. /\ show_x' = show_x /\ show_y' = show_y /\ img3_off' = img3_off /\ build' = build /\ fence' = fence
    BY DEF windowVars
<1> QED
    BY <1>1 DEF ViewPlaced, ByteAt

\* A pixel of the view is two numbers.
LEMMA PixelNumbers ==
    ASSUME ViewPlaced, NEW p \in Pixels(show_x, show_y)
    PROVE  p = <<p[1], p[2]>> /\ p[1] \in Int /\ p[2] \in Int
<1>1. show_x \in Int /\ show_y \in Int /\ img3_off \in Int
    BY DEF ViewPlaced
<1>2. p = <<p[1], p[2]>> /\ p[1] \in show_x .. show_x + SCROLL_X_DIM - 1
      /\ p[2] \in show_y .. show_y + SCROLL_Y_DIM - 1
    BY <1>1, PixelIs
<1>3. \A a \in Int, b \in Int : \A i \in a .. b : i \in Int
    OBVIOUS
<1> QED
    BY <1>1, <1>2, <1>3, ViewAssumption

\* What a block's picture has for a pixel in it is the pixel.
LEMMA ImageIs ==
    ASSUME ViewPlaced, NEW px \in Int, NEW py \in Int, NEW thing, NEW p \in InBlock(Cells, px, py)
    PROVE  Image(px, py, thing)[<<p[1] - px, p[2] - py>>] = <<p[1], p[2], thing>>
<1>1. p \in Pixels(show_x, show_y) /\ <<p[1] - px, p[2] - py>> \in Cells
    BY DEF InBlock
<1>2. px + (p[1] - px) = p[1] /\ py + (p[2] - py) = p[2]
    BY <1>1, PixelNumbers
<1>3. Image(px, py, thing)[<<p[1] - px, p[2] - py>>] = <<px + (p[1] - px), py + (p[2] - py), thing>>
    BY <1>1 DEF Image
<1> QED
    BY <1>2, <1>3

\* A square is unveiled: its block is drawn, and nothing beside it.
LEMMA UnveilIs ==
    ASSUME ViewPlaced, PlayerInView, Unveil
    PROVE  /\ ViewPlaced'
           /\ \E bx \in Int, by \in Int :
                  /\ bx % BLOCK_X_DIM = 0 /\ by % BLOCK_Y_DIM = 0
                  /\ seen' = seen \union {<<bx, by>>}
                  /\ \A p \in Pixels(show_x, show_y) :
                         ByteAt(p)' = IF p \in InBlock(Cells, bx, by) THEN <<p[1], p[2], "seen">> ELSE ByteAt(p)
<1>1. PICK d \in Around :
          LET bx == play_x + d[1] * BLOCK_X_DIM
              by == play_y + d[2] * BLOCK_Y_DIM
          IN  /\ seen' = seen \union {<<bx, by>>}
              /\ DrawBytes(DrawnWhere(Cells, bx, by, Image(bx, by, "seen")))
    BY DEF Unveil
<1> DEFINE bx == play_x + d[1] * BLOCK_X_DIM
           by == play_y + d[2] * BLOCK_Y_DIM
           blk == Image(bx, by, "seen")
           bytes == DrawnWhere(Cells, bx, by, blk)
           P == InBlock(Cells, bx, by)
           value == BlockValue(Cells, bx, by, blk)
<1>2. UNCHANGED windowVars
    BY DEF Unveil
<1>3. /\ bx \in Int /\ by \in Int /\ bx % BLOCK_X_DIM = 0 /\ by % BLOCK_Y_DIM = 0
    <2>1. d[1] \in {-2, -1, 0, 1, 2} /\ d[2] \in {-2, -1, 0, 1, 2}
        BY DEF Around
    <2>2. play_x \in Int /\ play_y \in Int /\ play_x % BLOCK_X_DIM = 0 /\ play_y % BLOCK_Y_DIM = 0
        BY DEF PlayerInView, Unveil, NewSquare
    <2>3. d[1] \in Int /\ d[2] \in Int
        BY <2>1
    <2> QED
        BY <2>2, <2>3, ViewAssumption, MultipleIs
<1>4. /\ show_x \in Int /\ show_y \in Int /\ img3_off \in Int
    BY DEF ViewPlaced
<1>5. seen' = seen \union {<<bx, by>>} /\ DrawBytes(bytes)
    BY <1>1
<1> HIDE DEF bx, by
<1>6. Paints(bytes, img3_off, P, value) /\ P \subseteq Pixels(show_x, show_y)
    BY <1>3, <1>4, BlockPaints, InBlockIn
<1>7. \A p \in P : value[p] = <<p[1], p[2], "seen">>
    BY <1>3, ImageIs DEF BlockValue
<1>8. /\ ViewPlaced'
      /\ \A p \in Pixels(show_x, show_y) : ByteAt(p)' = IF p \in P THEN value[p] ELSE ByteAt(p)
    <2> HIDE DEF P, value, bytes
    <2> QED
        BY <1>2, <1>5, <1>6, DrawnHere
<1>9. \A p \in Pixels(show_x, show_y) : ByteAt(p)' = IF p \in P THEN <<p[1], p[2], "seen">> ELSE ByteAt(p)
    <2> HIDE DEF P, value
    <2> QED
        BY <1>7, <1>8
<1> QED
    BY <1>3, <1>5, <1>8, <1>9

\* A square is unveiled: its block, and no other pixel, changes with the map.
LEMMA UnveilKeeps == ViewInv /\ Unveil => ViewInv'
<1> SUFFICES ASSUME ViewInv, Unveil PROVE ViewInv'
    OBVIOUS
<1>1. ViewPlaced /\ PlayerInView /\ FrameOrder /\ PictureKept
    BY DEF ViewInv
<1>2. ViewPlaced'
    BY <1>1, UnveilIs
<1>3. PICK bx \in Int, by \in Int :
          /\ bx % BLOCK_X_DIM = 0 /\ by % BLOCK_Y_DIM = 0
          /\ seen' = seen \union {<<bx, by>>}
          /\ \A p \in Pixels(show_x, show_y) :
                 ByteAt(p)' = IF p \in InBlock(Cells, bx, by) THEN <<p[1], p[2], "seen">> ELSE ByteAt(p)
    BY <1>1, UnveilIs
<1>4. ASSUME NEW p \in Pixels(show_x, show_y), ByteAt(p) = MapAt(p)
      PROVE  ByteAt(p)' = MapAt(p)'
    <2>1. p[1] \in Int /\ p[2] \in Int
        BY <1>1, PixelNumbers
    <2>2. Shows(seen', p[1], p[2]) =
              IF <<p[1] - bx, p[2] - by>> \in Cells THEN "seen" ELSE Shows(seen, p[1], p[2])
        BY <1>3, <2>1, UnveiledIs
    <2>3. MapAt(p)' = <<p[1], p[2], Shows(seen', p[1], p[2])>>
        BY DEF MapAt, Shows
    <2>4. p \in InBlock(Cells, bx, by) <=> <<p[1] - bx, p[2] - by>> \in Cells
        BY DEF InBlock
    <2> QED
        BY <1>3, <1>4, <2>2, <2>3, <2>4 DEF MapAt
<1>5. /\ show_x' = show_x /\ show_y' = show_y
      /\ play_x' = play_x /\ play_y' = play_y /\ pc' = pc /\ ticks' = ticks
      /\ clean' = (clean /\ pc # "drawn") /\ pc \in {"begun", "idle", "drawn"}
    BY DEF Unveil, BetweenTicks, windowVars
<1>6. PlayerInView' /\ FrameOrder'
    BY <1>1, <1>5 DEF PlayerInView, FrameOrder
<1>7. PictureKept'
    <2>1. ASSUME clean', ticks' = 0, NEW p \in Pixels(show_x', show_y')
          PROVE  ByteAt(p)' = MapAt(p)'
        BY <1>1, <1>4, <1>5, <2>1 DEF PictureKept
    <2>2. ~(clean' /\ pc' \in {"drawn", "showing", "shown"})
        BY <1>5
    <2>3. Pixels(show_x, show_y)' = Pixels(show_x', show_y')
        BY DEF Pixels
    <2> QED
        BY <2>1, <2>2, <2>3 DEF PictureKept
<1> QED
    BY <1>2, <1>6, <1>7 DEF ViewInv

(* The player is drawn over the pixels that its picture covers, and what   *)
(* was under its block is kept as the ground.                              *)
LEMMA DrawPlayerIs ==
    ASSUME ViewPlaced, PlayerInView, DrawPlayer
    PROVE  /\ ViewPlaced'
           /\ \A p \in Pixels(show_x, show_y) :
                  ByteAt(p)' = IF p \in InBlock(Cells, play_x, play_y) \ InBlock(NotMasked, play_x, play_y)
                               THEN <<p[1], p[2], "player">> ELSE ByteAt(p)
           /\ \A p \in PlayerCells : ground'[<<p[1] - play_x, p[2] - play_y>>] = ByteAt(p)
<1> DEFINE blk == Image(play_x, play_y, "player")
           player == DrawnWhere(Cells, play_x, play_y, blk)
           through == DrawnWhere(NotMasked, play_x, play_y, ground')
           P == InBlock(Cells, play_x, play_y)
           Q == InBlock(NotMasked, play_x, play_y)
           once == Written(build, player)
           value == BlockValue(Cells, play_x, play_y, blk)
           ground_value == BlockValue(NotMasked, play_x, play_y, ground')
<1>1. /\ show_x' = show_x /\ show_y' = show_y /\ img3_off' = img3_off
      /\ ground' = BlockBytes(play_x, play_y)
      /\ build' = Written(once, through) /\ fence' = (fence /\ ~Breaks(player) /\ ~Breaks(through))
    BY DEF DrawPlayer, windowVars
<1>2. /\ show_x \in Int /\ show_y \in Int /\ img3_off \in Int /\ Fits(img3_off, show_x, show_y) /\ fence = TRUE
      /\ play_x \in Int /\ play_y \in Int
    BY DEF ViewPlaced, PlayerInView
<1>3. /\ Paints(player, img3_off, P, value) /\ Paints(through, img3_off, Q, ground_value)
      /\ P \subseteq Pixels(show_x, show_y) /\ Q \subseteq Pixels(show_x, show_y)
    <2>1. Cells \subseteq Cells /\ NotMasked \subseteq Cells
        BY DEF NotMasked
    <2> QED
        BY <2>1, <1>2, BlockPaints, InBlockIn
<1>4. Q \subseteq P /\ P = PlayerCells
    BY DEF InBlock, NotMasked, PlayerCells
<1>5. \A p \in P : value[p] = <<p[1], p[2], "player">>
    BY <1>2, ImageIs DEF BlockValue
<1>6. ASSUME NEW p \in PlayerCells PROVE ground'[<<p[1] - play_x, p[2] - play_y>>] = ByteAt(p)
    <2> DEFINE c == <<p[1] - play_x, p[2] - play_y>>
    <2>1. p \in Pixels(show_x, show_y) /\ c \in Cells
        BY DEF PlayerCells
    <2>2. play_x + c[1] = p[1] /\ play_y + c[2] = p[2]
        BY <1>2, <2>1, PixelNumbers
    <2>3. ground'[c] = build[Address(img3_off, play_x + c[1], play_y + c[2])]
        BY <1>1, <2>1 DEF BlockBytes
    <2> HIDE DEF c
    <2>4. ground'[c] = ByteAt(p)
        BY <2>2, <2>3 DEF ByteAt
    <2> QED
        BY <2>4 DEF c
<1>7. \A p \in Q : ground_value[p] = ByteAt(p)
    BY <1>4, <1>6 DEF BlockValue
<1> HIDE DEF P, Q, value, ground_value, player, through, once
<1>8. /\ ~Breaks(player)
      /\ \A q \in Pixels(show_x, show_y) :
             once[Address(img3_off, q[1], q[2])] =
                 IF q \in P THEN value[q] ELSE build[Address(img3_off, q[1], q[2])]
    BY <1>2, <1>3, WrittenIs DEF once
<1>9. /\ ~Breaks(through)
      /\ \A q \in Pixels(show_x, show_y) :
             Written(once, through)[Address(img3_off, q[1], q[2])] =
                 IF q \in Q THEN ground_value[q] ELSE once[Address(img3_off, q[1], q[2])]
    BY <1>2, <1>3, WrittenIs
<1>10. ViewPlaced'
    BY <1>1, <1>2, <1>8, <1>9 DEF ViewPlaced
<1>11. ASSUME NEW p \in Pixels(show_x, show_y)
       PROVE  ByteAt(p)' = IF p \in P \ Q THEN <<p[1], p[2], "player">> ELSE ByteAt(p)
    BY <1>1, <1>4, <1>5, <1>7, <1>8, <1>9 DEF ByteAt
<1> QED
    BY <1>6, <1>10, <1>11 DEF P, Q

\* The player is drawn: beside it the map stays, and under it is the ground.
LEMMA DrawPlayerKeeps == ViewInv /\ DrawPlayer => ViewInv'
<1> SUFFICES ASSUME ViewInv, DrawPlayer PROVE ViewInv'
    OBVIOUS
<1>1. ViewPlaced /\ PlayerInView /\ FrameOrder /\ PictureKept
    BY DEF ViewInv
<1>2. /\ show_x' = show_x /\ show_y' = show_y /\ img3_off' = img3_off /\ seen' = seen
      /\ play_x' = play_x /\ play_y' = play_y /\ pc' = "drawn" /\ ticks' = ticks + 1
      /\ clean' = (clean /\ ticks = 0)
    BY DEF DrawPlayer, windowVars
<1>3. /\ ViewPlaced'
      /\ \A p \in Pixels(show_x, show_y) : p \notin PlayerCells => ByteAt(p)' = ByteAt(p)
      /\ \A p \in PlayerCells : ground'[<<p[1] - play_x, p[2] - play_y>>] = ByteAt(p)
    <2>1. InBlock(Cells, play_x, play_y) = PlayerCells
        BY DEF InBlock, PlayerCells
    <2> QED
        BY <1>1, <2>1, DrawPlayerIs
<1>4. PlayerInView' /\ FrameOrder'
    BY <1>1, <1>2 DEF PlayerInView, FrameOrder
<1>5. PlayerCells' = PlayerCells /\ Pixels(show_x, show_y)' = Pixels(show_x, show_y)
    BY <1>2 DEF PlayerCells, Pixels, Cells
<1>6. ASSUME clean'
      PROVE  /\ \A p \in Pixels(show_x, show_y) : p \notin PlayerCells => ByteAt(p)' = MapAt(p)'
             /\ \A p \in PlayerCells : ground'[<<p[1] - play_x, p[2] - play_y>>] = MapAt(p)'
    <2>1. \A p \in Pixels(show_x, show_y) : ByteAt(p) = MapAt(p)
        BY <1>1, <1>2, <1>6 DEF PictureKept
    <2>2. \A p : MapAt(p)' = MapAt(p)
        BY <1>2 DEF MapAt, Shows
    <2>3. PlayerCells \subseteq Pixels(show_x, show_y)
        BY DEF PlayerCells
    <2> QED
        BY <1>3, <2>1, <2>2, <2>3
<1>7. PictureKept'
    <2>1. ~(ticks' = 0)
        BY <1>1, <1>2 DEF FrameOrder
    <2> QED
        BY <2>1, <1>2, <1>5, <1>6 DEF PictureKept
<1> QED
    BY <1>3, <1>4, <1>7 DEF ViewInv

\* The ground is drawn where the player was, and nothing beside it.
LEMMA RestoreIs ==
    ASSUME ViewPlaced, PlayerInView, Restore
    PROVE  /\ ViewPlaced'
           /\ \A p \in Pixels(show_x, show_y) :
                  ByteAt(p)' = IF p \in PlayerCells THEN ground[<<p[1] - play_x, p[2] - play_y>>] ELSE ByteAt(p)
<1> DEFINE bytes == DrawnWhere(Cells, play_x, play_y, ground)
           P == InBlock(Cells, play_x, play_y)
           value == BlockValue(Cells, play_x, play_y, ground)
<1>1. UNCHANGED windowVars /\ DrawBytes(bytes)
    BY DEF Restore
<1>2. /\ show_x \in Int /\ show_y \in Int /\ img3_off \in Int /\ play_x \in Int /\ play_y \in Int
    BY DEF ViewPlaced, PlayerInView
<1>3. Paints(bytes, img3_off, P, value) /\ P \subseteq Pixels(show_x, show_y)
    BY <1>2, BlockPaints, InBlockIn
<1>4. P = PlayerCells /\ \A p \in P : value[p] = ground[<<p[1] - play_x, p[2] - play_y>>]
    BY DEF InBlock, PlayerCells, BlockValue
<1> HIDE DEF P, value, bytes
<1>5. /\ ViewPlaced'
      /\ \A p \in Pixels(show_x, show_y) : ByteAt(p)' = IF p \in P THEN value[p] ELSE ByteAt(p)
    BY <1>1, <1>3, DrawnHere
<1> QED
    BY <1>4, <1>5

\* The player is taken away: the ground is under it again.
LEMMA RestoreKeeps == ViewInv /\ Restore => ViewInv'
<1> SUFFICES ASSUME ViewInv, Restore PROVE ViewInv'
    OBVIOUS
<1>1. ViewPlaced /\ PlayerInView /\ FrameOrder /\ PictureKept
    BY DEF ViewInv
<1>2. /\ show_x' = show_x /\ show_y' = show_y /\ seen' = seen
      /\ play_x' = play_x /\ play_y' = play_y /\ pc = "shown" /\ pc' = "idle" /\ ticks' = 0
      /\ clean' = clean
    BY DEF Restore, windowVars, playVars
<1>3. /\ ViewPlaced'
      /\ \A p \in Pixels(show_x, show_y) :
             ByteAt(p)' = IF p \in PlayerCells THEN ground[<<p[1] - play_x, p[2] - play_y>>] ELSE ByteAt(p)
    BY <1>1, RestoreIs
<1>4. PlayerInView' /\ FrameOrder'
    BY <1>1, <1>2 DEF PlayerInView, FrameOrder
<1>5. \A p : MapAt(p)' = MapAt(p)
    BY <1>2 DEF MapAt, Shows
<1>6. Pixels(show_x, show_y)' = Pixels(show_x, show_y)
    BY <1>2 DEF Pixels
<1>7. PictureKept'
    <2>1. ASSUME clean, NEW p \in Pixels(show_x, show_y) PROVE ByteAt(p)' = MapAt(p)'
        BY <1>1, <1>2, <1>3, <1>5, <2>1 DEF PictureKept
    <2> QED
        BY <2>1, <1>2, <1>6 DEF PictureKept
<1> QED
    BY <1>3, <1>4, <1>7 DEF ViewInv

\* A page is filled and shown: the buffer is only read.
LEMMA ShowKeeps == ViewInv /\ (CopyPlane \/ Flip) => ViewInv'
<1> SUFFICES ASSUME ViewInv, CopyPlane \/ Flip PROVE ViewInv'
    OBVIOUS
<1>1. ViewPlaced /\ PlayerInView /\ FrameOrder /\ PictureKept
    BY DEF ViewInv
<1>2. /\ UNCHANGED <<windowVars, build, fence>> /\ show_x' = show_x /\ show_y' = show_y /\ seen' = seen
      /\ play_x' = play_x /\ play_y' = play_y /\ ticks' = ticks /\ ground' = ground /\ clean' = clean
      /\ pc \in {"drawn", "showing"} /\ pc' \in {"showing", "shown"}
    BY DEF CopyPlane, Flip, windowVars, playVars, drawVars
<1>3. ViewPlaced' /\ \A p : ByteAt(p)' = ByteAt(p)
    BY <1>1, <1>2, ViewStays
<1>4. PlayerInView' /\ FrameOrder'
    BY <1>1, <1>2 DEF PlayerInView, FrameOrder
<1>5. \A p : MapAt(p)' = MapAt(p)
    BY <1>2 DEF MapAt, Shows
<1>6. Pixels(show_x, show_y)' = Pixels(show_x, show_y) /\ PlayerCells' = PlayerCells
    BY <1>2 DEF Pixels, PlayerCells, Cells
<1>7. ticks' # 0
    BY <1>1, <1>2 DEF FrameOrder
<1>8. PictureKept'
    BY <1>1, <1>2, <1>3, <1>5, <1>6, <1>7 DEF PictureKept
<1> QED
    BY <1>3, <1>4, <1>8 DEF ViewInv

\* A caption is drawn above the player, in view, moved there if it has to be.
LEMMA CaptionIs ==
    ASSUME ViewPlaced, PlayerInView, Caption
    PROVE  /\ ViewPlaced'
           /\ \E left \in Int, top \in Int :
                  LET box == (left .. left + TEXT_LEN - 1) \X (top .. top + FONT_HEIGHT - 1)
                  IN  /\ <<left, top>> \in Pixels(show_x, show_y) /\ box \subseteq Pixels(show_x, show_y)
                      /\ \A p \in Pixels(show_x, show_y) :
                             ByteAt(p)' = IF p \in box THEN <<p[1], p[2], "black">> ELSE ByteAt(p)
<1> DEFINE left == MinOf(MaxOf(play_x - CAPTION_X_OFF, show_x), show_x + SCROLL_X_DIM - TEXT_LEN)
           top == MaxOf(play_y - CAPTION_Y_OFF, show_y)
           box == (left .. left + TEXT_LEN - 1) \X (top .. top + FONT_HEIGHT - 1)
           index == [a \in {Address(img3_off, p[1], p[2]) : p \in box} |->
                        CHOOSE p \in box : Address(img3_off, p[1], p[2]) = a]
           bytes == [a \in DOMAIN index |-> <<index[a][1], index[a][2], "black">>]
           value == [p \in box |-> <<p[1], p[2], "black">>]
<1>1. UNCHANGED windowVars /\ DrawBytes(bytes)
    BY DEF Caption
<1>2. /\ show_x \in Int /\ show_y \in Int /\ img3_off \in Int /\ play_x \in Int /\ play_y \in Int
    BY DEF ViewPlaced, PlayerInView
<1>3. /\ left \in Int /\ show_x <= left /\ left + TEXT_LEN <= show_x + SCROLL_X_DIM
      /\ top \in Int /\ show_y <= top /\ top + FONT_HEIGHT <= show_y + SCROLL_Y_DIM
    BY <1>2, ViewAssumption DEF PlayerInView, MinOf, MaxOf
<1> HIDE DEF left, top
<1>4. box \subseteq Pixels(show_x, show_y) /\ <<left, top>> \in Pixels(show_x, show_y)
    BY <1>2, <1>3, ViewAssumption DEF Pixels
<1> HIDE DEF box
<1>5. \A p \in box : index[Address(img3_off, p[1], p[2])] = p
    BY <1>2, <1>4, IndexIs
<1>6. DOMAIN index = {Address(img3_off, p[1], p[2]) : p \in box}
    OBVIOUS
<1> HIDE DEF index
<1>7. Paints(bytes, img3_off, box, value)
    BY <1>5, <1>6 DEF Paints
<1>8. \A p \in box : value[p] = <<p[1], p[2], "black">>
    OBVIOUS
<1> HIDE DEF bytes, value
<1>9. /\ ViewPlaced'
      /\ \A p \in Pixels(show_x, show_y) : ByteAt(p)' = IF p \in box THEN value[p] ELSE ByteAt(p)
    BY <1>1, <1>4, <1>7, DrawnHere
<1>10. \A p \in Pixels(show_x, show_y) : ByteAt(p)' = IF p \in box THEN <<p[1], p[2], "black">> ELSE ByteAt(p)
    BY <1>8, <1>9
<1> QED
    BY <1>3, <1>4, <1>9, <1>10 DEF box

\* A caption is in view and ends the claim that the picture is the map.
LEMMA CaptionKeeps == ViewInv /\ Caption => ViewInv'
<1> SUFFICES ASSUME ViewInv, Caption PROVE ViewInv'
    OBVIOUS
<1>1. ViewPlaced /\ PlayerInView /\ FrameOrder /\ PictureKept
    BY DEF ViewInv
<1>2. /\ show_x' = show_x /\ show_y' = show_y
      /\ play_x' = play_x /\ play_y' = play_y /\ pc' = pc /\ ticks' = ticks /\ clean' = FALSE
    BY DEF Caption, windowVars
<1>3. ViewPlaced'
    BY <1>1, CaptionIs
<1>4. PlayerInView' /\ FrameOrder'
    BY <1>1, <1>2 DEF PlayerInView, FrameOrder
<1>5. PictureKept'
    BY <1>2 DEF PictureKept
<1> QED
    BY <1>3, <1>4, <1>5 DEF ViewInv

(* A pan draws the one line that comes into view, which shows the map, and *)
(* keeps all that stays in view.                                           *)
LEMMA PanIs ==
    ASSUME ViewPlaced, NEW sx \in Int, NEW sy \in Int, Pan(sx, sy), seen' = seen,
           \/ sx \in {show_x - 1, show_x, show_x + 1} /\ sy = show_y
           \/ sy \in {show_y - 1, show_y, show_y + 1} /\ sx = show_x
    PROVE  /\ ViewPlaced' /\ show_x' = sx /\ show_y' = sy
           /\ \A p \in Pixels(sx, sy) :
                  ByteAt(p)' = IF p \in Pixels(show_x, show_y) THEN ByteAt(p) ELSE MapAt(p)
<1> DEFINE m == set_view_window(sx, sy)
           off == m.off
           Row(y) == (sx .. sx + SCROLL_X_DIM - 1) \X {y}
           Column(x) == {x} \X (sy .. sy + SCROLL_Y_DIM - 1)
<1>1. /\ show_x \in Int /\ show_y \in Int /\ img3_off \in Int /\ fence = TRUE
    BY DEF ViewPlaced
<1>2. off \in Int
    BY <1>1, WindowIs
<1>3. SCROLL_X_DIM \in Nat \ {0} /\ SCROLL_Y_DIM \in Nat \ {0}
    BY ViewAssumption
<1>4. \E P, line :
          /\ P \subseteq Pixels(sx, sy) /\ Paints(line, off, P, MapOf(P, seen)) /\ Scrolled(sx, sy, line)
          /\ Pixels(sx, sy) \subseteq P \union Pixels(show_x, show_y)
          /\ P \intersect Pixels(show_x, show_y) = {}
    <2>1. CASE sy < show_y /\ Scrolled(sx, sy, horiz_line(off, sx, sy, seen))
        <3>1. sy \in sy .. sy + SCROLL_Y_DIM - 1
            BY <1>3
        <3>2. Paints(horiz_line(off, sx, sy, seen), off, Row(sy), MapOf(Row(sy), seen))
            BY <1>2, <3>1, HorizontalPaints
        <3>3. /\ Row(sy) \subseteq Pixels(sx, sy) /\ Pixels(sx, sy) \subseteq Row(sy) \union Pixels(show_x, show_y)
              /\ Row(sy) \intersect Pixels(show_x, show_y) = {}
            BY <1>1, <1>3, <2>1 DEF Pixels
        <3> QED
            BY <2>1, <3>2, <3>3
    <2>2. CASE sy > show_y /\ Scrolled(sx, sy, horiz_line(off, sx, sy + SCROLL_Y_DIM - 1, seen))
        <3> DEFINE y == sy + SCROLL_Y_DIM - 1
        <3>1. y \in sy .. sy + SCROLL_Y_DIM - 1
            BY <1>3
        <3>2. Paints(horiz_line(off, sx, y, seen), off, Row(y), MapOf(Row(y), seen))
            BY <1>2, <3>1, HorizontalPaints
        <3>3. /\ Row(y) \subseteq Pixels(sx, sy) /\ Pixels(sx, sy) \subseteq Row(y) \union Pixels(show_x, show_y)
              /\ Row(y) \intersect Pixels(show_x, show_y) = {}
            BY <1>1, <1>3, <2>2 DEF Pixels
        <3> QED
            BY <2>2, <3>2, <3>3
    <2>3. CASE sx < show_x /\ Scrolled(sx, sy, vert_line(off, sx, sx, sy, seen))
        <3>1. sx \in sx .. sx + SCROLL_X_DIM - 1
            BY <1>3
        <3>2. Paints(vert_line(off, sx, sx, sy, seen), off, Column(sx), MapOf(Column(sx), seen))
            BY <1>2, <3>1, VerticalPaints
        <3>3. /\ Column(sx) \subseteq Pixels(sx, sy) /\ Pixels(sx, sy) \subseteq Column(sx) \union Pixels(show_x, show_y)
              /\ Column(sx) \intersect Pixels(show_x, show_y) = {}
            BY <1>1, <1>3, <2>3 DEF Pixels
        <3> QED
            BY <2>3, <3>2, <3>3
    <2>4. CASE sx > show_x /\ Scrolled(sx, sy, vert_line(off, sx, sx + SCROLL_X_DIM - 1, sy, seen))
        <3> DEFINE x == sx + SCROLL_X_DIM - 1
        <3>1. x \in sx .. sx + SCROLL_X_DIM - 1
            BY <1>3
        <3>2. Paints(vert_line(off, sx, x, sy, seen), off, Column(x), MapOf(Column(x), seen))
            BY <1>2, <3>1, VerticalPaints
        <3>3. /\ Column(x) \subseteq Pixels(sx, sy) /\ Pixels(sx, sy) \subseteq Column(x) \union Pixels(show_x, show_y)
              /\ Column(x) \intersect Pixels(show_x, show_y) = {}
            BY <1>1, <1>3, <2>4 DEF Pixels
        <3> QED
            BY <2>4, <3>2, <3>3
    <2> QED
        BY <2>1, <2>2, <2>3, <2>4 DEF Pan
<1>5. PICK P, line :
          /\ P \subseteq Pixels(sx, sy) /\ Paints(line, off, P, MapOf(P, seen)) /\ Scrolled(sx, sy, line)
          /\ Pixels(sx, sy) \subseteq P \union Pixels(show_x, show_y)
          /\ P \intersect Pixels(show_x, show_y) = {}
    BY <1>4
<1> DEFINE new == Redrawn(sx, sy, line)
           value == MapOf(P, seen)
<1>6. /\ show_x' = sx /\ show_y' = sy /\ img3_off' = m.off /\ build' = new
      /\ fence' = (fence /\ ~Breaks(m.bytes) /\ ~Breaks(line))
    BY <1>5 DEF Scrolled, Redrawn
<1>7. Paints(line, off, P, value) /\ \A p \in P : value[p] = <<p[1], p[2], Shows(seen, p[1], p[2])>>
    BY <1>5 DEF MapOf
<1> HIDE DEF value
<1>8. /\ m.off \in Int /\ Fits(m.off, sx, sy) /\ ~Breaks(m.bytes) /\ ~Breaks(line)
      /\ Holds(new, m.off, P, value)
      /\ Holds(new, m.off, (Pixels(sx, sy) \intersect Pixels(show_x, show_y)) \ P, pic)
    <2>1. P \subseteq Pixels(sx, sy)
        BY <1>5
    <2>2. Paints(line, set_view_window(sx, sy).off, P, value)
        BY <1>7
    <2> QED
        BY <1>1, <2>1, <2>2, DrawnThere
<1> HIDE DEF new, m
<1>9. ViewPlaced'
    <2>1. Fits(img3_off', show_x', show_y') = Fits(img3_off, show_x, show_y)'
        BY DEF Fits, SCROLL_X_WIDTH, SCROLL_SIZE, BUILD_BUF_SIZE, SCREEN_SIZE
    <2> QED
        BY <1>1, <1>6, <1>8, <2>1 DEF ViewPlaced
<1>10. ASSUME NEW p \in Pixels(sx, sy)
       PROVE  ByteAt(p)' = IF p \in Pixels(show_x, show_y) THEN ByteAt(p) ELSE MapAt(p)
    <2>1. ByteAt(p)' = new[Address(m.off, p[1], p[2])]
        BY <1>6 DEF ByteAt
    <2>2. CASE p \in P
        <3>1. p \notin Pixels(show_x, show_y)
            BY <1>5, <2>2
        <3> QED
            BY <2>1, <2>2, <3>1, <1>7, <1>8 DEF MapAt, Holds
    <2>3. CASE p \notin P
        <3>1. p \in Pixels(show_x, show_y)
            BY <1>5, <2>3
        <3> QED
            BY <2>1, <2>3, <3>1, <1>8 DEF ByteAt, Holds, pic
    <2> QED
        BY <2>2, <2>3
<1> QED
    BY <1>6, <1>9, <1>10

\* The player moves by a pixel, and the view with it or not at all.
LEMMA MoveIs ==
    ASSUME ViewPlaced, PlayerInView, Move
    PROVE  /\ ViewPlaced' /\ PlayerInView'
           /\ \/ show_x' \in {show_x - 1, show_x, show_x + 1} /\ show_y' = show_y
              \/ show_y' \in {show_y - 1, show_y, show_y + 1} /\ show_x' = show_x
           /\ \A p \in Pixels(show_x', show_y') :
                  ByteAt(p)' = IF p \in Pixels(show_x, show_y) THEN ByteAt(p) ELSE MapAt(p)
<1>2. PICK d \in {<<1, 0>>, <<-1, 0>>, <<0, 1>>, <<0, -1>>} :
          LET x == play_x + d[1]
              y == play_y + d[2]
              sx == Followed(show_x, play_x, d[1], SCROLL_X_DIM, BLOCK_X_DIM, MAP_X)
              sy == Followed(show_y, play_y, d[2], SCROLL_Y_DIM, BLOCK_Y_DIM, MAP_Y)
          IN  /\ x \in BLOCK_X_DIM .. MAP_X - 2 * BLOCK_X_DIM
              /\ y \in BLOCK_Y_DIM .. MAP_Y - 2 * BLOCK_Y_DIM
              /\ play_x' = x /\ play_y' = y
              /\ \/ sx = show_x /\ sy = show_y /\ UNCHANGED <<windowVars, build, fence>>
                 \/ Pan(sx, sy)
    BY DEF Move
<1> DEFINE dx == d[1]
           dy == d[2]
           x == play_x + dx
           y == play_y + dy
           sx == Followed(show_x, play_x, dx, SCROLL_X_DIM, BLOCK_X_DIM, MAP_X)
           sy == Followed(show_y, play_y, dy, SCROLL_Y_DIM, BLOCK_Y_DIM, MAP_Y)
<1>3. dx \in Int /\ dy \in Int /\ dx \in -1 .. 1 /\ dy \in -1 .. 1 /\ (dx = 0 \/ dy = 0)
    OBVIOUS
<1>4. /\ x \in BLOCK_X_DIM .. MAP_X - 2 * BLOCK_X_DIM /\ y \in BLOCK_Y_DIM .. MAP_Y - 2 * BLOCK_Y_DIM
      /\ play_x' = x /\ play_y' = y
      /\ \/ sx = show_x /\ sy = show_y /\ UNCHANGED <<windowVars, build, fence>>
         \/ Pan(sx, sy)
    BY <1>2
<1>5. /\ seen' = seen /\ clean' = clean /\ ticks' = ticks /\ pc' = "moved"
    BY DEF Move
<1>6. /\ show_x \in Int /\ show_y \in Int /\ play_x \in Int /\ play_y \in Int
      /\ show_x <= play_x /\ play_x + BLOCK_X_DIM <= show_x + SCROLL_X_DIM
      /\ show_y <= play_y /\ play_y + BLOCK_Y_DIM <= show_y + SCROLL_Y_DIM
    BY DEF ViewPlaced, PlayerInView
<1>7. MAP_X \in Int /\ MAP_Y \in Int
    BY ViewAssumption, SMT DEF MAP_X, MAP_Y
<1> HIDE DEF dx, dy
<1>8. /\ sx \in {show_x - 1, show_x, show_x + 1} /\ (dx = 0 => sx = show_x)
      /\ sx <= x /\ x + BLOCK_X_DIM <= sx + SCROLL_X_DIM
    <2>1. dx # 0 => BLOCK_X_DIM <= play_x + dx /\ play_x + dx <= MAP_X - 2 * BLOCK_X_DIM
        BY <1>4
    <2>2. /\ SCROLL_X_DIM \in Nat \ {0} /\ BLOCK_X_DIM \in Nat \ {0}
          /\ SHOW_MIN \in 0 .. BLOCK_X_DIM /\ PAN_BORDER \in Nat
        BY ViewAssumption
    <2>3. /\ sx \in {show_x - 1, show_x, show_x + 1} /\ (dx = 0 => sx = show_x)
          /\ sx <= play_x + dx /\ play_x + dx + BLOCK_X_DIM <= sx + SCROLL_X_DIM
        <3> DEFINE border == BLOCK_X_DIM * PAN_BORDER
                   far == BLOCK_X_DIM * (PAN_BORDER + 1)
        <3>1. border \in Nat /\ far \in Int /\ far = border + BLOCK_X_DIM
            BY <2>2, SMT
        <3>2. sx = IF dx = -1 /\ play_x - 1 < show_x + border /\ show_x > SHOW_MIN THEN show_x - 1
                   ELSE IF dx = 1 /\ play_x + 1 > show_x + SCROLL_X_DIM - far
                           /\ show_x + SCROLL_X_DIM < MAP_X - SHOW_MIN
                   THEN show_x + 1 ELSE show_x
            BY DEF Followed
        <3> HIDE DEF border, far, sx
        <3> QED
            BY <3>1, <3>2, <1>3, <1>6, <1>7, <2>1, <2>2
    <2> QED
        BY <2>3
<1>9. /\ sy \in {show_y - 1, show_y, show_y + 1} /\ (dy = 0 => sy = show_y)
      /\ sy <= y /\ y + BLOCK_Y_DIM <= sy + SCROLL_Y_DIM
    <2>1. dy # 0 => BLOCK_Y_DIM <= play_y + dy /\ play_y + dy <= MAP_Y - 2 * BLOCK_Y_DIM
        BY <1>4
    <2>2. /\ SCROLL_Y_DIM \in Nat \ {0} /\ BLOCK_Y_DIM \in Nat \ {0}
          /\ SHOW_MIN \in 0 .. BLOCK_Y_DIM /\ PAN_BORDER \in Nat
        BY ViewAssumption
    <2>3. /\ sy \in {show_y - 1, show_y, show_y + 1} /\ (dy = 0 => sy = show_y)
          /\ sy <= play_y + dy /\ play_y + dy + BLOCK_Y_DIM <= sy + SCROLL_Y_DIM
        <3> DEFINE border == BLOCK_Y_DIM * PAN_BORDER
                   far == BLOCK_Y_DIM * (PAN_BORDER + 1)
        <3>1. border \in Nat /\ far \in Int /\ far = border + BLOCK_Y_DIM
            BY <2>2, SMT
        <3>2. sy = IF dy = -1 /\ play_y - 1 < show_y + border /\ show_y > SHOW_MIN THEN show_y - 1
                   ELSE IF dy = 1 /\ play_y + 1 > show_y + SCROLL_Y_DIM - far
                           /\ show_y + SCROLL_Y_DIM < MAP_Y - SHOW_MIN
                   THEN show_y + 1 ELSE show_y
            BY DEF Followed
        <3> HIDE DEF border, far, sy
        <3> QED
            BY <3>1, <3>2, <1>3, <1>6, <1>7, <2>1, <2>2
    <2> QED
        BY <2>3
<1>10. x \in Int /\ y \in Int
    BY <1>3, <1>6
<1> HIDE DEF sx, sy, x, y
<1>11. sx \in Int /\ sy \in Int
    BY <1>6, <1>8, <1>9
<1>12. \/ sx \in {show_x - 1, show_x, show_x + 1} /\ sy = show_y
       \/ sy \in {show_y - 1, show_y, show_y + 1} /\ sx = show_x
    BY <1>3, <1>8, <1>9
<1>13. /\ ViewPlaced' /\ show_x' = sx /\ show_y' = sy
       /\ \A p \in Pixels(sx, sy) :
              ByteAt(p)' = IF p \in Pixels(show_x, show_y) THEN ByteAt(p) ELSE MapAt(p)
    <2>1. CASE sx = show_x /\ sy = show_y /\ UNCHANGED <<windowVars, build, fence>>
        <3>1. ViewPlaced' /\ \A p : ByteAt(p)' = ByteAt(p)
            BY <2>1, ViewStays
        <3> QED
            BY <2>1, <3>1 DEF windowVars
    <2>2. CASE Pan(sx, sy)
        BY <1>5, <1>11, <1>12, <2>2, PanIs
    <2> QED
        BY <1>4, <2>1, <2>2
<1>14. PlayerInView'
    BY <1>4, <1>8, <1>9, <1>10, <1>13 DEF PlayerInView
<1> QED
    BY <1>12, <1>13, <1>14

\* The view moves by a pixel: what stays is kept, the line that comes is drawn.
LEMMA MoveKeeps == ViewInv /\ Move => ViewInv'
<1> SUFFICES ASSUME ViewInv, Move PROVE ViewInv'
    OBVIOUS
<1>1. ViewPlaced /\ PlayerInView /\ FrameOrder /\ PictureKept
    BY DEF ViewInv
<1>2. /\ ViewPlaced' /\ PlayerInView'
      /\ \A p \in Pixels(show_x', show_y') :
             ByteAt(p)' = IF p \in Pixels(show_x, show_y) THEN ByteAt(p) ELSE MapAt(p)
    BY <1>1, MoveIs
<1>3. seen' = seen /\ clean' = clean /\ ticks' = ticks /\ pc' = "moved"
    BY DEF Move
<1>4. FrameOrder'
    BY <1>1, <1>3 DEF FrameOrder
<1>5. PictureKept'
    <2>1. Pixels(show_x, show_y)' = Pixels(show_x', show_y')
        BY DEF Pixels
    <2>2. \A p : MapAt(p)' = MapAt(p)
        BY <1>3 DEF MapAt, Shows
    <2> QED
        BY <1>1, <1>2, <1>3, <2>1, <2>2 DEF PictureKept
<1> QED
    BY <1>2, <1>4, <1>5 DEF ViewInv

\* Every step of the view keeps its invariant.
LEMMA ViewStep == ViewInv /\ [Next]_vars => ViewInv'
<1> SUFFICES ASSUME ViewInv, [Next]_vars PROVE ViewInv'
    OBVIOUS
<1>1. CASE NewLevel
    BY <1>1, NewLevelKeeps
<1>2. CASE Unveil
    BY <1>2, UnveilKeeps
<1>3. CASE Move
    BY <1>3, MoveKeeps
<1>4. CASE DrawPlayer
    BY <1>4, DrawPlayerKeeps
<1>5. CASE Caption
    BY <1>5, CaptionKeeps
<1>6. CASE CopyPlane \/ Flip
    BY <1>6, ShowKeeps
<1>7. CASE Restore
    BY <1>7, RestoreKeeps
<1>8. CASE UNCHANGED vars
    BY <1>8 DEF vars, windowVars, drawVars, playVars, ViewInv, ViewPlaced, PlayerInView, FrameOrder, PictureKept,
        Fits, SCROLL_X_WIDTH, SCROLL_SIZE, BUILD_BUF_SIZE, SCREEN_SIZE, ByteAt, MapAt, Shows, Pixels,
        PlayerCells, Cells, Address
<1> QED
    BY <1>1, <1>2, <1>3, <1>4, <1>5, <1>6, <1>7, <1>8 DEF Next

\* The invariant says that the fence is whole and the picture true.
LEMMA ViewIsSafe == ViewInv => ViewSafety
<1> SUFFICES ASSUME ViewInv PROVE ViewSafety
    OBVIOUS
<1>1. FenceWhole
    BY FitsMeans DEF ViewInv, ViewPlaced, FenceWhole
<1>2. PictureTrue
    BY DEF ViewInv, FrameOrder, PictureKept, PictureTrue, ByteAt, MapAt
<1> QED
    BY <1>1, <1>2 DEF ViewSafety

-----------------------------------------------------------------------------
(***************************************************************************)
(* Texts as pixels.                                                        *)
(***************************************************************************)

(* A text in a bar leaves a column free (the bar's texts are formatted     *)
(* with 40 columns in mind); the code's numbers are 40, 16 and 13.         *)
ASSUME TextAssumption ==
    /\ COLUMNS \in Nat \ {0} /\ LetterHeight \in Nat \ {0} /\ CAPTION_TEXT_NUM \in Nat \ {0}
    /\ MaxText \in 0 .. COLUMNS - 1

\* A number in two digits is in one way.
LEMMA DigitsAre ==
    ASSUME NEW n \in Nat \ {0}, NEW a \in Int, NEW b \in 0 .. n - 1
    PROVE  (a * n + b) \div n = a /\ (a * n + b) % n = b
<1> DEFINE y == a * n + b
           q == y \div n
           r == y % n
           e == a - q
<1>1. y \in Int /\ a * n \in Int /\ a * n = n * a
    OBVIOUS
<1> HIDE DEF y
<1>2. q \in Int /\ r \in 0 .. n - 1 /\ y = n * q + r
    BY <1>1, SMT
<1> HIDE DEF q, r
<1>3. e \in Int /\ n * e = n * a - n * q /\ n * e \in Int /\ n * q \in Int
    BY <1>2, SMT
<1>4. y = n * a + b
    BY <1>1 DEF y
<1>5. n * e = r - b
    BY <1>1, <1>2, <1>3, <1>4
<1>6. e = 0
    <2> HIDE DEF e
    <2>1. CASE e >= 1
        <3>1. n * e >= n
            BY <1>3, <2>1, SMT
        <3> QED
            BY <3>1, <1>2, <1>5
    <2>2. CASE e <= -1
        <3>1. n * e <= -n
            BY <1>3, <2>2, SMT
        <3> QED
            BY <3>1, <1>2, <1>5
    <2> QED
        BY <1>3, <2>1, <2>2
<1>7. a = q /\ r = b
    BY <1>2, <1>3, <1>5, <1>6
<1> QED
    BY <1>7 DEF q, r, y

\* The sizes of a bar, and of a text in it.
LEMMA BarIs ==
    /\ Text!Width = 8 * COLUMNS /\ Text!PlaneWidth = 2 * COLUMNS /\ Text!Rows = LetterHeight + 2
    /\ Text!PlaneSize = (2 * COLUMNS) * (LetterHeight + 2) /\ Text!PlaneSize \in Nat \ {0}
    /\ Text!CaptionWidth = 8 * CAPTION_TEXT_NUM
<1>1. Text!Width = 8 * COLUMNS /\ Text!CaptionWidth = 8 * CAPTION_TEXT_NUM
    BY TextAssumption DEF Text!Width, Text!CaptionWidth, Text!FONT_WIDTH
<1>2. Text!PlaneWidth = 2 * COLUMNS
    BY <1>1, TextAssumption, SMT DEF Text!PlaneWidth
<1>3. Text!Rows = LetterHeight + 2
    BY DEF Text!Rows
<1>4. (2 * COLUMNS) * (LetterHeight + 2) \in Nat \ {0}
    BY TextAssumption, SMT
<1> QED
    BY <1>1, <1>2, <1>3, <1>4 DEF Text!PlaneSize

\* A text has a character and no more than the longest.
LEMMA TextIs ==
    ASSUME NEW longest \in Nat, NEW s \in Text!Texts(longest)
    PROVE  Len(s) \in 1 .. longest
<1>1. PICK n \in 1 .. longest : s \in [1 .. n -> DOMAIN Letters]
    BY DEF Text!Texts
<1>2. Len(s) = n
    BY <1>1
<1> QED
    BY <1>2

\* A text's row with its columns beside it, wherever it is.
LEMMA RowIs ==
    ASSUME NEW c \in Nat, NEW s, Len(s) \in 1 .. c, NEW j, NEW x \in 0 .. 8 * c - 1, NEW was
    PROVE  LET left == Text!Space(s, 8 * c)
               at == x - left
           IN  /\ left = 4 * (c - Len(s)) /\ left \in Nat
               /\ Text!TextRow(s, 8 * c, j, x, was) =
                      IF at \in 0 .. Len(s) * 8 - 1
                      THEN Text!Drawn(s[at \div 8 + 1], j, at % 8) ELSE Text!Blank
<1> DEFINE left == Text!Space(s, 8 * c)
           at == x - left
           n == Len(s)
<1>1. left = 4 * (c - n) /\ left \in Nat /\ n \in Nat
    <2> HIDE DEF n
    <2>1. n \in 1 .. c
        BY DEF n
    <2>2. (8 * c - n * 8) \div 2 = 4 * (c - n)
        BY <2>1, SMT
    <2>3. left = (8 * c - n * 8) \div 2
        BY DEF Text!Space, Text!FONT_WIDTH, n
    <2> HIDE DEF left
    <2> QED
        BY <2>1, <2>2, <2>3
<1>2. Text!Blanked(s, 8 * c, x) <=> x < left \/ x \in 8 * c - left .. 8 * c - 1
    BY DEF Text!Blanked
<1> HIDE DEF left, n
<1>3. Text!Blanked(s, 8 * c, x) <=> at \notin 0 .. n * 8 - 1
    BY <1>1, <1>2
<1>4. Text!TextRow(s, 8 * c, j, x, was) =
          IF at \in 0 .. n * 8 - 1 THEN Text!Drawn(s[at \div 8 + 1], j, at % 8) ELSE Text!Blank
    <2>1. CASE Text!Blanked(s, 8 * c, x)
        BY <2>1, <1>3 DEF Text!TextRow
    <2>2. CASE ~Text!Blanked(s, 8 * c, x)
        <3>1. at \in 0 .. n * 8 - 1
            BY <2>2, <1>3
        <3> QED
            BY <2>2, <3>1 DEF Text!TextRow, Text!FONT_WIDTH, left, n
    <2> QED
        BY <2>1, <2>2
<1> QED
    BY <1>1, <1>4 DEF left, n

(* A caption's mask holds the text and nothing of an earlier one.          *)
LEMMA CaptionShown ==
    ASSUME NEW s \in Text!Texts(CAPTION_TEXT_NUM), NEW was,
           NEW q \in Text!Pixels(Text!CaptionWidth, LetterHeight)
    PROVE  Text!generate_caption(s, was)[q[2] * Text!CaptionWidth + q[1]] =
               Text!Typeset(s, Text!Space(s, Text!CaptionWidth), 0, q[1], q[2])
<1> DEFINE w == Text!CaptionWidth
           x == q[1]
           y == q[2]
           a == y * w + x
           left == Text!Space(s, w)
<1>1. w = 8 * CAPTION_TEXT_NUM /\ w \in Nat \ {0}
    BY BarIs, TextAssumption
<1>2. x \in 0 .. w - 1 /\ y \in 0 .. LetterHeight - 1
    BY DEF Text!Pixels
<1>3. Len(s) \in 1 .. CAPTION_TEXT_NUM
    BY TextIs, TextAssumption
<1> HIDE DEF w, x, y
<1>4. a \div w = y /\ a % w = x
    <2>1. y \in Int /\ w \in Nat \ {0} /\ x \in 0 .. w - 1
        BY <1>1, <1>2, TextAssumption
    <2> HIDE DEF a
    <2>2. (y * w + x) \div w = y /\ (y * w + x) % w = x
        BY <2>1, DigitsAre, Zenon
    <2> QED
        BY <2>2 DEF a
<1>5. a \in 0 .. w * LetterHeight - 1
    <2>1. y * w \in Int /\ w * LetterHeight \in Int /\ 0 <= y * w
        BY <1>1, <1>2, TextAssumption, SMT
    <2>2. y * w + w <= w * LetterHeight
        <3> DEFINE d == LetterHeight - y
        <3>1. d \in Nat \ {0} /\ LetterHeight = y + d /\ y \in Int
            BY <1>2, TextAssumption
        <3> HIDE DEF d
        <3>2. w * (y + d) = y * w + w * d
            BY <3>1, <1>1, SMT
        <3>3. w * d >= w /\ w * d \in Int
            BY <3>1, <1>1, SMT
        <3> QED
            BY <3>1, <3>2, <3>3, <2>1, <1>1
    <2> QED
        BY <2>1, <2>2, <1>1, <1>2
<1>6. Text!generate_caption(s, was)[a] = Text!TextRow(s, w, y, x, was[a])
    BY <1>4, <1>5 DEF Text!generate_caption, w
<1> HIDE DEF a
<1>7. /\ left \in Nat
      /\ Text!TextRow(s, w, y, x, was[a]) =
             IF x - left \in 0 .. Len(s) * 8 - 1
             THEN Text!Drawn(s[(x - left) \div 8 + 1], y, (x - left) % 8) ELSE Text!Blank
    BY <1>1, <1>2, <1>3, RowIs, TextAssumption
<1> HIDE DEF left
<1>8. Text!Typeset(s, left, 0, x, y) =
          IF x - left \in 0 .. Len(s) * 8 - 1
          THEN Text!Drawn(s[(x - left) \div 8 + 1], y, (x - left) % 8) ELSE Text!Blank
    <2>1. y - 0 = y /\ y - 0 \in 0 .. LetterHeight - 1
        BY <1>2
    <2> QED
        BY <2>1 DEF Text!Typeset, Text!FONT_WIDTH
<1> QED
    BY <1>6, <1>7, <1>8 DEF a, w, x, y, left

(* A pixel's byte in the four planes, and back from the byte to its plane, *)
(* its row and its column.                                                 *)
LEMMA SpotIs ==
    ASSUME NEW q \in Text!Pixels(Text!Width, Text!Rows)
    PROVE  LET x == q[1]
               y == q[2]
               b == y * Text!PlaneWidth + x \div 4
               a == (x % 4) * Text!PlaneSize + y * Text!PlaneWidth + x \div 4
           IN  /\ x \in 0 .. Text!Width - 1 /\ y \in 0 .. Text!Rows - 1
               /\ x \div 4 \in 0 .. Text!PlaneWidth - 1 /\ x % 4 \in 0 .. 3 /\ x = 4 * (x \div 4) + (x % 4)
               /\ b \in 0 .. Text!PlaneSize - 1 /\ a = (x % 4) * Text!PlaneSize + b
               /\ a \in 0 .. 4 * Text!PlaneSize - 1
               /\ a \div Text!PlaneSize = x % 4 /\ a % Text!PlaneSize = b
<1> DEFINE x == q[1]
           y == q[2]
           w == Text!PlaneWidth
           n == Text!PlaneSize
           c == x \div 4
           p == x % 4
           b == y * w + c
           a == p * n + y * w + c
<1>1. x \in 0 .. Text!Width - 1 /\ y \in 0 .. Text!Rows - 1
    BY DEF Text!Pixels
<1>2. /\ w \in Nat \ {0} /\ Text!Width = 4 * w /\ Text!Rows \in Nat \ {0}
      /\ n = w * Text!Rows /\ n \in Nat \ {0}
    BY BarIs, TextAssumption
<1> HIDE DEF x, y, w, n
<1>3. c \in 0 .. w - 1 /\ p \in 0 .. 3 /\ x = 4 * c + p /\ y \in Int
    BY <1>1, <1>2, SMT
<1> HIDE DEF c, p
<1>4. b \in 0 .. n - 1
    <2> DEFINE d == Text!Rows - y
    <2>1. d \in Nat \ {0} /\ Text!Rows = y + d /\ y \in Nat
        BY <1>1, <1>2
    <2> HIDE DEF d
    <2>2. w * (y + d) = y * w + w * d
        BY <2>1, <1>2, SMT
    <2>3. w * d >= w /\ w * d \in Int
        BY <2>1, <1>2, SMT
    <2>4. y * w \in Nat
        BY <2>1, <1>2, SMT
    <2> QED
        BY <2>1, <2>2, <2>3, <2>4, <1>2, <1>3
<1>5. p * n \in 0 .. 3 * n /\ y * w \in Int
    BY <1>1, <1>2, <1>3, SMT
<1>6. a = p * n + b
    BY <1>3, <1>5, <1>2
<1>7. p \in Int /\ n \in Nat \ {0} /\ b \in 0 .. n - 1
    BY <1>2, <1>3, <1>4
<1> HIDE DEF b, a
<1>8. (p * n + b) \div n = p /\ (p * n + b) % n = b
    BY <1>7, DigitsAre, Zenon
<1>9. a \in 0 .. 4 * n - 1
    BY <1>4, <1>5, <1>6, <1>2
<1> QED
    BY <1>1, <1>3, <1>4, <1>6, <1>8, <1>9 DEF x, y, w, n, c, p, a, b

(* The bar of one version holds the text, centred, in the rows between a   *)
(* blank one above and one below.                                          *)
LEMMA BarShown ==
    ASSUME NEW s \in Text!Texts(MaxText), NEW q \in Text!Pixels(Text!Width, Text!Rows)
    PROVE  Text!Shown(Text!generate_status_bar(s), q[1], q[2]) =
               Text!Typeset(s, Text!Space(s, Text!Width), 1, q[1], q[2])
<1> DEFINE x == q[1]
           y == q[2]
           n == Text!PlaneSize
           w == Text!PlaneWidth
           b == y * w + x \div 4
           a == (x % 4) * n + y * w + x \div 4
           spot == (a \div n) + 4 * (a % n)
           left == Text!Space(s, Text!Width)
<1>1. /\ x \in 0 .. Text!Width - 1 /\ y \in 0 .. Text!Rows - 1
      /\ x \div 4 \in Int /\ x % 4 \in 0 .. 3 /\ x = 4 * (x \div 4) + (x % 4)
      /\ a \in 0 .. 4 * n - 1 /\ a \div n = x % 4 /\ a % n = b
    BY SpotIs
<1>2. /\ Text!Width = 4 * w /\ Text!Width = 8 * COLUMNS /\ Text!Width \in Nat \ {0} /\ w \in Nat
      /\ Text!Rows = LetterHeight + 2 /\ LetterHeight \in Nat
    BY BarIs, TextAssumption
<1>3. Len(s) \in 1 .. COLUMNS
    BY TextIs, TextAssumption
<1> HIDE DEF x, y, n, w, a
<1>4. y * w \in Int /\ y * (4 * w) = 4 * (y * w) /\ y \in Int
    BY <1>1, <1>2, SMT
<1>5. spot = y * Text!Width + x
    BY <1>1, <1>2, <1>4
<1>6. spot % Text!Width = x /\ spot \div Text!Width = y
    <2>1. y \in Int /\ Text!Width \in Nat \ {0} /\ x \in 0 .. Text!Width - 1
        BY <1>1, <1>2, <1>4
    <2>2. (y * Text!Width + x) \div Text!Width = y /\ (y * Text!Width + x) % Text!Width = x
        BY <2>1, DigitsAre, Zenon
    <2> QED
        BY <2>2, <1>5
<1>7. Text!generate_status_bar(s)[a] =
          IF y \in {0, Text!Rows - 1} THEN Text!Blank
          ELSE Text!TextRow(s, Text!Width, y - 1, x, Text!Unwritten)
    BY <1>1, <1>6 DEF Text!generate_status_bar, n
<1>8. /\ left \in Nat
      /\ Text!TextRow(s, Text!Width, y - 1, x, Text!Unwritten) =
             IF x - left \in 0 .. Len(s) * 8 - 1
             THEN Text!Drawn(s[(x - left) \div 8 + 1], y - 1, (x - left) % 8) ELSE Text!Blank
    <2>1. Text!Width = 8 * COLUMNS /\ x \in 0 .. 8 * COLUMNS - 1 /\ COLUMNS \in Nat
        BY <1>1, <1>2, TextAssumption
    <2> QED
        BY <2>1, <1>3, RowIs
<1> HIDE DEF left
<1>9. y \in {0, Text!Rows - 1} <=> y - 1 \notin 0 .. LetterHeight - 1
    BY <1>1, <1>2
<1>10. Text!Typeset(s, left, 1, x, y) = Text!generate_status_bar(s)[a]
    <2> HIDE DEF spot
    <2>1. CASE y \in {0, Text!Rows - 1}
        BY <2>1, <1>7, <1>9 DEF Text!Typeset, Text!FONT_WIDTH
    <2>2. CASE y \notin {0, Text!Rows - 1}
        BY <2>2, <1>7, <1>8, <1>9 DEF Text!Typeset, Text!FONT_WIDTH
    <2> QED
        BY <2>1, <2>2
<1> QED
    BY <1>10 DEF Text!Shown, a, n, w, x, y, left

(* A bit of a character is written to the byte of a pixel exactly when it  *)
(* is the pixel's place in the text, four columns and a row on.            *)
LEMMA ByteIs ==
    ASSUME NEW s \in Text!Texts(MaxText), NEW q \in Text!Pixels(Text!Width, Text!Rows),
           NEW i \in 0 .. Len(s) - 1, NEW j \in 0 .. LetterHeight - 1, NEW k \in 0 .. 7
    PROVE  Text!ByteOf(s, i, j, k) =
               (q[1] % 4) * Text!PlaneSize + q[2] * Text!PlaneWidth + q[1] \div 4
           <=> /\ q[1] - (Text!Space(s, Text!Width) + 4) = 8 * i + (7 - k)
               /\ q[2] - 2 = j
<1> DEFINE x == q[1]
           y == q[2]
           n == Text!PlaneSize
           w == Text!PlaneWidth
           m == Len(s)
           left == Text!Space(s, Text!Width)
           kp == k % 4
           kc == k \div 4
           c == 2 * i + (COLUMNS - m) + (2 - kc)
           row == j + 2
           d == row * w + c
           p == 3 - kp
           b == y * w + x \div 4
           a == (x % 4) * n + y * w + x \div 4
<1>1. /\ x \in 0 .. Text!Width - 1 /\ y \in 0 .. Text!Rows - 1
      /\ x \div 4 \in 0 .. w - 1 /\ x % 4 \in 0 .. 3 /\ x = 4 * (x \div 4) + (x % 4)
      /\ b \in 0 .. n - 1 /\ a = (x % 4) * n + b
      /\ a \div n = x % 4 /\ a % n = b
    BY SpotIs
<1>2. /\ Text!Width = 8 * COLUMNS /\ w = 2 * COLUMNS /\ w \in Nat \ {0} /\ n \in Nat \ {0}
      /\ Text!Rows = LetterHeight + 2 /\ n = w * Text!Rows /\ LetterHeight \in Nat /\ COLUMNS \in Nat
    BY BarIs, TextAssumption
<1>3. m \in 1 .. COLUMNS - 1 /\ i \in 0 .. m - 1
    BY TextIs, TextAssumption
<1>4. left = 4 * (COLUMNS - m)
    <2>1. Text!Width = 8 * COLUMNS /\ 0 \in 0 .. 8 * COLUMNS - 1 /\ m \in 1 .. COLUMNS
        BY <1>2, <1>3
    <2> QED
        BY <2>1, <1>2, RowIs
<1>5. Text!ByteOf(s, i, j, k) =
          2 * i + (COLUMNS - m) + row * w + (2 - kc) + p * n
    BY DEF Text!ByteOf
<1> HIDE DEF x, y, n, w, m, left
<1>6. kp \in 0 .. 3 /\ kc \in 0 .. 1 /\ k = 4 * kc + kp
    BY SMT
<1> HIDE DEF kp, kc
<1>7. c \in 0 .. w - 1 /\ row \in 2 .. LetterHeight + 1 /\ p \in 0 .. 3
    BY <1>2, <1>3, <1>6
<1>8. d \in 0 .. n - 1
    <2> HIDE DEF c
    <2> DEFINE e == Text!Rows - row
    <2>1. e \in Nat \ {0} /\ Text!Rows = row + e /\ row \in Nat
        BY <1>7, <1>2
    <2> HIDE DEF e, row
    <2>2. w * (row + e) = row * w + w * e
        BY <2>1, <1>2, SMT
    <2>3. w * e >= w /\ w * e \in Int
        BY <2>1, <1>2, SMT
    <2>4. row * w \in Nat
        BY <2>1, <1>2, SMT
    <2> QED
        BY <2>1, <2>2, <2>3, <2>4, <1>2, <1>7
<1>9. Text!ByteOf(s, i, j, k) = p * n + d
    <2>1. row * w \in Int /\ p * n \in Int
        BY <1>2, <1>7, SMT
    <2> HIDE DEF row, p
    <2> QED
        BY <2>1, <1>5, <1>2, <1>3, <1>6
<1> DEFINE t == p * n + d
<1>10. t \div n = p /\ t % n = d
    <2> HIDE DEF d, p
    <2>1. p \in Int /\ n \in Nat \ {0} /\ d \in 0 .. n - 1
        BY <1>2, <1>7, <1>8
    <2> QED
        BY <2>1, DigitsAre, Zenon
<1>11. d \div w = row /\ d % w = c
    <2> HIDE DEF c, row
    <2>1. row \in Int /\ w \in Nat \ {0} /\ c \in 0 .. w - 1
        BY <1>2, <1>7
    <2> QED
        BY <2>1, DigitsAre, Zenon
<1>12. b \div w = y /\ b % w = x \div 4
    <2> DEFINE xc == x \div 4
    <2>1. y \in Int /\ w \in Nat \ {0} /\ xc \in 0 .. w - 1
        BY <1>1, <1>2
    <2> HIDE DEF xc
    <2>2. (y * w + xc) \div w = y /\ (y * w + xc) % w = xc
        BY <2>1, DigitsAre, Zenon
    <2> QED
        BY <2>2 DEF xc
<1>13. t = a <=> p = x % 4 /\ row = y /\ c = x \div 4
    <2>1. ASSUME t = a PROVE p = x % 4 /\ row = y /\ c = x \div 4
        <3> HIDE DEF t, a, b, d, p, row, c
        <3>1. p = x % 4 /\ d = b
            BY <2>1, <1>1, <1>10
        <3> QED
            BY <3>1, <1>11, <1>12
    <2>2. ASSUME p = x % 4, row = y, c = x \div 4 PROVE t = a
        <3>1. d = b
            BY <2>2
        <3> HIDE DEF a, b, d, p, row, c
        <3> QED
            BY <3>1, <2>2, <1>1
    <2> QED
        BY <2>1, <2>2
<1>14. p = x % 4 /\ c = x \div 4 <=> x - (left + 4) = 8 * i + (7 - k)
    <2> DEFINE xc == x \div 4
               xp == x % 4
    <2>1. xc \in Int /\ xp \in 0 .. 3 /\ x = 4 * xc + xp
        BY <1>1
    <2> HIDE DEF xc, xp
    <2>2. p = xp /\ c = xc <=> x - (left + 4) = 8 * i + (7 - k)
        BY <2>1, <1>3, <1>4, <1>6, <1>2
    <2> QED
        BY <2>2 DEF xc, xp
<1>15. row = y <=> y - 2 = j
    BY <1>1
<1> QED
    <2> HIDE DEF t, p, row, c, d, b
    <2>1. t = Text!ByteOf(s, i, j, k)
        BY <1>9 DEF t
    <2>2. Text!ByteOf(s, i, j, k) = a <=> x - (left + 4) = 8 * i + (7 - k) /\ y - 2 = j
        <3> HIDE DEF a
        <3> QED
            BY <2>1, <1>13, <1>14, <1>15
    <2> QED
        BY <2>2 DEF x, y, n, w, left

(* The count of planes that is never set back is at a multiple of four     *)
(* with every row of a character: the two versions write the same bytes.   *)
LEMMA PlanesAlike ==
    ASSUME NEW s \in Text!Texts(MaxText)
    PROVE  Text!text_convert(s) = Text!text_to_graphics(s)
<1> DEFINE bits == (0 .. Len(s) - 1) \X (0 .. LetterHeight - 1) \X (0 .. 7)
           on == {b \in bits : b[3] \in Letters[s[b[1] + 1]][b[2]]}
           p_off(i, j, k) == ((i * LetterHeight + j) * 8 + k) % 4
           location(i, j, k) ==
               (COLUMNS - Len(s)) + 2 * i + (j + 2) * Text!PlaneWidth + (2 - k \div 4)
                   + (3 - p_off(i, j, k)) * Text!PlaneSize
           counted == {location(b[1], b[2], b[3]) : b \in on}
           straight == {Text!ByteOf(s, b[1], b[2], b[3]) : b \in on}
<1>1. /\ COLUMNS \in Int /\ Len(s) \in Int /\ LetterHeight \in Nat
      /\ Text!PlaneWidth \in Int /\ Text!PlaneSize \in Int
    BY TextIs, BarIs, TextAssumption
<1>2. ASSUME NEW b \in bits PROVE location(b[1], b[2], b[3]) = Text!ByteOf(s, b[1], b[2], b[3])
    <2> DEFINE i == b[1]
               j == b[2]
               k == b[3]
               e == i * LetterHeight + j
    <2>1. i \in Int /\ j \in Int /\ k \in 0 .. 7
        BY <1>1
    <2> HIDE DEF i, j, k
    <2>2. e \in Int
        BY <2>1, <1>1, SMT
    <2>3. p_off(i, j, k) = k % 4
        <3> HIDE DEF e
        <3>1. (e * 8 + k) % 4 = k % 4
            BY <2>1, <2>2, SMT
        <3> QED
            BY <3>1 DEF e
    <2> HIDE DEF p_off
    <2>4. location(i, j, k) = Text!ByteOf(s, i, j, k)
        <3>1. k \div 4 \in Int /\ (j + 2) * Text!PlaneWidth \in Int /\ (3 - (k % 4)) * Text!PlaneSize \in Int
            BY <2>1, <1>1, SMT
        <3> QED
            BY <3>1, <2>1, <2>3, <1>1 DEF Text!ByteOf
    <2> QED
        BY <2>4 DEF i, j, k
<1> HIDE DEF location, bits
<1>3. counted = straight
    BY <1>2
<1> HIDE DEF counted, straight
<1>4. Text!text_convert(s) = [a \in 0 .. 4 * Text!PlaneSize - 1 |-> IF a \in counted THEN Text!Ink ELSE Text!Blank]
    BY DEF Text!text_convert, counted, on, bits, location, p_off
<1>5. Text!text_to_graphics(s) = [a \in 0 .. 4 * Text!PlaneSize - 1 |-> IF a \in straight THEN Text!Ink ELSE Text!Blank]
    BY DEF Text!text_to_graphics, straight, on, bits
<1> QED
    BY <1>3, <1>4, <1>5

(* The planes of the other two versions hold the text, four pixels to the  *)
(* right of the centre and a row lower.                                    *)
LEMMA PlanesShown ==
    ASSUME NEW s \in Text!Texts(MaxText), NEW q \in Text!Pixels(Text!Width, Text!Rows)
    PROVE  Text!Shown(Text!text_to_graphics(s), q[1], q[2]) =
               Text!Typeset(s, Text!Space(s, Text!Width) + 4, 2, q[1], q[2])
<1> DEFINE x == q[1]
           y == q[2]
           a == (x % 4) * Text!PlaneSize + y * Text!PlaneWidth + x \div 4
           m == Len(s)
           u == x - (Text!Space(s, Text!Width) + 4)
           v == y - 2
           bits == (0 .. m - 1) \X (0 .. LetterHeight - 1) \X (0 .. 7)
           on == {b \in bits : b[3] \in Letters[s[b[1] + 1]][b[2]]}
           inked == {Text!ByteOf(s, b[1], b[2], b[3]) : b \in on}
           inside == u \in 0 .. m * 8 - 1 /\ v \in 0 .. LetterHeight - 1
           bit == (7 - (u % 8)) \in Letters[s[u \div 8 + 1]][v]
<1>1. a \in 0 .. 4 * Text!PlaneSize - 1
    BY SpotIs
<1>2. m \in Nat \ {0} /\ u \in Int /\ v \in Int
    <2>1. x \in Int /\ y \in Int
        BY BarIs, TextAssumption DEF Text!Pixels
    <2>2. m \in 1 .. COLUMNS - 1
        BY TextIs, TextAssumption
    <2>3. Text!Space(s, Text!Width) \in Int
        <3>1. Text!Width = 8 * COLUMNS /\ 0 \in 0 .. 8 * COLUMNS - 1 /\ m \in 1 .. COLUMNS
            BY <2>2, BarIs, TextAssumption
        <3> QED
            BY <3>1, RowIs, TextAssumption
    <2> QED
        BY <2>1, <2>2, <2>3
<1>3. \A i \in 0 .. m - 1, j \in 0 .. LetterHeight - 1, k \in 0 .. 7 :
          Text!ByteOf(s, i, j, k) = a <=> u = 8 * i + (7 - k) /\ v = j
    BY ByteIs, Zenon
<1>4. Text!Shown(Text!text_to_graphics(s), x, y) = IF a \in inked THEN Text!Ink ELSE Text!Blank
    BY <1>1 DEF Text!Shown, Text!text_to_graphics
<1>5. Text!Typeset(s, Text!Space(s, Text!Width) + 4, 2, x, y) = IF inside /\ bit THEN Text!Ink ELSE Text!Blank
    BY DEF Text!Typeset, Text!FONT_WIDTH, Text!Drawn
<1> HIDE DEF a, m, u, v
<1>6. ASSUME inside, bit PROVE a \in inked
    <2> DEFINE i == u \div 8
               k == 7 - (u % 8)
               b == <<i, v, k>>
    <2>1. i \in 0 .. m - 1 /\ k \in 0 .. 7 /\ u = 8 * i + (7 - k) /\ v \in 0 .. LetterHeight - 1
        BY <1>2, <1>6, SMT
    <2>2. k \in Letters[s[i + 1]][v]
        BY <1>6
    <2> HIDE DEF i, k
    <2>3. b \in on /\ b[1] = i /\ b[2] = v /\ b[3] = k
        BY <2>1, <2>2
    <2>4. Text!ByteOf(s, i, v, k) = a
        BY <2>1, <1>3
    <2> QED
        BY <2>3, <2>4
<1>7. ASSUME a \in inked PROVE inside /\ bit
    <2>1. PICK b \in on : a = Text!ByteOf(s, b[1], b[2], b[3])
        BY <1>7
    <2> DEFINE i == b[1]
               j == b[2]
               k == b[3]
    <2>2. i \in 0 .. m - 1 /\ j \in 0 .. LetterHeight - 1 /\ k \in 0 .. 7 /\ k \in Letters[s[i + 1]][j]
        OBVIOUS
    <2>3. a = Text!ByteOf(s, i, j, k)
        BY <2>1
    <2> HIDE DEF i, j, k
    <2>4. u = 8 * i + (7 - k) /\ v = j
        BY <2>2, <2>3, <1>3
    <2>5. u \div 8 = i /\ u % 8 = 7 - k
        BY <2>2, <2>4, <1>2, SMT
    <2>6. 7 - (u % 8) = k
        BY <2>2, <2>5
    <2>7. u \in 0 .. m * 8 - 1
        BY <2>2, <2>4, <1>2
    <2> QED
        BY <2>2, <2>4, <2>5, <2>6, <2>7
<1> HIDE DEF inked, inside, bit
<1>8. Text!Shown(Text!text_to_graphics(s), x, y) = Text!Typeset(s, Text!Space(s, Text!Width) + 4, 2, x, y)
    BY <1>4, <1>5, <1>6, <1>7
<1> QED
    BY <1>8 DEF x, y

(* Every text that is written is shown, whatever the buffers held.         *)
LEMMA TextStep ==
    ASSUME Text!TextShown, Text!Next
    PROVE  Text!TextShown'
<1>1. CASE Text!LoadStatus
    <2>1. text' \in Text!Texts(MaxText) /\ planes' = Text!text_to_graphics(text')
        BY <1>1, PlanesAlike DEF Text!LoadStatus
    <2>2. ASSUME NEW q \in Text!Pixels(Text!Width, Text!Rows)
          PROVE  Text!Shown(planes, q[1], q[2])' =
                     Text!Typeset(text', Text!Space(text', Text!Width) + 4, 2, q[1], q[2])
        <3>1. Text!Shown(Text!text_to_graphics(text'), q[1], q[2]) =
                  Text!Typeset(text', Text!Space(text', Text!Width) + 4, 2, q[1], q[2])
            BY <2>1, PlanesShown
        <3> QED
            BY <3>1, <2>1 DEF Text!Shown
    <2> QED
        BY <2>2, <1>1 DEF Text!LoadStatus, Text!TextShown, Text!Typeset, Text!Space, Text!Shown
<1>2. CASE Text!ShowBar
    <2>1. ASSUME NEW q \in Text!Pixels(Text!Width, Text!Rows)
          PROVE  Text!Shown(status_bar, q[1], q[2])' =
                     Text!Typeset(status', Text!Space(status', Text!Width), 1, q[1], q[2])
        <3>1. Text!Shown(Text!generate_status_bar(status'), q[1], q[2]) =
                  Text!Typeset(status', Text!Space(status', Text!Width), 1, q[1], q[2])
            BY <1>2, BarShown DEF Text!ShowBar
        <3> QED
            BY <3>1, <1>2 DEF Text!Shown, Text!ShowBar
    <2> QED
        BY <2>1, <1>2 DEF Text!ShowBar, Text!TextShown, Text!Typeset, Text!Space, Text!Shown
<1>3. CASE Text!Caption
    <2>1. ASSUME NEW q \in Text!Pixels(Text!CaptionWidth, LetterHeight)
          PROVE  mask'[q[2] * Text!CaptionWidth + q[1]] =
                     Text!Typeset(title', Text!Space(title', Text!CaptionWidth), 0, q[1], q[2])
        <3>1. Text!generate_caption(title', mask)[q[2] * Text!CaptionWidth + q[1]] =
                  Text!Typeset(title', Text!Space(title', Text!CaptionWidth), 0, q[1], q[2])
            BY <1>3, CaptionShown DEF Text!Caption
        <3> QED
            BY <3>1, <1>3 DEF Text!Caption
    <2> QED
        BY <2>1, <1>3 DEF Text!Caption, Text!TextShown, Text!Typeset, Text!Space, Text!Shown
<1> QED
    BY <1>1, <1>2, <1>3 DEF Text!Next

\* Nothing else writes the texts.
LEMMA TextStays ==
    ASSUME Text!TextShown, UNCHANGED textVars
    PROVE  Text!TextShown'
<1>1. planes' = planes /\ text' = text /\ status_bar' = status_bar /\ status' = status /\ mask' = mask /\ title' = title
    BY DEF textVars
<1> QED
    BY <1>1 DEF Text!TextShown, Text!Shown, Text!Typeset, Text!Space

(* Whatever the player does, nothing is written beside the buffer, and the *)
(* view is the maze's in a level without a caption or two ticks at once so *)
(* far; the bars and the captions hold the text they were last given and   *)
(* nothing of an earlier one, for blocks, views and characters of any size *)
(* (modex.c:357-520 and text.c:574-633 of mp2_ssbonde2, and the other      *)
(* versions' texts).                                                       *)
THEOREM DrawnRightHolds == MCSpec => []DrawnRight
<1> DEFINE allVars == <<part, vars, gameVars, captionVars, clockVars, firstVars, textVars>>
           Kept == ViewInv /\ Text!TextShown
<1>1. MCInit => Kept
    BY ViewInit DEF MCInit, Text!Init, Text!TextShown
<1>2. Kept /\ [MCNext]_allVars => Kept'
    <2> SUFFICES ASSUME Kept, [MCNext]_allVars PROVE Kept'
        OBVIOUS
    <2>1. CASE View(Next)
        BY <2>1, ViewStep, TextStays DEF View
    <2>2. CASE OfText(Text!Next)
        BY <2>2, ViewStep, TextStep DEF OfText
    <2>3. CASE UNCHANGED <<vars, textVars>>
        BY <2>3, ViewStep, TextStays
    <2> QED
        BY <2>1, <2>2, <2>3 DEF MCNext, OfCaptions, OfClock, OfFirst
<1>3. Kept => DrawnRight
    BY ViewIsSafe DEF DrawnRight
<1> QED
    BY <1>1, <1>2, <1>3, PTL DEF MCSpec

-----------------------------------------------------------------------------
(***************************************************************************)
(* The view implements Picture.                                            *)
(***************************************************************************)

\* What a pixel may show: its own place, and one of four things there.
Own(p) == {p[1]} \X {p[2]} \X {"mist", "seen", "player", "black"}

\* So do the pixels in view, and the ground under the player.
PlacesOwn ==
    /\ \A p \in Pixels(show_x, show_y) : ByteAt(p) \in Own(p)
    /\ pc \in {"drawn", "showing", "shown"} =>
           \A p \in PlayerCells : ground[<<p[1] - play_x, p[2] - play_y>>] \in Own(p)

\* Where a pixel of the screen is in a page.
PageAt(page, p) == page[p[1] % 4][(p[1] \div 4) + p[2] * SCROLL_X_WIDTH]

\* The hidden page has the planes that were copied.
PlanesCopied ==
    /\ start \in {1, 2} /\ copied \in 0 .. 4
    /\ pc # "showing" => copied = 0
    /\ \A i \in {1, 2} : i \in DOMAIN mem /\ DOMAIN mem[i] = 0 .. 3
    /\ \A p \in Pixels(0, 0) :
           p[1] % 4 < copied => PageAt(mem[HiddenPage], p) = ByteAt(<<show_x + p[1], show_y + p[2]>>)

\* The inductive invariant of the refinement.
PictureInv == ViewInv /\ PlacesOwn /\ PlanesCopied

(* The four planes begin where the view does, shifted by its column: a     *)
(* pixel of the screen is copied from the byte of the pixel in view.       *)
LEMMA PlaneStartIs ==
    ASSUME ViewPlaced, NEW p \in Pixels(0, 0)
    PROVE  LET k == (p[1] \div 4) + p[2] * SCROLL_X_WIDTH
           IN  /\ p[1] % 4 \in 0 .. 3 /\ k \in 0 .. SCROLL_SIZE - 1
               /\ <<show_x + p[1], show_y + p[2]>> \in Pixels(show_x, show_y)
               /\ PlaneStart(p[1] % 4) + k = Address(img3_off, show_x + p[1], show_y + p[2])
               /\ PlaneStart(p[1] % 4) + k \in Addresses
<1> DEFINE x == p[1]
           y == p[2]
           w == SCROLL_X_WIDTH
           i == x % 4
           c == x \div 4
           r == show_x % 4
           s == show_x \div 4
           k == c + y * w
           q == <<show_x + x, show_y + y>>
           col == (show_x + x) \div 4
           pl == (show_x + x) % 4
           carry == IF 3 - r < i THEN 1 ELSE 0
           plane == (3 - r - i + 4) % 4
<1>1. /\ show_x \in Int /\ show_y \in Int /\ img3_off \in Int /\ Fits(img3_off, show_x, show_y)
    BY DEF ViewPlaced
<1>2. x \in 0 .. SCROLL_X_DIM - 1 /\ y \in 0 .. SCROLL_Y_DIM - 1
    <2>1. 0 \in Int /\ p \in Pixels(0, 0)
        OBVIOUS
    <2>2. p[1] \in 0 .. 0 + SCROLL_X_DIM - 1 /\ p[2] \in 0 .. 0 + SCROLL_Y_DIM - 1
        BY <2>1, PixelIs, Zenon
    <2> QED
        BY <2>2, ViewAssumption
<1>3. /\ w \in Nat \ {0} /\ SCROLL_X_DIM = 4 * w /\ SCROLL_Y_DIM \in Nat \ {0}
      /\ SCROLL_SIZE = SCROLL_Y_DIM * w /\ SCROLL_SIZE \in Nat
    BY Sizes, ViewAssumption
<1>4. q \in Pixels(show_x, show_y)
    BY <1>1, <1>2, <1>3 DEF Pixels
<1> HIDE DEF x, y, w
<1>5. x \in Int /\ y \in Int /\ i \in 0 .. 3 /\ c \in Int /\ x = 4 * c + i
    BY <1>2, <1>3, SMT
<1>6. r \in 0 .. 3 /\ s \in Int /\ show_x = 4 * s + r
    BY <1>1, SMT
<1> HIDE DEF i, c, r, s
<1>7. col = s + c + carry /\ pl = 3 - plane /\ plane \in 0 .. 3
    BY <1>1, <1>5, <1>6, SMT
<1>8. k \in 0 .. SCROLL_SIZE - 1
    <2>1. c \in 0 .. w - 1
        BY <1>2, <1>3, <1>5
    <2>2. y * w \in Int /\ 0 <= y * w
        BY <1>2, <1>3, SMT
    <2>3. y * w + w <= SCROLL_SIZE
        <3> DEFINE d == SCROLL_Y_DIM - y
        <3>1. d \in Nat \ {0} /\ SCROLL_Y_DIM = y + d
            BY <1>2, <1>3
        <3> HIDE DEF d
        <3>2. (y + d) * w = y * w + d * w
            BY <3>1, <1>3, <1>5, SMT
        <3>3. d * w >= w /\ d * w \in Int
            BY <3>1, <1>3, SMT
        <3> QED
            BY <3>1, <3>2, <3>3, <2>2, <1>3
    <2> QED
        BY <2>1, <2>2, <2>3, <1>3
<1>9. PlaneStart(i) = img3_off + s + show_y * w + plane * SCROLL_SIZE + carry
    BY DEF PlaneStart, r, s, w
<1>10. Address(img3_off, show_x + x, show_y + y) = img3_off + col + (show_y + y) * w + (3 - pl) * SCROLL_SIZE
    BY DEF Address, w
<1>11. (show_y + y) * w = show_y * w + y * w /\ show_y * w \in Int /\ y * w \in Int
    BY <1>1, <1>3, <1>5, SMT
<1> HIDE DEF col, pl, plane
<1>12. 3 - pl = plane /\ plane * SCROLL_SIZE \in Int
    BY <1>3, <1>7, SMT
<1>13. PlaneStart(i) + k = Address(img3_off, show_x + x, show_y + y)
    <2> DEFINE b == plane * SCROLL_SIZE
    <2>1. (3 - pl) * SCROLL_SIZE = b /\ b \in Int
        BY <1>12
    <2> HIDE DEF b
    <2>2. PlaneStart(i) = img3_off + s + show_y * w + b + carry
        BY <1>9 DEF b
    <2> QED
        BY <2>1, <2>2, <1>1, <1>5, <1>6, <1>7, <1>10, <1>11
<1>14. Address(img3_off, show_x + x, show_y + y) \in Addresses
    <2>1. Address(img3_off, q[1], q[2]) \in Addresses
        <3> HIDE DEF q
        <3> QED
            BY <1>1, <1>4, FitsMeans
    <2> QED
        BY <2>1
<1> QED
    BY <1>4, <1>5, <1>8, <1>13, <1>14 DEF x, y, w, i, c

(* A rectangle of a size the code draws holds all the pixels that changed. *)
LEMMA DrawIs ==
    ASSUME ViewPlaced, UNCHANGED <<show_x, show_y, screen>>,
           NEW size \in {<<BLOCK_X_DIM, BLOCK_Y_DIM>>, <<TEXT_LEN, FONT_HEIGHT>>},
           NEW c \in Pixels(show_x, show_y), NEW P,
           \A p \in P : p \in (c[1] .. c[1] + size[1] - 1) \X (c[2] .. c[2] + size[2] - 1),
           \A p \in Pixels(show_x, show_y) : p \notin P => ByteAt(p)' = ByteAt(p)
    PROVE  Pic!Draw
<1>1. Pic!PixelsOf(<<show_x, show_y>>) = Pixels(show_x, show_y)
    BY DEF Pic!PixelsOf, Pixels
<1>2. \A p \in Pixels(show_x, show_y) \ ((c[1] .. c[1] + size[1] - 1) \X (c[2] .. c[2] + size[2] - 1)) :
          pic'[p] = pic[p]
    BY DEF pic, ByteAt, Pixels
<1>3. c \in Pic!PixelsOf(<<show_x, show_y>>)
    BY <1>1
<1>4. UNCHANGED <<<<show_x, show_y>>, screen>>
    OBVIOUS
<1> QED
    BY <1>1, <1>2, <1>3, <1>4 DEF Pic!Draw

\* What the view shows of the places is a picture, whole.
LEMMA WholeIs == PlacesOwn => Pic!Whole
<1> SUFFICES ASSUME PlacesOwn PROVE Pic!Whole
    OBVIOUS
<1>1. Pic!PixelsOf(<<show_x, show_y>>) = Pixels(show_x, show_y)
    BY DEF Pic!PixelsOf, Pixels
<1>2. DOMAIN pic = Pixels(show_x, show_y) /\ \A p \in Pixels(show_x, show_y) : pic[p] = ByteAt(p)
    BY DEF pic, ByteAt
<1> QED
    BY <1>1, <1>2 DEF PlacesOwn, Own, Pic!Whole, Pic!InPlace

\* While nothing is copied, what is drawn does not matter to the pages.
LEMMA NoneCopied ==
    ASSUME PlanesCopied, UNCHANGED videoVars, copied = 0
    PROVE  PlanesCopied' /\ screen' = screen
<1>1. mem' = mem /\ start' = start /\ copied' = copied
    BY DEF videoVars
<1>2. \A p \in Pixels(0, 0)' : ~(p[1] % 4 < 0)
    <2>1. ASSUME NEW p \in Pixels(0, 0) PROVE ~(p[1] % 4 < 0)
        <3>1. 0 \in Int /\ p \in Pixels(0, 0)
            OBVIOUS
        <3>2. p[1] \in 0 .. 0 + SCROLL_X_DIM - 1
            BY <3>1, PixelIs, Zenon
        <3> QED
            BY <3>2, ViewAssumption
    <2> QED
        BY <2>1 DEF Pixels
<1> QED
    BY <1>1, <1>2 DEF PlanesCopied, screen

\* Drawing where the view is, with things at their places.
LEMMA DrawnOwn ==
    ASSUME PlacesOwn, UNCHANGED <<windowVars, play_x, play_y>>,
           \A p \in Pixels(show_x, show_y) : ByteAt(p)' \in Own(p),
           pc' \in {"drawn", "showing", "shown"} =>
               \A p \in PlayerCells : ground'[<<p[1] - play_x, p[2] - play_y>>] \in Own(p)
    PROVE  PlacesOwn'
<1>1. /\ show_x' = show_x /\ show_y' = show_y /\ img3_off' = img3_off
      /\ play_x' = play_x /\ play_y' = play_y
    BY DEF windowVars
<1>2. PlayerCells' = PlayerCells
    BY <1>1 DEF PlayerCells, Pixels, Cells
<1>3. Pixels(show_x, show_y)' = Pixels(show_x, show_y)
    BY <1>1 DEF Pixels
<1>4. \A p \in Pixels(show_x, show_y) : ByteAt(p)' \in Own(p)
    OBVIOUS
<1> QED
    BY <1>1, <1>2, <1>3, <1>4 DEF PlacesOwn, Own

\* A block that is drawn changes the picture in one rectangle, if at all.
LEMMA BlockDraws ==
    ASSUME ViewPlaced, UNCHANGED <<show_x, show_y, screen>>, NEW bx \in Int, NEW by \in Int,
           \A p \in Pixels(show_x, show_y) : p \notin InBlock(Cells, bx, by) => ByteAt(p)' = ByteAt(p)
    PROVE  Pic!Draw
<1> DEFINE P == InBlock(Cells, bx, by)
           size == <<BLOCK_X_DIM, BLOCK_Y_DIM>>
           Box(c) == (c[1] .. c[1] + size[1] - 1) \X (c[2] .. c[2] + size[2] - 1)
<1>1. show_x \in Int /\ show_y \in Int
    BY DEF ViewPlaced
<1>2. ASSUME NEW p \in P
      PROVE  /\ p = <<p[1], p[2]>> /\ p \in Pixels(show_x, show_y)
             /\ p[1] \in bx .. bx + BLOCK_X_DIM - 1 /\ p[2] \in by .. by + BLOCK_Y_DIM - 1
    <2>1. p \in Pixels(show_x, show_y) /\ <<p[1] - bx, p[2] - by>> \in Cells
        BY DEF InBlock
    <2>2. p = <<p[1], p[2]>> /\ p[1] \in Int /\ p[2] \in Int
        BY <2>1, PixelNumbers
    <2> QED
        BY <2>1, <2>2, ViewAssumption DEF Cells
<1>3. CASE P = {}
    <2>1. <<show_x, show_y>> \in Pixels(show_x, show_y)
        BY <1>1, ViewAssumption DEF Pixels
    <2>2. \A p \in P : p \in Box(<<show_x, show_y>>)
        BY <1>3
    <2> QED
        BY <2>1, <2>2, DrawIs
<1>4. CASE P # {}
    <2> DEFINE c == <<MaxOf(bx, show_x), MaxOf(by, show_y)>>
    <2>1. PICK q \in P : TRUE
        BY <1>4
    <2>2. /\ q[1] \in show_x .. show_x + SCROLL_X_DIM - 1 /\ q[2] \in show_y .. show_y + SCROLL_Y_DIM - 1
          /\ q[1] \in bx .. bx + BLOCK_X_DIM - 1 /\ q[2] \in by .. by + BLOCK_Y_DIM - 1
        BY <1>2 DEF Pixels
    <2>3. c \in Pixels(show_x, show_y)
        BY <1>1, <2>2, ViewAssumption DEF Pixels, MaxOf
    <2>4. ASSUME NEW p \in P PROVE p \in Box(c)
        <3>1. /\ p = <<p[1], p[2]>> /\ p[1] >= show_x /\ p[2] >= show_y /\ p[1] \in Int /\ p[2] \in Int
              /\ p[1] \in bx .. bx + BLOCK_X_DIM - 1 /\ p[2] \in by .. by + BLOCK_Y_DIM - 1
            BY <1>1, <1>2 DEF Pixels
        <3> QED
            BY <1>1, <3>1, ViewAssumption DEF MaxOf
    <2> QED
        BY <2>3, <2>4, DrawIs
<1> QED
    BY <1>3, <1>4

\* A square that is unveiled is drawn, over what is in view of it.
LEMMA UnveilDraws == PictureInv /\ Unveil => PlacesOwn' /\ PlanesCopied' /\ Pic!Draw
<1> SUFFICES ASSUME PictureInv, Unveil PROVE PlacesOwn' /\ PlanesCopied' /\ Pic!Draw
    OBVIOUS
<1>1. ViewPlaced /\ PlayerInView /\ PlacesOwn /\ PlanesCopied
    BY DEF PictureInv, ViewInv
<1>2. PICK bx \in Int, by \in Int :
          \A p \in Pixels(show_x, show_y) :
              ByteAt(p)' = IF p \in InBlock(Cells, bx, by) THEN <<p[1], p[2], "seen">> ELSE ByteAt(p)
    BY <1>1, UnveilIs
<1>3. /\ UNCHANGED windowVars /\ play_x' = play_x /\ play_y' = play_y /\ pc' = pc /\ ground' = ground
      /\ UNCHANGED videoVars /\ pc \in {"begun", "idle", "drawn"}
    BY DEF Unveil, BetweenTicks
<1>4. copied = 0
    BY <1>1, <1>3 DEF PlanesCopied
<1>5. PlanesCopied' /\ screen' = screen
    BY <1>1, <1>3, <1>4, NoneCopied
<1>6. ASSUME NEW p \in Pixels(show_x, show_y) PROVE ByteAt(p)' \in Own(p)
    BY <1>1, <1>2 DEF PlacesOwn, Own
<1>7. PlacesOwn'
    <2>1. pc' \in {"drawn", "showing", "shown"} =>
              \A p \in PlayerCells : ground'[<<p[1] - play_x, p[2] - play_y>>] \in Own(p)
        BY <1>1, <1>3 DEF PlacesOwn
    <2> QED
        BY <1>1, <1>3, <1>6, <2>1, DrawnOwn
<1>8. Pic!Draw
    BY <1>1, <1>2, <1>3, <1>5, BlockDraws DEF windowVars
<1> QED
    BY <1>5, <1>7, <1>8

\* The player is drawn, and the ground under it kept.
LEMMA DrawPlayerDraws == PictureInv /\ DrawPlayer => PlacesOwn' /\ PlanesCopied' /\ Pic!Draw
<1> SUFFICES ASSUME PictureInv, DrawPlayer PROVE PlacesOwn' /\ PlanesCopied' /\ Pic!Draw
    OBVIOUS
<1>1. ViewPlaced /\ PlayerInView /\ PlacesOwn /\ PlanesCopied
    BY DEF PictureInv, ViewInv
<1>2. /\ \A p \in Pixels(show_x, show_y) :
             ByteAt(p)' = IF p \in InBlock(Cells, play_x, play_y) \ InBlock(NotMasked, play_x, play_y)
                          THEN <<p[1], p[2], "player">> ELSE ByteAt(p)
      /\ \A p \in PlayerCells : ground'[<<p[1] - play_x, p[2] - play_y>>] = ByteAt(p)
    BY <1>1, DrawPlayerIs
<1>3. /\ UNCHANGED windowVars /\ play_x' = play_x /\ play_y' = play_y
      /\ UNCHANGED videoVars /\ pc \in {"moved", "begun"}
    BY DEF DrawPlayer
<1>4. copied = 0
    BY <1>1, <1>3 DEF PlanesCopied
<1>5. PlanesCopied' /\ screen' = screen
    BY <1>1, <1>3, <1>4, NoneCopied
<1>6. ASSUME NEW p \in Pixels(show_x, show_y) PROVE ByteAt(p)' \in Own(p)
    BY <1>1, <1>2 DEF PlacesOwn, Own
<1>7. PlacesOwn'
    <2>1. \A p \in PlayerCells : ground'[<<p[1] - play_x, p[2] - play_y>>] \in Own(p)
        BY <1>1, <1>2 DEF PlacesOwn, PlayerCells
    <2> QED
        BY <1>1, <1>3, <1>6, <2>1, DrawnOwn
<1>8. Pic!Draw
    <2>1. play_x \in Int /\ play_y \in Int
        BY <1>1 DEF PlayerInView
    <2>2. show_x' = show_x /\ show_y' = show_y
        BY <1>3 DEF windowVars
    <2>3. \A p \in Pixels(show_x, show_y) : p \notin InBlock(Cells, play_x, play_y) => ByteAt(p)' = ByteAt(p)
        BY <1>2
    <2> QED
        BY <1>1, <1>5, <2>1, <2>2, <2>3, BlockDraws
<1> QED
    BY <1>5, <1>7, <1>8

\* The ground is drawn where the player was.
LEMMA RestoreDraws == PictureInv /\ Restore => PlacesOwn' /\ PlanesCopied' /\ Pic!Draw
<1> SUFFICES ASSUME PictureInv, Restore PROVE PlacesOwn' /\ PlanesCopied' /\ Pic!Draw
    OBVIOUS
<1>1. ViewPlaced /\ PlayerInView /\ PlacesOwn /\ PlanesCopied
    BY DEF PictureInv, ViewInv
<1>2. \A p \in Pixels(show_x, show_y) :
          ByteAt(p)' = IF p \in PlayerCells THEN ground[<<p[1] - play_x, p[2] - play_y>>] ELSE ByteAt(p)
    BY <1>1, RestoreIs
<1>3. /\ UNCHANGED windowVars /\ play_x' = play_x /\ play_y' = play_y
      /\ UNCHANGED videoVars /\ pc = "shown" /\ pc' = "idle"
    BY DEF Restore, playVars
<1>4. copied = 0
    BY <1>1, <1>3 DEF PlanesCopied
<1>5. PlanesCopied' /\ screen' = screen
    BY <1>1, <1>3, <1>4, NoneCopied
<1>6. ASSUME NEW p \in Pixels(show_x, show_y) PROVE ByteAt(p)' \in Own(p)
    BY <1>1, <1>2, <1>3 DEF PlacesOwn
<1>7. PlacesOwn'
    BY <1>1, <1>3, <1>6, DrawnOwn
<1>8. Pic!Draw
    <2>1. play_x \in Int /\ play_y \in Int
        BY <1>1 DEF PlayerInView
    <2>2. show_x' = show_x /\ show_y' = show_y
        BY <1>3 DEF windowVars
    <2>3. \A p \in Pixels(show_x, show_y) : p \notin InBlock(Cells, play_x, play_y) => ByteAt(p)' = ByteAt(p)
        BY <1>2 DEF PlayerCells, InBlock
    <2> QED
        BY <1>1, <1>5, <2>1, <2>2, <2>3, BlockDraws
<1> QED
    BY <1>5, <1>7, <1>8

\* A caption is a rectangle of its own.
LEMMA CaptionDraws == PictureInv /\ Caption => PlacesOwn' /\ PlanesCopied' /\ Pic!Draw
<1> SUFFICES ASSUME PictureInv, Caption PROVE PlacesOwn' /\ PlanesCopied' /\ Pic!Draw
    OBVIOUS
<1>1. ViewPlaced /\ PlayerInView /\ PlacesOwn /\ PlanesCopied
    BY DEF PictureInv, ViewInv
<1>2. PICK left \in Int, top \in Int :
          LET box == (left .. left + TEXT_LEN - 1) \X (top .. top + FONT_HEIGHT - 1)
          IN  /\ <<left, top>> \in Pixels(show_x, show_y) /\ box \subseteq Pixels(show_x, show_y)
              /\ \A p \in Pixels(show_x, show_y) :
                     ByteAt(p)' = IF p \in box THEN <<p[1], p[2], "black">> ELSE ByteAt(p)
    BY <1>1, CaptionIs
<1> DEFINE size == <<TEXT_LEN, FONT_HEIGHT>>
           c == <<left, top>>
           P == (c[1] .. c[1] + size[1] - 1) \X (c[2] .. c[2] + size[2] - 1)
<1>3. /\ UNCHANGED windowVars /\ play_x' = play_x /\ play_y' = play_y /\ pc' = pc /\ ground' = ground
      /\ UNCHANGED videoVars /\ pc \in {"idle", "drawn"}
    BY DEF Caption, BetweenTicks
<1>4. copied = 0
    BY <1>1, <1>3 DEF PlanesCopied
<1>5. PlanesCopied' /\ screen' = screen
    BY <1>1, <1>3, <1>4, NoneCopied
<1>6. ASSUME NEW p \in Pixels(show_x, show_y) PROVE ByteAt(p)' \in Own(p)
    BY <1>1, <1>2 DEF PlacesOwn, Own
<1>7. PlacesOwn'
    <2>1. pc' \in {"drawn", "showing", "shown"} =>
              \A p \in PlayerCells : ground'[<<p[1] - play_x, p[2] - play_y>>] \in Own(p)
        BY <1>1, <1>3 DEF PlacesOwn
    <2> QED
        BY <1>1, <1>3, <1>6, <2>1, DrawnOwn
<1>8. Pic!Draw
    <2>1. c \in Pixels(show_x, show_y)
        BY <1>2
    <2>2. show_x' = show_x /\ show_y' = show_y
        BY <1>3 DEF windowVars
    <2>3. \A p \in Pixels(show_x, show_y) : p \notin P => ByteAt(p)' = ByteAt(p)
        BY <1>2
    <2>4. \A p \in P : p \in (c[1] .. c[1] + size[1] - 1) \X (c[2] .. c[2] + size[2] - 1)
        OBVIOUS
    <2>5. size \in {<<BLOCK_X_DIM, BLOCK_Y_DIM>>, <<TEXT_LEN, FONT_HEIGHT>>}
        OBVIOUS
    <2>6. UNCHANGED <<show_x, show_y, screen>>
        BY <1>5, <2>2
    <2> HIDE DEF size, c
    <2> QED
        BY <1>1, <2>1, <2>3, <2>4, <2>5, <2>6, DrawIs
<1> QED
    BY <1>5, <1>7, <1>8

\* The view moves by a pixel, or not at all, and what stays in it is kept.
LEMMA MoveScrolls ==
    PictureInv /\ Move => PlacesOwn' /\ PlanesCopied' /\ (Pic!Scroll \/ UNCHANGED Pic!picVars)
<1> SUFFICES ASSUME PictureInv, Move
             PROVE  PlacesOwn' /\ PlanesCopied' /\ (Pic!Scroll \/ UNCHANGED Pic!picVars)
    OBVIOUS
<1>1. ViewPlaced /\ PlayerInView /\ PlacesOwn /\ PlanesCopied
    BY DEF PictureInv, ViewInv
<1>2. /\ \/ show_x' \in {show_x - 1, show_x, show_x + 1} /\ show_y' = show_y
         \/ show_y' \in {show_y - 1, show_y, show_y + 1} /\ show_x' = show_x
      /\ \A p \in Pixels(show_x', show_y') :
             ByteAt(p)' = IF p \in Pixels(show_x, show_y) THEN ByteAt(p) ELSE MapAt(p)
    BY <1>1, MoveIs
<1>3. UNCHANGED videoVars /\ pc \in {"idle", "drawn"} /\ pc' = "moved"
    BY DEF Move, BetweenTicks
<1>4. copied = 0
    BY <1>1, <1>3 DEF PlanesCopied
<1>5. PlanesCopied' /\ screen' = screen
    BY <1>1, <1>3, <1>4, NoneCopied
<1>6. ASSUME NEW p \in Pixels(show_x', show_y') PROVE ByteAt(p)' \in Own(p)
    <2>1. MapAt(p) \in Own(p)
        BY DEF MapAt, Own, Shows
    <2> QED
        BY <1>1, <1>2, <2>1 DEF PlacesOwn
<1>7. PlacesOwn'
    <2>1. \A p \in Pixels(show_x', show_y') : ByteAt(p)' \in Own(p)
        BY <1>6
    <2> QED
        BY <1>3, <2>1 DEF PlacesOwn, Own, Pixels
<1>8. Pic!PixelsOf(<<show_x, show_y>>) = Pixels(show_x, show_y)
    BY DEF Pic!PixelsOf, Pixels
<1>9. Pic!PixelsOf(<<show_x', show_y'>>) = Pixels(show_x', show_y')
    BY DEF Pic!PixelsOf, Pixels
<1>10. pic' = [p \in Pixels(show_x', show_y') |-> ByteAt(p)'] /\ pic = [p \in Pixels(show_x, show_y) |-> ByteAt(p)]
    BY DEF pic, ByteAt, Pixels, Address, SCROLL_X_WIDTH, SCROLL_SIZE
<1>11. \A p \in Pixels(show_x, show_y) \intersect Pixels(show_x', show_y') : pic'[p] = pic[p]
    BY <1>2, <1>10
<1>12. show_x \in Int /\ show_y \in Int
    BY <1>1 DEF ViewPlaced
<1>13. CASE show_x' = show_x /\ show_y' = show_y
    <2>1. \A p \in Pixels(show_x, show_y) : ByteAt(p)' = ByteAt(p)
        BY <1>2, <1>13
    <2>2. pic' = pic
        BY <1>10, <1>13, <2>1
    <2> QED
        BY <1>5, <1>7, <1>13, <2>2 DEF Pic!picVars
<1>14. CASE ~(show_x' = show_x /\ show_y' = show_y)
    <2>1. <<show_x', show_y'>> \in {<<show_x + 1, show_y>>, <<show_x - 1, show_y>>,
                                    <<show_x, show_y + 1>>, <<show_x, show_y - 1>>}
        BY <1>2, <1>12, <1>14
    <2>2. Pic!Scroll
        BY <1>5, <1>8, <1>9, <1>11, <2>1 DEF Pic!Scroll
    <2> QED
        BY <1>5, <1>7, <2>2
<1> QED
    BY <1>13, <1>14

\* Another level: the map is drawn, where the view begins.
LEMMA NewLevelJumps == PictureInv /\ NewLevel => PlacesOwn' /\ PlanesCopied' /\ Pic!Jump
<1> SUFFICES ASSUME PictureInv, NewLevel PROVE PlacesOwn' /\ PlanesCopied' /\ Pic!Jump
    OBVIOUS
<1>1. ViewInv /\ FrameOrder /\ PlanesCopied
    BY DEF PictureInv, ViewInv
<1>2. UNCHANGED videoVars /\ pc = "idle" /\ pc' = "begun" /\ ticks' = ticks /\ clean' = TRUE
      /\ show_x' = SHOW_MIN /\ show_y' = SHOW_MIN
    BY DEF NewLevel
<1>3. copied = 0
    BY <1>1, <1>2 DEF PlanesCopied
<1>4. PlanesCopied' /\ screen' = screen
    BY <1>1, <1>2, <1>3, NoneCopied
<1>5. PictureKept'
    BY <1>1, NewLevelKeeps DEF ViewInv
<1>6. \A p \in Pixels(show_x', show_y') : ByteAt(p)' = MapAt(p)'
    <2>1. clean' /\ ticks' = 0
        BY <1>1, <1>2 DEF FrameOrder
    <2>2. Pixels(show_x, show_y)' = Pixels(show_x', show_y')
        BY DEF Pixels
    <2> QED
        BY <1>5, <2>1, <2>2 DEF PictureKept
<1>7. \A p \in Pixels(show_x', show_y') : ByteAt(p)' \in {p[1]} \X {p[2]} \X {"mist", "seen"}
    <2>1. ASSUME NEW p \in Pixels(show_x', show_y') PROVE MapAt(p)' \in {p[1]} \X {p[2]} \X {"mist", "seen"}
        <3>1. MapAt(p)' = <<p[1], p[2], Shows(seen', p[1], p[2])>>
            BY DEF MapAt, Shows
        <3>2. Shows(seen', p[1], p[2]) \in {"mist", "seen"}
            BY DEF Shows
        <3> QED
            BY <3>1, <3>2
    <2> QED
        BY <1>6, <2>1
<1>8. PlacesOwn'
    BY <1>2, <1>7 DEF PlacesOwn, Own, Pixels
<1>9. Pic!InPlace({"mist", "seen"})'
    <2>1. pic' = [p \in Pixels(show_x', show_y') |-> ByteAt(p)']
        BY DEF pic, ByteAt, Pixels, Address, SCROLL_X_WIDTH, SCROLL_SIZE
    <2>2. Pic!PixelsOf(<<show_x', show_y'>>) = Pixels(show_x', show_y')
        BY DEF Pic!PixelsOf, Pixels
    <2>3. \A p \in Pic!PixelsOf(<<show_x', show_y'>>) : pic'[p] \in {p[1]} \X {p[2]} \X {"mist", "seen"}
        BY <1>7, <2>1, <2>2
    <2> QED
        BY <2>3 DEF Pic!InPlace, Pic!PixelsOf
<1>10. Pic!Jump
    BY <1>2, <1>4, <1>9 DEF Pic!Jump
<1> QED
    BY <1>4, <1>8, <1>10

\* One more plane is copied: its pixels are those in view.
LEMMA CopyPlaneCopies == PictureInv /\ CopyPlane => PlacesOwn' /\ PlanesCopied' /\ UNCHANGED Pic!picVars
<1> SUFFICES ASSUME PictureInv, CopyPlane PROVE PlacesOwn' /\ PlanesCopied' /\ UNCHANGED Pic!picVars
    OBVIOUS
<1>1. ViewPlaced /\ PlacesOwn /\ PlanesCopied
    BY DEF PictureInv, ViewInv
<1> DEFINE Byte(k) == IF PlaneStart(copied) + k \in Addresses THEN build[PlaneStart(copied) + k] ELSE Junk
           plane == [k \in 0 .. SCROLL_SIZE - 1 |-> Byte(k)]
<1>2. /\ show_x' = show_x /\ show_y' = show_y /\ img3_off' = img3_off /\ build' = build
      /\ play_x' = play_x /\ play_y' = play_y /\ ground' = ground /\ start' = start
      /\ pc \in {"drawn", "showing"} /\ pc' = "showing" /\ copied < 4 /\ copied' = copied + 1
    BY DEF CopyPlane, windowVars, drawVars, playVars
<1>3. mem' = [mem EXCEPT ![HiddenPage][copied] = plane]
    BY DEF CopyPlane
<1>4. /\ start \in {1, 2} /\ HiddenPage \in {1, 2} /\ HiddenPage # start /\ copied \in 0 .. 3
      /\ \A i \in {1, 2} : i \in DOMAIN mem /\ DOMAIN mem[i] = 0 .. 3
    BY <1>1, <1>2 DEF PlanesCopied, HiddenPage
<1>5. /\ mem'[start] = mem[start] /\ mem'[HiddenPage][copied] = plane
      /\ \A i \in {1, 2} : i \in DOMAIN mem' /\ DOMAIN mem'[i] = 0 .. 3
      /\ \A i \in 0 .. 3 : i # copied => mem'[HiddenPage][i] = mem[HiddenPage][i]
    <2> HIDE DEF plane
    <2> QED
        BY <1>3, <1>4
<1>6. PlacesOwn'
    <2>1. \A p \in Pixels(show_x, show_y) : ByteAt(p)' \in Own(p)
        BY <1>1, <1>2 DEF PlacesOwn, ByteAt, Address, SCROLL_X_WIDTH, SCROLL_SIZE
    <2>2. \A p \in PlayerCells : ground'[<<p[1] - play_x, p[2] - play_y>>] \in Own(p)
        BY <1>1, <1>2 DEF PlacesOwn
    <2> QED
        BY <1>1, <1>2, <2>1, <2>2, DrawnOwn DEF windowVars
<1>7. ASSUME NEW p \in Pixels(0, 0), p[1] % 4 < copied + 1
      PROVE  PageAt(mem'[HiddenPage], p) = ByteAt(<<show_x + p[1], show_y + p[2]>>)
    <2> DEFINE i == p[1] % 4
               k == (p[1] \div 4) + p[2] * SCROLL_X_WIDTH
    <2>1. /\ i \in 0 .. 3 /\ k \in 0 .. SCROLL_SIZE - 1
          /\ PlaneStart(i) + k = Address(img3_off, show_x + p[1], show_y + p[2])
          /\ PlaneStart(i) + k \in Addresses
        BY <1>1, PlaneStartIs
    <2>2. PageAt(mem'[HiddenPage], p) = mem'[HiddenPage][i][k] /\ PageAt(mem[HiddenPage], p) = mem[HiddenPage][i][k]
        BY DEF PageAt
    <2>3. ByteAt(<<show_x + p[1], show_y + p[2]>>) = build[Address(img3_off, show_x + p[1], show_y + p[2])]
        BY DEF ByteAt
    <2>4. i < copied \/ i = copied
        <3>1. i < copied + 1
            BY <1>7
        <3> HIDE DEF i
        <3> QED
            BY <2>1, <3>1, <1>4
    <2>5. CASE i < copied
        <3>1. PageAt(mem[HiddenPage], p) = ByteAt(<<show_x + p[1], show_y + p[2]>>)
            BY <1>1, <2>5 DEF PlanesCopied
        <3>2. i # copied
            BY <1>4, <2>1, <2>5
        <3> HIDE DEF i, k
        <3> QED
            BY <1>5, <2>1, <2>2, <3>1, <3>2
    <2>6. CASE i = copied
        <3> HIDE DEF i, k
        <3>1. plane[k] = build[PlaneStart(i) + k]
            BY <2>1, <2>6
        <3> HIDE DEF plane
        <3> QED
            BY <1>5, <2>1, <2>2, <2>3, <2>6, <3>1
    <2> QED
        BY <2>4, <2>5, <2>6
<1>8. PlanesCopied'
    <2>1. HiddenPage' = HiddenPage
        BY <1>2 DEF HiddenPage
    <2>2. copied' \in 0 .. 4
        BY <1>2, <1>4
    <2>3. ASSUME NEW p \in Pixels(0, 0)', (p[1] % 4 < copied)'
          PROVE  (PageAt(mem[HiddenPage], p) = ByteAt(<<show_x + p[1], show_y + p[2]>>))'
        <3>1. p \in Pixels(0, 0) /\ p[1] % 4 < copied + 1
            BY <1>2, <2>3 DEF Pixels
        <3>2. PageAt(mem'[HiddenPage], p) = ByteAt(<<show_x + p[1], show_y + p[2]>>)
            BY <1>7, <3>1
        <3>3. PageAt(mem[HiddenPage], p)' = PageAt(mem'[HiddenPage], p)
            BY <2>1 DEF PageAt, SCROLL_X_WIDTH
        <3>4. ByteAt(<<show_x + p[1], show_y + p[2]>>)' = ByteAt(<<show_x + p[1], show_y + p[2]>>)
            BY <1>2 DEF ByteAt, Address, SCROLL_X_WIDTH, SCROLL_SIZE
        <3> QED
            BY <3>2, <3>3, <3>4
    <2> QED
        BY <1>2, <1>4, <1>5, <2>2, <2>3 DEF PlanesCopied
<1>9. UNCHANGED Pic!picVars
    <2>1. pic' = pic
        BY <1>2 DEF pic, Pixels, Address, SCROLL_X_WIDTH, SCROLL_SIZE
    <2>2. screen' = screen
        BY <1>2, <1>5 DEF screen, SCROLL_X_WIDTH
    <2> QED
        BY <1>2, <2>1, <2>2 DEF Pic!picVars
<1> QED
    BY <1>6, <1>8, <1>9

\* The page that was filled is shown: it has the picture.
LEMMA FlipShows == PictureInv /\ Flip => PlacesOwn' /\ PlanesCopied' /\ Pic!Show
<1> SUFFICES ASSUME PictureInv, Flip PROVE PlacesOwn' /\ PlanesCopied' /\ Pic!Show
    OBVIOUS
<1>1. ViewPlaced /\ PlacesOwn /\ PlanesCopied
    BY DEF PictureInv, ViewInv
<1>2. /\ show_x' = show_x /\ show_y' = show_y /\ img3_off' = img3_off /\ build' = build
      /\ play_x' = play_x /\ play_y' = play_y /\ ground' = ground /\ start' = 3 - start
      /\ pc = "showing" /\ pc' = "shown" /\ copied = 4 /\ copied' = 0
    BY DEF Flip, windowVars, drawVars, playVars
<1>3. mem' = [mem EXCEPT ![start] = Blank]
    BY DEF Flip
<1>4. /\ start \in {1, 2} /\ HiddenPage \in {1, 2} /\ HiddenPage # start /\ start' = HiddenPage
      /\ \A i \in {1, 2} : i \in DOMAIN mem /\ DOMAIN mem[i] = 0 .. 3
    BY <1>1, <1>2 DEF PlanesCopied, HiddenPage
<1>5. /\ mem'[HiddenPage] = mem[HiddenPage]
      /\ \A i \in {1, 2} : i \in DOMAIN mem' /\ DOMAIN mem'[i] = 0 .. 3
    <2>1. DOMAIN Blank = 0 .. 3
        BY DEF Blank
    <2> QED
        BY <1>3, <1>4, <2>1
<1>6. PlacesOwn'
    <2>1. \A p \in Pixels(show_x, show_y) : ByteAt(p)' \in Own(p)
        BY <1>1, <1>2 DEF PlacesOwn, ByteAt, Address, SCROLL_X_WIDTH, SCROLL_SIZE
    <2>2. \A p \in PlayerCells : ground'[<<p[1] - play_x, p[2] - play_y>>] \in Own(p)
        BY <1>1, <1>2 DEF PlacesOwn
    <2> QED
        BY <1>1, <1>2, <2>1, <2>2, DrawnOwn DEF windowVars
<1>7. ASSUME NEW p \in Pixels(0, 0)
      PROVE  /\ p[1] % 4 \in 0 .. 3 /\ <<show_x + p[1], show_y + p[2]>> \in Pixels(show_x, show_y)
             /\ PageAt(mem[HiddenPage], p) = ByteAt(<<show_x + p[1], show_y + p[2]>>)
    <2>1. p[1] % 4 \in 0 .. 3 /\ <<show_x + p[1], show_y + p[2]>> \in Pixels(show_x, show_y)
        BY <1>1, PlaneStartIs
    <2>2. p[1] % 4 < copied
        BY <1>2, <2>1
    <2> QED
        BY <1>1, <2>1, <2>2 DEF PlanesCopied
<1>8. PlanesCopied'
    <2>1. ASSUME NEW p \in Pixels(0, 0)' PROVE ~(p[1] % 4 < copied')
        <3>1. p \in Pixels(0, 0)
            BY DEF Pixels
        <3>2. p[1] % 4 \in 0 .. 3
            BY <1>7, <3>1
        <3> QED
            BY <1>2, <3>2
    <2>2. start' \in {1, 2} /\ copied' \in 0 .. 4
        BY <1>2, <1>4
    <2> QED
        BY <1>2, <1>5, <2>1, <2>2 DEF PlanesCopied
<1>9. pic' = pic
    BY <1>2 DEF pic, Pixels, Address, SCROLL_X_WIDTH, SCROLL_SIZE
<1>10. Pic!PixelsOf(<<0, 0>>) = Pixels(0, 0)
    BY DEF Pic!PixelsOf, Pixels
<1>11. screen' = [p \in Pixels(0, 0) |-> pic[<<show_x + p[1], show_y + p[2]>>]]
    <2>1. screen' = [p \in (0 .. SCROLL_X_DIM - 1) \X (0 .. SCROLL_Y_DIM - 1) |-> PageAt(mem[HiddenPage], p)]
        BY <1>4, <1>5 DEF screen, PageAt, SCROLL_X_WIDTH
    <2>2. (0 .. SCROLL_X_DIM - 1) \X (0 .. SCROLL_Y_DIM - 1) = Pixels(0, 0)
        BY ViewAssumption DEF Pixels
    <2>3. ASSUME NEW p \in Pixels(0, 0)
          PROVE  PageAt(mem[HiddenPage], p) = pic[<<show_x + p[1], show_y + p[2]>>]
        BY <1>7 DEF pic, ByteAt
    <2> QED
        BY <2>1, <2>2, <2>3
<1>12. Pic!Show
    BY <1>2, <1>9, <1>10, <1>11 DEF Pic!Show
<1> QED
    BY <1>6, <1>8, <1>12

\* The first level begins with the map in view, and nothing copied.
LEMMA PictureInit == Init => PictureInv
<1> SUFFICES ASSUME Init PROVE PictureInv
    OBVIOUS
<1>1. ViewInv
    BY ViewInit
<1>2. PlacesOwn
    <2>1. \A p \in Pixels(show_x, show_y) : ByteAt(p) = MapAt(p)
        BY <1>1 DEF ViewInv, PictureKept, Init
    <2>2. \A p \in Pixels(show_x, show_y) : MapAt(p) \in Own(p)
        BY DEF MapAt, Own, Shows
    <2> QED
        BY <2>1, <2>2 DEF PlacesOwn, Init
<1>3. PlanesCopied
    <2>1. \A p \in Pixels(0, 0) : ~(p[1] % 4 < 0)
        <3>1. ASSUME NEW p \in Pixels(0, 0) PROVE p[1] % 4 \in 0 .. 3
            BY <1>1, PlaneStartIs DEF ViewInv
        <3> QED
            BY <3>1
    <2>2. \A i \in {1, 2} : i \in DOMAIN mem /\ DOMAIN mem[i] = 0 .. 3
        BY DEF Init, Blank
    <2> QED
        BY <2>1, <2>2 DEF PlanesCopied, Init
<1> QED
    BY <1>1, <1>2, <1>3 DEF PictureInv

\* A step of the view keeps the invariant, and is one of the picture or none.
LEMMA PictureStep ==
    PictureInv /\ [Next]_vars =>
        PictureInv' /\ (Pic!Scroll \/ Pic!Draw \/ Pic!Jump \/ Pic!Show \/ UNCHANGED Pic!picVars)
<1> SUFFICES ASSUME PictureInv, [Next]_vars
             PROVE  PictureInv' /\ (Pic!Scroll \/ Pic!Draw \/ Pic!Jump \/ Pic!Show \/ UNCHANGED Pic!picVars)
    OBVIOUS
<1>1. ViewInv'
    BY ViewStep DEF PictureInv
<1>2. CASE NewLevel
    BY <1>1, <1>2, NewLevelJumps DEF PictureInv
<1>3. CASE Unveil
    BY <1>1, <1>3, UnveilDraws DEF PictureInv
<1>4. CASE Move
    BY <1>1, <1>4, MoveScrolls DEF PictureInv
<1>5. CASE DrawPlayer
    BY <1>1, <1>5, DrawPlayerDraws DEF PictureInv
<1>6. CASE Caption
    BY <1>1, <1>6, CaptionDraws DEF PictureInv
<1>7. CASE CopyPlane
    BY <1>1, <1>7, CopyPlaneCopies DEF PictureInv
<1>8. CASE Flip
    BY <1>1, <1>8, FlipShows DEF PictureInv
<1>9. CASE Restore
    BY <1>1, <1>9, RestoreDraws DEF PictureInv
<1>10. CASE UNCHANGED vars
    <2>1. PlacesOwn'
        BY <1>10 DEF PictureInv, PlacesOwn, vars, windowVars, drawVars, playVars, ByteAt, Own, Address, Pixels,
            PlayerCells, Cells, SCROLL_X_WIDTH, SCROLL_SIZE
    <2>2. PlanesCopied'
        BY <1>10 DEF PictureInv, PlanesCopied, vars, windowVars, drawVars, videoVars, ByteAt, PageAt, HiddenPage,
            Address, Pixels, SCROLL_X_WIDTH, SCROLL_SIZE
    <2>3. UNCHANGED Pic!picVars
        BY <1>10 DEF Pic!picVars, pic, screen, vars, windowVars, drawVars, videoVars, Address, Pixels,
            SCROLL_X_WIDTH, SCROLL_SIZE
    <2> QED
        BY <1>1, <2>1, <2>2, <2>3 DEF PictureInv
<1> QED
    BY <1>2, <1>3, <1>4, <1>5, <1>6, <1>7, <1>8, <1>9, <1>10 DEF Next

(* The shifting buffer with its four planes, copied one by one to a page   *)
(* that is then shown, implements a plain picture: what a move of the view *)
(* keeps in it stays as it was, a block or a caption changes no pixel      *)
(* beside it, and the screen goes from one whole picture to the next       *)
(* (modex.c:402-631), for views, blocks and mazes of any size.             *)
THEOREM KeepsPictureHolds == MCSpec => KeepsPicture
<1> DEFINE allVars == <<part, vars, gameVars, captionVars, clockVars, firstVars, textVars>>
<1>1. MCInit => PictureInv
    BY PictureInit DEF MCInit
<1>2. PictureInv /\ [MCNext]_allVars =>
          PictureInv' /\ (Pic!Scroll \/ Pic!Draw \/ Pic!Jump \/ Pic!Show \/ UNCHANGED Pic!picVars)
    <2> SUFFICES ASSUME PictureInv, [MCNext]_allVars
                 PROVE  PictureInv' /\ (Pic!Scroll \/ Pic!Draw \/ Pic!Jump \/ Pic!Show \/ UNCHANGED Pic!picVars)
        OBVIOUS
    <2>1. [Next]_vars
        BY DEF MCNext, View, OfCaptions, OfClock, OfFirst, OfText
    <2> QED
        BY <2>1, PictureStep
<1>3. PictureInv => Pic!Whole
    BY WholeIs DEF PictureInv
<1>4. PictureInv => Pic!Init
    BY <1>3 DEF Pic!Init
<1>5. Pic!Whole' /\ (Pic!Scroll \/ Pic!Draw \/ Pic!Jump \/ Pic!Show \/ UNCHANGED Pic!picVars)
          => [Pic!Next]_(Pic!picVars)
    BY DEF Pic!Next
<1> QED
    BY <1>1, <1>2, <1>3, <1>4, <1>5, PTL DEF MCSpec, KeepsPicture, Pic!Spec

====
