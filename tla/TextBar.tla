---- MODULE TextBar ----
(* Texts as pixels (text.c of three versions): a status bar in the four    *)
(* planes of the screen, written bit by bit (mp2_ssbonde2 and, with a      *)
(* running count of planes, ECE391-MP2-Device-Drivers) or row by row first *)
(* (originals/ECE_391_MP2), and the mask of a caption.                     *)
(* The buffers are used again for every text.                              *)
EXTENDS Integers, Sequences

CONSTANTS
    COLUMNS,            \* 40: characters in a row of the screen
    FONT_HEIGHT,        \* 16
    CAPTION_TEXT_NUM,   \* 13: characters in a caption
    font_data,          \* of each character, row by row, the bits that are set
    MaxText             \* bound: characters of a text in the bar

VARIABLES planes, text, bar, status, mask, caption

vars == <<planes, text, bar, status, mask, caption>>

FONT_WIDTH == 8

Width == COLUMNS * FONT_WIDTH

Rows == FONT_HEIGHT + 2

\* Bytes of a row and of all rows in one plane: 80 and 1440.
PlaneWidth == Width \div 4

PlaneSize == PlaneWidth * Rows

CaptionWidth == CAPTION_TEXT_NUM * FONT_WIDTH

Texts(longest) == UNION {[1 .. n -> DOMAIN font_data] : n \in 1 .. longest}

\* What a byte holds before it is written.
Unwritten == "unwritten"

Ink == "text"

Blank == "blank"

\* A pixel of a character: bit 7 - p is the p-th from the left.
Drawn(char, j, p) == IF (7 - p) \in font_data[char][j] THEN Ink ELSE Blank

\* Variant: the two bytes of a character's row are swapped.
ByteOfSwapped(s, i, j, k) ==
    2 * i + (COLUMNS - Len(s)) + (j + 2) * PlaneWidth + (1 + k \div 4) + (3 - (k % 4)) * PlaneSize

\* The byte text_to_graphics writes for bit k of row j of the i-th character.
ByteOf(s, i, j, k) ==
    2 * i + (COLUMNS - Len(s)) + (j + 2) * PlaneWidth + (2 - (k \div 4)) + (3 - (k % 4)) * PlaneSize

\* text_to_graphics: all bytes blank, then those of the characters' bits.
text_to_graphics(s) ==
    LET bits == (0 .. Len(s) - 1) \X (0 .. FONT_HEIGHT - 1) \X (0 .. 7)
        inked == {ByteOf(s, b[1], b[2], b[3]) : b \in {b \in bits : b[3] \in font_data[s[b[1] + 1]][b[2]]}}
    IN  [a \in 0 .. 4 * PlaneSize - 1 |-> IF a \in inked THEN Ink ELSE Blank]

\* text_convert of originals/ECE391-MP2-Device-Drivers: the plane is counted
\* on from bit to bit, and never set back.
text_convert(s) ==
    LET bits == (0 .. Len(s) - 1) \X (0 .. FONT_HEIGHT - 1) \X (0 .. 7)
        p_off(i, j, k) == ((i * FONT_HEIGHT + j) * 8 + k) % 4
        location(i, j, k) ==
            (COLUMNS - Len(s)) + 2 * i + (j + 2) * PlaneWidth + (2 - k \div 4) + (3 - p_off(i, j, k)) * PlaneSize
        inked == {location(b[1], b[2], b[3]) : b \in {b \in bits : b[3] \in font_data[s[b[1] + 1]][b[2]]}}
    IN  [a \in 0 .. 4 * PlaneSize - 1 |-> IF a \in inked THEN Ink ELSE Blank]

\* Columns to the left of a centred text.
Space(s, width) == (width - Len(s) * FONT_WIDTH) \div 2

\* Variant: only the columns in front of the text are blanked.
BlankedInFront(s, width, x) == x < Space(s, width)

\* The columns blanked beside a text, with the rows of its first character.
Blanked(s, width, x) == x < Space(s, width) \/ x \in width - Space(s, width) .. width - 1

\* A row of text, centred, in a buffer that held old.
TextRow(s, width, j, x, old) ==
    LET at == x - Space(s, width)
    IN  CASE Blanked(s, width, x) -> Blank
          [] ~Blanked(s, width, x) /\ at \in 0 .. Len(s) * FONT_WIDTH - 1 ->
                 Drawn(s[at \div FONT_WIDTH + 1], j, at % FONT_WIDTH)
          [] OTHER -> old

\* generate_status_bar: blank rows above and below, then plane after plane.
generate_status_bar(s) ==
    LET buffer(x, y) == IF y \in {0, Rows - 1} THEN Blank ELSE TextRow(s, Width, y - 1, x, Unwritten)
    IN  [a \in 0 .. 4 * PlaneSize - 1 |->
            LET spot == (a \div PlaneSize) + 4 * (a % PlaneSize)
            IN  buffer(spot % Width, spot \div Width)]

\* generate_caption
generate_caption(s, old) ==
    [spot \in 0 .. CaptionWidth * FONT_HEIGHT - 1 |->
        TextRow(s, CaptionWidth, spot \div CaptionWidth, spot % CaptionWidth, old[spot])]

Init ==
    /\ planes = <<>> /\ text = <<>>
    /\ bar = <<>> /\ status = <<>>
    /\ mask = [a \in 0 .. CaptionWidth * FONT_HEIGHT - 1 |-> Unwritten] /\ caption = <<>>

\* statusbar_loader and show_barscreen; a text never fills the row.
LoadStatus ==
    /\ text' \in Texts(MaxText)
    /\ planes' \in {text_to_graphics(text'), text_convert(text')}
    /\ UNCHANGED <<bar, status, mask, caption>>

\* show_bar
ShowBar ==
    /\ status' \in Texts(MaxText)
    /\ bar' = generate_status_bar(status')
    /\ UNCHANGED <<planes, text, mask, caption>>

\* A fruit was eaten: generate_f_tex's text as a mask.
Caption ==
    /\ caption' \in Texts(CAPTION_TEXT_NUM)
    /\ mask' = generate_caption(caption', mask)
    /\ UNCHANGED <<planes, text, bar, status>>

Next == LoadStatus \/ ShowBar \/ Caption

Spec == Init /\ [][Next]_vars

------------------------------------------------------------------------------

\* What the screen shows of four planes at a pixel.
Shown(buffer, x, y) == buffer[(x % 4) * PlaneSize + y * PlaneWidth + x \div 4]

\* A text that begins at (left, top): what is to be seen at a pixel.
Typeset(s, left, top, x, y) ==
    IF x - left \in 0 .. Len(s) * FONT_WIDTH - 1 /\ y - top \in 0 .. FONT_HEIGHT - 1
    THEN Drawn(s[(x - left) \div FONT_WIDTH + 1], y - top, (x - left) % FONT_WIDTH) ELSE Blank

Pixels(width, height) == (0 .. width - 1) \X (0 .. height - 1)

(* Whatever text a buffer held before, the bars show the text last written *)
(* and nothing else, every pixel of it in the right plane: in one version  *)
(* centred, in the other four pixels to the right of it and a row lower,   *)
(* so that the last character of a full row would leave it (text.c:614 of  *)
(* mp2_ssbonde2).  A caption's mask holds its text only (text.c:132 of     *)
(* ECE_391_MP2).                                                           *)
TextShown ==
    /\ text # <<>> =>
           \A q \in Pixels(Width, Rows) :
               Shown(planes, q[1], q[2]) = Typeset(text, Space(text, Width) + 4, 2, q[1], q[2])
    /\ status # <<>> =>
           \A q \in Pixels(Width, Rows) :
               Shown(bar, q[1], q[2]) = Typeset(status, Space(status, Width), 1, q[1], q[2])
    /\ caption # <<>> =>
           \A q \in Pixels(CaptionWidth, FONT_HEIGHT) :
               mask[q[2] * CaptionWidth + q[1]] = Typeset(caption, Space(caption, CaptionWidth), 0, q[1], q[2])
====
