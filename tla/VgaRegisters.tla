---- MODULE VgaRegisters ----
(* The VGA adapter as modex.c of mp2_ssbonde2 programs it, one write to a  *)
(* port at a time: into mode X with a status bar below the view, frame by  *)
(* frame, and back to text.  The program may be killed between any two     *)
(* writes; then the game or the program "tr" runs on what it left behind.  *)
EXTENDS Integers, SequencesExt

CONSTANTS
    SCROLL_X_DIM, SCROLL_Y_DIM, FONT_HEIGHT,   \* pixels
    palette_RGB,                               \* the first colours; 64 in the code
    WALL_FILL_COLOR, PLAYER_CENTER_COLOR,      \* two of them
    Levels, Hearts,                            \* what the game changes these to
    MaxKills                                   \* bound

VARIABLES
    vga,                \* the adapter's registers
    fonts, screen,      \* what memory holds where text mode looks for both
    shown, retraced,    \* start address on display, and whether no later one is set
    framed, settled,    \* a frame was shown; a retrace came after one
    program, op, at,    \* who runs, the operation that goes on, writes of it done
    mode,               \* which mode was last set whole
    target_img, colors, \* page in use; the palette as it was asked for
    kills

memoryVars == <<fonts, screen>>
displayVars == <<shown, retraced, framed, settled>>
vars == <<vga, memoryVars, displayVars, program, op, at, mode, target_img, colors, kills>>

mode_X_seq == <<1, 33, 15, 0, 6>>

\* Variant: the registers as they were before there was a status bar.
mode_X_CRTC_unsplit == <<95, 79, 80, 130, 84, 128, 191, 31, 0, 65, 0, 0, 0, 0, 0, 0, 156, 142, 143, 40, 0, 150, 185, 227, 255>>

mode_X_CRTC == <<95, 79, 80, 130, 84, 128, 191, 31, 0, 1, 0, 0, 0, 0, 0, 0, 156, 142, 143, 40, 0, 150, 185, 227, 107>>

mode_X_attr == <<0, 1, 2, 3, 4, 5, 6, 7, 8, 9, 10, 11, 12, 13, 14, 15, 65, 0, 15, 0, 0, 0>>

mode_X_graphics == <<0, 0, 0, 0, 0, 64, 5, 15, 255>>

text_seq == <<1, 32, 3, 0, 2>>

text_CRTC == <<95, 79, 80, 130, 85, 129, 191, 31, 0, 79, 13, 14, 0, 0, 0, 0, 156, 142, 143, 40, 31, 150, 185, 163, 255>>

text_attr == <<0, 1, 2, 3, 4, 5, 6, 7, 8, 9, 10, 11, 12, 13, 14, 15, 12, 0, 15, 8, 0, 0>>

text_graphics == <<0, 0, 0, 0, 0, 16, 14, 0, 255>>

------------------------------------------------------------------------------
(* The adapter, as far as the game uses it *)

Bit(value, k) == (value \div 2 ^ k) % 2

Registers(table) == [i \in 0 .. Len(table) - 1 |-> table[i + 1]]

\* The adapter after a write of v, to register i where a port has several.
After(d, w) ==
    CASE w.to = "seq" -> [d EXCEPT !.seq[w.i] = w.v]
      [] w.to = "blank" -> [d EXCEPT !.seq[1] = @ + 32 * (w.v - Bit(@, 5))]
      [] w.to = "crtc" -> IF w.i < 8 /\ Bit(d.crtc[17], 7) = 1 THEN d ELSE [d EXCEPT !.crtc[w.i] = w.v]
      [] w.to = "graphics" -> [d EXCEPT !.graphics[w.i] = w.v]
      [] w.to = "misc" -> [d EXCEPT !.misc = w.v]
      [] w.to = "status" -> [d EXCEPT !.flip = "index"]
      [] w.to = "attr" ->
             IF d.flip = "index" THEN [d EXCEPT !.index = w.v % 32, !.on = Bit(w.v, 5), !.flip = "data"]
             ELSE [d EXCEPT !.attr[d.index] = w.v, !.flip = "index"]
      [] w.to = "color" -> [d EXCEPT !.dac = <<w.v>>]
      [] w.to = "component" ->
             IF Len(d.dac) < 3 THEN [d EXCEPT !.dac = Append(@, w.v % 64)]
             ELSE [d EXCEPT !.palette[d.dac[1]] = <<d.dac[2], d.dac[3], w.v % 64>>, !.dac = <<d.dac[1] + 1>>]
      [] OTHER -> d

\* Where the processor sees the memory: 1 for 0xA0000, 3 for 0xB8000.
Window == (vga.graphics[6] \div 4) % 4

\* Not blanked, not reset, and the attribute controller lets it through.
Visible == Bit(vga.seq[1], 5) = 0 /\ vga.seq[0] = 3 /\ vga.on = 1

------------------------------------------------------------------------------
(* Operations as the writes they make *)

To(port, i, v) == [to |-> port, i |-> i, v |-> v]

Each(port, table) == [k \in DOMAIN table |-> To(port, k - 1, table[k])]

VGA_blank(blank_bit) == <<To("blank", 1, blank_bit), To("status", 0, 0), To("attr", 0, 32)>>

set_seq_regs_and_reset(table, val) == Each("seq", table) \o <<To("misc", 0, val), To("seq", 0, 3)>>

\* Variant: the protection of the first registers is not cleared.
set_CRTC_protected(table) == Each("crtc", table)

set_CRTC_registers(table) == <<To("crtc", 17, 0)>> \o Each("crtc", table)

\* Variant: the flip-flop is left as it is.
set_attr_unreset(table) == [k \in 1 .. 2 * Len(table) |->
                               To("attr", 0, IF k % 2 = 1 THEN k \div 2 ELSE table[k \div 2])]

set_attr_registers(table) ==
    <<To("status", 0, 0)>> \o
    [k \in 1 .. 2 * Len(table) |-> To("attr", 0, IF k % 2 = 1 THEN k \div 2 ELSE table[k \div 2])]

set_graphics_registers(table) == Each("graphics", table)

Components(rgb) == [k \in 1 .. 3 |-> To("component", 0, rgb[k])]

set_col(color, rgb) == <<To("color", 0, color)>> \o Components(rgb)

fill_palette == <<To("color", 0, 0)>> \o FlattenSeq([c \in DOMAIN palette_RGB |-> Components(palette_RGB[c])])

\* The bytes of maze_wall_set, of which an unsigned char keeps eight bits.
WallColor(level) == <<(63 - 10 * level) % 256, (28 + 10 * level) % 256, (31 + 10 * level) % 256>>

clear_screens == <<To("seq", 2, 15), To("clear", 0, 0)>>

\* Variant: the map of memory is left as the fonts needed it.
write_font_data_map_left ==
    <<To("seq", 2, 4), To("seq", 4, 7), To("graphics", 5, 0), To("graphics", 6, 4), To("graphics", 4, 2),
      To("fonts", 0, 0),
      To("seq", 2, 3), To("seq", 4, 3), To("graphics", 5, 16), To("graphics", 4, 0)>>

write_font_data ==
    <<To("seq", 2, 4), To("seq", 4, 7), To("graphics", 5, 0), To("graphics", 6, 4), To("graphics", 4, 2),
      To("fonts", 0, 0),
      To("seq", 2, 3), To("seq", 4, 3), To("graphics", 5, 16), To("graphics", 6, 14), To("graphics", 4, 0)>>

SetModeX ==
    VGA_blank(1) \o set_seq_regs_and_reset(mode_X_seq, 99) \o set_CRTC_registers(mode_X_CRTC)
    \o set_attr_registers(mode_X_attr) \o set_graphics_registers(mode_X_graphics)
    \o fill_palette \o clear_screens \o VGA_blank(0)

set_text_mode_3(clear_scr) ==
    VGA_blank(1) \o set_seq_regs_and_reset(text_seq, 103) \o set_CRTC_registers(text_CRTC)
    \o set_attr_registers(text_attr) \o set_graphics_registers(text_graphics)
    \o fill_palette \o (IF clear_scr = 1 THEN <<To("text", 0, 0)>> ELSE << >>)
    \o write_font_data \o VGA_blank(0)

\* SET_WRITE_MASK and a copy, for each plane.
ToPlanes(kind, address) ==
    [k \in 1 .. 8 |-> IF k % 2 = 1 THEN To("seq", 2, 2 ^ (k \div 2)) ELSE To(kind, k \div 2 - 1, address)]

show_barscreen == ToPlanes("copy_statusbar", 0)

StartAt(address) == <<To("crtc", 12, address \div 256), To("crtc", 13, address % 256)>>

\* Variant: the registers are pointed to the page before it is filled.
show_screen_early(page) == StartAt(page) \o ToPlanes("copy_image", page)

show_screen(page) == ToPlanes("copy_image", page) \o StartAt(page)

StatusBytes == 1440

ImageBytes == 16000

PAGE == (FONT_HEIGHT + 2) * SCROLL_X_DIM

OTHER_PAGE == PAGE + 16384

\* The writes of an operation: its name, and its argument if it has one.
Writes(o) ==
    CASE o[1] = "set_mode_X" -> SetModeX
      [] o[1] = "clear_mode_X" -> set_text_mode_3(1)
      [] o[1] = "tr" -> set_text_mode_3(0)
      [] o[1] = "maze_wall_set" -> set_col(WALL_FILL_COLOR, WallColor(o[2]))
      [] o[1] = "set_col" -> set_col(PLAYER_CENTER_COLOR, Hearts[o[2]])
      [] o[1] = "show_barscreen" -> show_barscreen
      [] o[1] = "show_screen" -> show_screen(o[2])
      [] OTHER -> << >>

Idle == <<"none", 0>>

------------------------------------------------------------------------------
(* Programs *)

\* The machine in text mode, as a game before this one left it.
Init ==
    /\ vga = [seq |-> [Registers(text_seq) EXCEPT ![0] = 3, ![1] = 0], crtc |-> Registers(text_CRTC),
              graphics |-> Registers(text_graphics), misc |-> 103,
              attr |-> Registers(text_attr), flip |-> "data", index |-> 0, on |-> 1,
              dac |-> <<0>>, palette |-> Registers(palette_RGB)]
    /\ fonts = TRUE /\ screen = "text" /\ shown = 0 /\ retraced = TRUE
    /\ framed = FALSE /\ settled = FALSE
    /\ program = "none" /\ op = Idle /\ at = 0 /\ mode = "text"
    /\ target_img = PAGE /\ colors = Registers(palette_RGB) /\ kills = 0

\* An operation begins; a mode is not set whole until it has ended.
Begin(o) ==
    /\ op = Idle /\ op' = o /\ at' = 0
    /\ UNCHANGED <<vga, memoryVars, shown, retraced, kills>>

\* set_mode_X and set_text_mode_3, by the game and by tr.
SetMode ==
    /\ \/ program = "none" /\ program' = "game" /\ Begin(<<"set_mode_X", 0>>) /\ target_img' = PAGE
       \/ program = "none" /\ program' = "tr" /\ Begin(<<"tr", 0>>) /\ UNCHANGED target_img
       \/ program = "game" /\ mode = "X" /\ Begin(<<"clear_mode_X", 0>>) /\ UNCHANGED <<program, target_img>>
    /\ mode' = "none" /\ colors' = Registers(palette_RGB)
    /\ framed' = FALSE /\ settled' = FALSE

\* maze_wall_set and set_col
SetColor ==
    /\ program = "game" /\ mode = "X"
    /\ \/ \E level \in Levels :
              /\ Begin(<<"maze_wall_set", level>>)
              /\ colors' = [colors EXCEPT ![WALL_FILL_COLOR] = [k \in 1 .. 3 |-> WallColor(level)[k] % 64]]
       \/ \E heart \in DOMAIN Hearts :
              /\ Begin(<<"set_col", heart>>)
              /\ colors' = [colors EXCEPT ![PLAYER_CENTER_COLOR] = Hearts[heart]]
    /\ UNCHANGED <<program, mode, target_img, framed, settled>>

\* show_barscreen and show_screen: the other page is taken for each frame.
Show ==
    /\ program = "game" /\ mode = "X"
    /\ \/ Begin(<<"show_barscreen", 0>>) /\ UNCHANGED <<target_img, framed>>
       \/ /\ target_img' = (IF target_img = PAGE THEN OTHER_PAGE ELSE PAGE)
          /\ Begin(<<"show_screen", target_img'>>)
          /\ framed' = TRUE
    /\ UNCHANGED <<program, mode, colors, settled>>

\* The next write, and what it does to memory.
Out ==
    /\ op # Idle /\ at < Len(Writes(op))
    /\ LET w == Writes(op)[at + 1]
           drawn == w.to \in {"copy_image", "copy_statusbar", "clear"}
           plane2 == w.to = "clear" \/ w.i = 2
           low == w.to = "clear" \/ w.i < 2
       IN  /\ vga' = After(vga, w)
           /\ fonts' = IF drawn /\ plane2 THEN FALSE
                       ELSE IF w.to = "fonts" THEN Window = 1 /\ vga.seq[2] = 4 /\ Bit(vga.seq[4], 2) = 1 ELSE fonts
           /\ screen' = IF drawn /\ low THEN "image"
                        ELSE IF w.to = "text" /\ Window = 3 THEN "blank" ELSE screen
           /\ retraced' = (retraced /\ ~(w.to = "crtc" /\ w.i \in {12, 13}))
    /\ at' = at + 1
    /\ UNCHANGED <<shown, framed, settled, program, op, mode, target_img, colors, kills>>

\* The operation ends; tr ends with it, and so does the game with its last.
Return ==
    /\ op # Idle /\ at = Len(Writes(op))
    /\ mode' = (CASE op[1] = "set_mode_X" -> "X" [] op[1] \in {"clear_mode_X", "tr"} -> "text" [] OTHER -> mode)
    /\ program' = (IF op[1] \in {"clear_mode_X", "tr"} THEN "none" ELSE program)
    /\ op' = Idle /\ at' = 0
    /\ UNCHANGED <<vga, memoryVars, displayVars, target_img, colors, kills>>

Kill ==
    /\ program # "none" /\ kills < MaxKills
    /\ program' = "none" /\ op' = Idle /\ at' = 0 /\ kills' = kills + 1
    /\ mode' = (IF op = Idle THEN mode ELSE "none")
    /\ UNCHANGED <<vga, memoryVars, displayVars, target_img, colors>>

\* The adapter takes the start address for the next frame it displays.
Retrace ==
    /\ shown' = vga.crtc[12] * 256 + vga.crtc[13]
    /\ retraced' = TRUE
    /\ settled' = (settled \/ (framed /\ op[1] # "show_screen"))
    /\ <<shown', retraced', settled'>> # <<shown, retraced, settled>>
    /\ UNCHANGED <<vga, memoryVars, framed, program, op, at, mode, target_img, colors, kills>>

Next == SetMode \/ SetColor \/ Show \/ Out \/ Return \/ Kill \/ Retrace

Spec == Init /\ [][Next]_vars

------------------------------------------------------------------------------

Except(f, which) == [i \in DOMAIN f \ which |-> f[i]]

\* All registers are those of mode X but the mask and the start address.
WholeX ==
    /\ Except(vga.seq, {0, 1, 2}) = Except(Registers(mode_X_seq), {0, 1, 2}) /\ vga.seq[1] = 1
    /\ Except(vga.crtc, {12, 13}) = Except(Registers(mode_X_CRTC), {12, 13})
    /\ vga.graphics = Registers(mode_X_graphics) /\ vga.attr = Registers(mode_X_attr) /\ vga.misc = 99

\* All registers are those of text mode; after the fonts one has another value.
WholeText ==
    /\ Except(vga.seq, {0, 1, 4}) = Except(Registers(text_seq), {0, 1, 4}) /\ vga.seq[1] = 0
    /\ vga.seq[4] \in {text_seq[5], 3}
    /\ vga.crtc = Registers(text_CRTC)
    /\ vga.graphics = Registers(text_graphics) /\ vga.attr = Registers(text_attr) /\ vga.misc = 103

(* The screen is dark while its registers are those of no mode, and what   *)
(* is visible in text mode has its fonts: also after the game was killed   *)
(* between any two writes and tr or the game ran again, whatever state the *)
(* ports were left in (modex.c:327-334, 1193-1215).                        *)
NeverMixed ==
    /\ Visible => WholeX \/ (WholeText /\ fonts)
    /\ mode = "X" => Visible /\ WholeX
    /\ mode = "text" => Visible /\ WholeText /\ (kills = 0 => screen # "image")

(* In mode X the adapter shows the view's rows from the page and then, from *)
(* the start of memory, just as many rows as the bar has (modex.c:88-93,   *)
(* 306, 588).                                                              *)
ScreenSplit ==
    LET crtc == vga.crtc
        compare == crtc[24] + 256 * Bit(crtc[7], 4) + 512 * Bit(crtc[9], 6)
        lines == crtc[18] + 256 * Bit(crtc[7], 1) + 512 * Bit(crtc[7], 6) + 1
        height == (crtc[9] % 32) + 1
        bytes == 2 * crtc[19]
    IN  mode = "X" =>
            /\ compare + 1 = height * SCROLL_Y_DIM
            /\ lines - (compare + 1) = height * (StatusBytes \div bytes)
            /\ 4 * bytes = SCROLL_X_DIM

\* The next write is a copy to a page.
Copying == op[1] = "show_screen" /\ at < Len(Writes(op)) /\ Writes(op)[at + 1].to = "copy_image"

\* Memory that is not on display as a part of the view.
Apart(address, bytes) ==
    \/ address + bytes <= shown
    \/ shown + SCROLL_Y_DIM * (SCROLL_X_DIM \div 4) <= address

(* A page is copied to while it is on display only if the adapter has had  *)
(* no retrace since the last one was filled; and once a frame has settled, *)
(* only whole pages are on display (modex.c:613-630).                      *)
PagesApart ==
    mode = "X" /\ settled =>
        /\ shown \in {PAGE, OTHER_PAGE}
        /\ retraced /\ Copying => Apart(target_img, ImageBytes)
        /\ Apart(0, StatusBytes)

(* Between operations the colours are the last that were asked for.        *)
PaletteRight == mode # "none" /\ op = Idle /\ kills = 0 => vga.palette = colors

DisplaySafety == NeverMixed /\ ScreenSplit /\ PagesApart /\ PaletteRight
====
