---- MODULE FirstGame ----
(* The thread of the clock in originals/mp2_ssbonde2, the first version of *)
(* the game: it draws the player into the picture at each step and never   *)
(* takes it out, and draws no line when the view moves sideways.           *)
EXTENDS MazeWalk

CONSTANTS Mazes, MaxTicks              \* what make_maze may return; 8 in the code

VARIABLES
    maze, walk, pic,                   \* the build buffer, as far as it is in view
    need_redraw, shown, ticks, pc,
    trail, sideways, eaten             \* history of a level: pixels the player was
                                       \* on, columns that came in sideways, and
                                       \* whether its place held a fruit

levelVars == <<maze, walk, pic>>
history == <<trail, sideways, eaten>>
vars == <<levelVars, need_redraw, shown, ticks, pc, history>>

\* What a byte holds that was left by another view.
Stale == Byte("stale")

PixelsAt(w) == {<<w.x + c[1], w.y + c[2]>> : c \in Cells}

\* draw_full_block, of the player's picture.
PlayerDrawn(p, w) == WithBlock(p, w.x, w.y, [c \in Cells |-> <<"player", w.last, 0>>])

\* set_view_window: what stays in the view is kept.
set_view_window(p, w) == [q \in ViewOf(w) |-> IF q \in DOMAIN p THEN p[q] ELSE Stale]

\* Row y of the view shows the map.
draw_horiz_line(p, m, w, y) == [q \in DOMAIN p |-> IF q[2] = w.map_y + y THEN MapByte(m, q) ELSE p[q]]

\* "to be written..."
draw_vert_line(p, m, w, x) == p

\* Variant: the line is drawn where the view was.
LineInFirst(p, m, w, v) ==
    CASE v.map_y < w.map_y -> draw_horiz_line(p, m, v, 1)
      [] v.map_y > w.map_y -> draw_horiz_line(p, m, v, SCROLL_Y_DIM - 1)
      [] OTHER -> p

\* move_up, move_down, move_left, move_right: the line that comes into view.
LineIn(p, m, w, v) ==
    CASE v.map_y < w.map_y -> draw_horiz_line(p, m, v, 0)
      [] v.map_y > w.map_y -> draw_horiz_line(p, m, v, SCROLL_Y_DIM - 1)
      [] v.map_x < w.map_x -> draw_vert_line(p, m, v, 0)
      [] v.map_x > w.map_x -> draw_vert_line(p, m, v, SCROLL_X_DIM - 1)
      [] OTHER -> p

\* A step from w, in its direction.
Move(p, m, w) ==
    LET v == Stepped(w)
    IN  /\ walk' = v
        /\ pic' = PlayerDrawn(LineIn(set_view_window(p, v), m, w, v), v)
        /\ need_redraw' = 1
        /\ trail' = trail \union PixelsAt(v)
        /\ sideways' = sideways \union ((v.map_x .. v.map_x + SCROLL_X_DIM - 1)
                                            \ (w.map_x .. w.map_x + SCROLL_X_DIM - 1))
        /\ eaten' = FALSE

------------------------------------------------------------------------------

Init ==
    /\ maze = NoMaze /\ walk = Nowhere /\ pic = NoPicture
    /\ need_redraw = 0 /\ shown = Screen(pic, walk) /\ ticks = 0 /\ pc = "level"
    /\ trail = {} /\ sideways = {} /\ eaten = FALSE

\* prepare_maze_level, and the start of a level up to the first screen.
StartLevel ==
    /\ pc = "level"
    /\ \E m \in Mazes :
           LET met == unveil_around_player(MapPicture(m, AtStart), m, AtStart)
           IN  maze' = met.maze /\ pic' = PlayerDrawn(met.pic, AtStart)
    /\ walk' = AtStart
    /\ shown' = Screen(pic', AtStart)
    /\ pc' = "wait"
    /\ trail' = PixelsAt(AtStart) /\ sideways' = {} /\ eaten' = FALSE
    /\ UNCHANGED <<need_redraw, ticks>>

\* The read of the clock: the ticks that passed since the last.
Wait ==
    /\ pc = "wait"
    /\ ticks' \in 1 .. MaxTicks
    /\ pc' = "tick"
    /\ UNCHANGED <<levelVars, need_redraw, shown, history>>

\* A tick between two squares.
Between ==
    /\ pc = "tick" /\ ticks > 0
    /\ \E next \in Dirs :
           LET w == Turned(walk, next)
           IN  w.moves > 0 /\ Move(pic, maze, w)
    /\ ticks' = ticks - 1
    /\ UNCHANGED <<maze, shown, pc>>

\* A tick at a new square: fruit, mist, win, the way on, and a step on it.
NewSquare ==
    /\ pc = "tick" /\ ticks > 0
    /\ \E next \in Dirs \union {walk.dir} :
           LET w == Turned(walk, next)
               met == unveil_around_player(pic, maze, w)
               on == Chosen(w, next)
           IN  /\ w.moves = 0
               /\ maze' = met.maze
               /\ \/ /\ check_for_win(met.maze, w)
                     /\ pic' = met.pic /\ walk' = w /\ ticks' = 0 /\ pc' = "won"
                     /\ UNCHANGED <<need_redraw, history>>
                  \/ /\ ~check_for_win(met.maze, w)
                     /\ ticks' = ticks - 1
                     /\ UNCHANGED pc
                     /\ IF on.dir = DIR_STOP
                        THEN /\ pic' = met.pic /\ walk' = on
                             /\ eaten' = (eaten \/ Here(w) \in maze.fruits)
                             /\ UNCHANGED <<need_redraw, trail, sideways>>
                        ELSE Move(met.pic, met.maze, on)
    /\ UNCHANGED shown

\* Variant: the last step before a stop is not shown.
RedrawsMoving == need_redraw = 1 /\ walk.dir # DIR_STOP

Redraws == need_redraw = 1

\* After the ticks, or the one that won the level: the screen.
Redraw ==
    /\ (pc = "tick" /\ ticks = 0) \/ pc = "won"
    /\ shown' = (IF Redraws THEN Screen(pic, walk) ELSE shown)
    /\ need_redraw' = 0
    /\ pc' = (IF pc = "won" THEN "level" ELSE "wait")
    /\ UNCHANGED <<levelVars, ticks, history>>

\* The loop over levels is left: all are done, one cannot be prepared, or the
\* game was quit, which is looked at here and before each read of the clock.
Leave ==
    /\ pc \in {"level", "wait"} /\ pc' = "over"
    /\ UNCHANGED <<levelVars, need_redraw, shown, ticks, history>>

Next == StartLevel \/ Wait \/ Between \/ NewSquare \/ Redraw \/ Leave

Spec == Init /\ [][Next]_vars

------------------------------------------------------------------------------

(* Every pixel in view shows the map, or the player where it was at some   *)
(* time in this level, or, in a column that came in sideways, what was     *)
(* left there.  The player is whole in its place, unless it stopped where  *)
(* it ate a fruit, whose square is drawn over it (mazegame.c:423, 475,     *)
(* 525; modex.c:624; maze.c:642).                                          *)
PictureExplained ==
    pc = "wait" =>
        /\ \A q \in ViewOf(walk) :
               \/ pic[q] = MapByte(maze, q)
               \/ pic[q][1] = "player" /\ q \in trail
               \/ pic[q] = Stale /\ q[1] \in sideways
        /\ eaten \/ \A q \in PixelsAt(walk) : pic[q] = <<"player", walk.last, 0>>

(* The screen is the picture of the last step: it lacks what a player who  *)
(* stopped has unveiled or eaten there since (mazegame.c:475, 529).        *)
ScreenTrue ==
    pc = "wait" =>
        \A p \in DOMAIN shown :
            LET q == <<walk.map_x + p[1], walk.map_y + p[2]>>
            IN  \/ shown[p] = pic[q]
                \/ shown[p][1] \in {"mist", "bump", "stale"} \/ pic[q] = Byte("exit")
                \/ eaten /\ q \in PixelsAt(walk)

FirstGameSafety == PictureExplained /\ ScreenTrue
====
