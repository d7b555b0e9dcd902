---- MODULE CaptionGame ----
(* The thread of the clock in originals/ECE_391_MP2: the player stays in   *)
(* the picture between frames, over ground that was saved under it, and a  *)
(* fruit that is eaten puts a transparent caption over the player for      *)
(* three seconds: added to the bytes before the screen is shown and taken  *)
(* off them afterwards.                                                    *)
EXTENDS MazeWalk

CONSTANTS
    Mazes,                             \* what make_maze may return
    Captions,                          \* pixels of the captions' texts
    Garbled,                           \* the same of an array that was not written
    CAPTION_X_OFFSET, CAPTION_Y_OFFSET, \* how far left of and above the player
    CaptionSeconds, MaxTicks           \* 3 and 8 in the code

VARIABLES
    maze, walk, pic,                   \* the build buffer, as far as it is in view
    ground, old_n_fruit,               \* what the thread keeps of the last square
    trans_flag, caption, age,          \* the caption, and its seconds
    need_redraw, shown, ticks, pc,
    fruit_at_start,
    overdue                            \* history: no one knows of the caption on the screen

captionVars == <<trans_flag, caption, age, overdue>>
vars == <<maze, walk, pic, ground, old_n_fruit, captionVars, need_redraw, shown, ticks, pc, fruit_at_start>>

Largest(a, b) == IF a > b THEN a ELSE b

\* Variant: the caption may begin above the view.
CaptionTopFree(w) == w.y - CAPTION_Y_OFFSET

\* The row the caption begins at: below the first row of the view.
CaptionTop(w) == Largest(w.y - CAPTION_Y_OFFSET, w.map_y + 1)

\* get_block_trans (by = 1) and remove_block_trans (by = -1): a byte has
\* four shades, 64 apart, and wraps.
Shaded(p, w, text, by) ==
    [q \in DOMAIN p |->
        IF <<q[1] - (w.x - CAPTION_X_OFFSET), q[2] - CaptionTop(w)>> \in text
        THEN [p[q] EXCEPT ![3] = (@ + by + 4) % 4] ELSE p[q]]

Init ==
    /\ maze = NoMaze /\ walk = Nowhere /\ pic = NoPicture
    /\ ground = <<>> /\ old_n_fruit = 0
    /\ trans_flag = 0 /\ caption = {} /\ age = 0 /\ overdue = FALSE
    /\ need_redraw = 0 /\ shown = Screen(pic, walk) /\ ticks = 0 /\ pc = "level"
    /\ fruit_at_start = FALSE

\* prepare_maze_level and the start of a level, up to the first show_screen.
\* The fruits are counted before one that lies at the start is eaten.
StartLevel ==
    /\ pc = "level"
    /\ \E m \in Mazes :
           LET met == unveil_around_player(MapPicture(m, AtStart), m, AtStart)
           IN  /\ maze' = met.maze
               /\ old_n_fruit' = Cardinality(m.fruits)
               /\ fruit_at_start' = (Here(AtStart) \in m.fruits)
               /\ ground' = BlockAt(met.pic, AtStart)
               /\ pic' = WithBlock(met.pic, AtStart.x, AtStart.y, PlayerOver(ground', AtStart))
    /\ walk' = AtStart
    /\ trans_flag' = 0 /\ caption' = {} /\ age' = 0 /\ overdue' = FALSE
    /\ shown' = Screen(pic', AtStart)
    /\ pc' = "wait"
    /\ UNCHANGED <<need_redraw, ticks>>

\* The read of the clock: the ticks that passed since the last.
Wait ==
    /\ pc = "wait"
    /\ ticks' \in 1 .. MaxTicks
    /\ pc' = "tick"
    /\ UNCHANGED <<maze, walk, pic, ground, old_n_fruit, captionVars, need_redraw, shown, fruit_at_start>>

\* Variant: the ground keeps what it showed before the fruit was eaten.
GroundKept(p, w) == ground

\* The ground when a fruit was eaten: what the square shows now.
GroundAfterFruit(p, w) == BlockAt(p, w)

\* The caption and its age, until its seconds are over.  What is drawn then
\* is the caller's.
Aged(text, since) ==
    /\ age' \in since .. CaptionSeconds
    /\ trans_flag' = IF age' < CaptionSeconds THEN 10 ELSE 0
    /\ caption' = IF age' < CaptionSeconds THEN text ELSE {}

\* generate_f_tex and generate_caption.  For a fruit that was eaten before,
\* at the start, fruit_tex is not written: any text comes of it, and one of
\* no characters leaves the caption as it was.
Texts(w) == IF Here(w) \in maze.fruits THEN Captions ELSE Garbled

\* A fruit is missing since the last square: the player is drawn again, over
\* new ground, and the screen is shown with the caption, which is taken off
\* again further down in the same tick.  If its seconds are over by then, it
\* stays on the screen all the same.
Notice(met, w) ==
    /\ ground' = GroundAfterFruit(met.pic, w)
    /\ \E text \in Texts(w) :
           LET drawn == WithBlock(met.pic, w.x, w.y, PlayerOver(ground', w))
               titled == Shaded(drawn, w, text, 1)
           IN  /\ Aged(text, 0)
               /\ shown' = Screen(titled, w)
               /\ pic' = Shaded(titled, w, text, -1)
    /\ overdue' = (trans_flag' = 0)

\* Variant: the player is drawn over the ground it comes from.
CoveredNot(p, g, w) == p

\* The ground is drawn again where the player was.
Covered(p, g, w) == WithBlock(p, w.x, w.y, g)

\* A step: the view moves, the trace is covered, and the player drawn over
\* the ground of its new place.
Move(p, g, m, w) ==
    /\ walk' = Stepped(w)
    /\ LET scrolled == Covered(Scrolled(p, m, walk'), g, w)
       IN  /\ ground' = BlockAt(scrolled, walk')
           /\ pic' = WithBlock(scrolled, walk'.x, walk'.y, PlayerOver(ground', walk'))
    /\ need_redraw' = 1

\* A tick between two squares.
Between ==
    /\ pc = "tick" /\ ticks > 0
    /\ \E next \in Dirs :
           LET w == Turned(walk, next)
           IN  /\ w.moves > 0
               /\ Move(pic, ground, maze, w)
    /\ ticks' = ticks - 1
    /\ UNCHANGED <<maze, old_n_fruit, captionVars, shown, pc, fruit_at_start>>

\* A tick at a new square, up to the point where the mutex is unlocked and
\* the caption taken off: fruit, mist, win, and the way on.
NewSquare ==
    /\ pc = "tick" /\ ticks > 0
    /\ \E next \in Dirs \union {walk.dir} :
           LET w == Turned(walk, next)
               met == unveil_around_player(pic, maze, w)
           IN  /\ w.moves = 0
               /\ maze' = met.maze
               /\ IF check_for_win(met.maze, w)
                  THEN /\ pic' = met.pic /\ walk' = w
                       /\ pc' = "won"
                       /\ UNCHANGED <<ground, old_n_fruit, captionVars, shown>>
                  ELSE /\ IF old_n_fruit # Cardinality(met.maze.fruits) THEN Notice(met, w)
                          ELSE pic' = met.pic /\ UNCHANGED <<ground, captionVars, shown>>
                       /\ old_n_fruit' = Cardinality(met.maze.fruits)
                       /\ walk' = Chosen(w, next)
                       /\ pc' = "step"
    /\ UNCHANGED <<need_redraw, ticks, fruit_at_start>>

\* The rest of that tick: a step, if the player is not stopped.
StepOn ==
    /\ pc = "step"
    /\ \/ walk.dir = DIR_STOP /\ UNCHANGED <<walk, pic, ground, need_redraw>>
       \/ walk.dir # DIR_STOP /\ Move(pic, ground, maze, walk)
    /\ ticks' = ticks - 1
    /\ pc' = "tick"
    /\ UNCHANGED <<maze, old_n_fruit, captionVars, shown, fruit_at_start>>

\* Variant: the caption stays in the picture.
UntitledNot(p) == p

\* The picture without the caption that was added for the screen.
Untitled(p) == Shaded(p, walk, caption, -1)

\* After the ticks, or the one that won the level: the screen, with the
\* caption if there is one, and without it once its seconds are over.
Redraw ==
    /\ (pc = "tick" /\ ticks = 0) \/ pc = "won"
    /\ LET titled == IF trans_flag = 10 THEN Shaded(pic, walk, caption, 1) ELSE pic
           redrawn == IF need_redraw = 1 THEN Screen(titled, walk) ELSE shown
       IN  IF trans_flag = 0
           THEN /\ shown' = redrawn /\ pic' = titled
                /\ overdue' = (overdue /\ need_redraw = 0)
                /\ UNCHANGED <<trans_flag, caption, age>>
           ELSE /\ pic' = Untitled(titled)
                /\ Aged(caption, age)
                /\ shown' = IF trans_flag' = 0 THEN Screen(pic', walk) ELSE redrawn
                /\ UNCHANGED overdue
    /\ need_redraw' = 0 /\ ticks' = 0
    /\ pc' = (IF pc = "won" THEN "level" ELSE "wait")
    /\ UNCHANGED <<maze, walk, ground, old_n_fruit, fruit_at_start>>

\* The loop over levels is left: all are done, one cannot be prepared, or the
\* game was quit, which is looked at here and before each read of the clock.
Leave ==
    /\ pc \in {"level", "wait"} /\ pc' = "over"
    /\ UNCHANGED <<maze, walk, pic, ground, old_n_fruit,
                   captionVars, need_redraw, shown, ticks, fruit_at_start>>

Next == StartLevel \/ Wait \/ Between \/ NewSquare \/ StepOn \/ Redraw \/ Leave

Spec == Init /\ [][Next]_vars

------------------------------------------------------------------------------

StartBlock ==
    {<<c[1] + BLOCK_X_DIM, c[2] + BLOCK_Y_DIM>> : c \in Cells}

\* What the picture should show: the map, and the player over it.
TruePicture == WithBlock(MapPicture(maze, walk), walk.x, walk.y,
                         PlayerOver(BlockAt(MapPicture(maze, walk), walk), walk))

(* Between frames the picture is the map with the player over it: no trace *)
(* of where the player was, no caption, no fruit that was eaten.  But a    *)
(* fruit at the start is missed only after the player was drawn: the       *)
(* ground is then taken with the player on it, and a ghost stays at the    *)
(* start, and only there (mazegame.c:530, 606-609, 684).                   *)
TracesCovered ==
    pc = "wait" =>
        \A q \in ViewOf(walk) :
            pic[q] = TruePicture[q] \/ (fruit_at_start /\ q \in StartBlock)

(* The screen shows the caption exactly while one is on (mazegame.c:697-   *)
(* 715), and is late in two respects only, until the next step of a player *)
(* who stopped: mist that was lifted around him is on it (mazegame.c:600), *)
(* and a caption whose seconds were over when it was taken off the picture *)
(* for the first time (mazegame.c:661-668).                                *)
ScreenTrue ==
    pc = "wait" =>
        /\ (\E p \in DOMAIN shown : shown[p][3] # 0) =>
               (trans_flag = 10 /\ caption # {}) \/ (overdue /\ walk.dir = DIR_STOP)
        /\ trans_flag = 10 /\ caption # {} => \E p \in DOMAIN shown : shown[p][3] # 0
        /\ \A p \in DOMAIN shown :
               LET now == pic[<<walk.map_x + p[1], walk.map_y + p[2]>>]
               IN  \/ <<shown[p][1], shown[p][2]>> = <<now[1], now[2]>>
                   \/ shown[p][1] \in {"mist", "bump"}
====
