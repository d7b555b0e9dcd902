---- MODULE MakeMaze ----
(* make_maze: worms eat the walls, then what they left apart is connected, *)
(* then fruits and the exit are placed.  random() is a choice.             *)
EXTENDS MazeLattice

CONSTANTS
    XDim, YDim,          \* maze_x_dim, maze_y_dim
    StartFruits,         \* start_fruits
    Few,                 \* 20 in the code: scan when fewer points remain
    MaxTrials            \* 100 in the code: scan after that many tries

VARIABLES
    stage, open, reach, remaining, x, y, pref_dir, trials, fruits, n_fruits, exit

makeVars == <<stage, open, reach, remaining, x, y, pref_dir, trials, fruits, n_fruits, exit>>

point == MAZE_INDEX(XDim, x, y)

Odd(n) == {2 * i - 1 : i \in 1 .. n}

Init ==
    /\ stage = "hatch" /\ open = {} /\ reach = {}
    /\ remaining = XDim * YDim
    /\ x = 1 /\ y = 1 /\ pref_dir = DIR_UP /\ trials = 0
    /\ fruits = {} /\ n_fruits = 0 /\ exit = 0

\* A worm starts at a lattice point that is still a wall.
Hatch ==
    /\ stage = "hatch"
    /\ \E a \in Odd(XDim), b \in Odd(YDim) :
           /\ MAZE_INDEX(XDim, a, b) \notin open
           /\ x' = a /\ y' = b
           /\ open' = open \union {MAZE_INDEX(XDim, a, b)}
    /\ remaining' = remaining - 1
    /\ pref_dir' \in Dirs
    /\ stage' = "crawl"
    /\ UNCHANGED <<reach, trials, fruits, n_fruits, exit>>

\* Variant: the right limit is tested like the others, against the column.
MayTurnWide(d) ==
    CASE d = DIR_UP -> y > 1 [] d = DIR_RIGHT -> x < XDim * 2 + 1
      [] d = DIR_DOWN -> y < YDim * 2 - 1 [] d = DIR_LEFT -> x > 1

\* The directions with a weight.
MayTurn(d) ==
    CASE d = DIR_UP -> y > 1 [] d = DIR_RIGHT -> x < XDim * 2 - 1
      [] d = DIR_DOWN -> y < YDim * 2 - 1 [] d = DIR_LEFT -> x > 1

\* A point that the worm has not visited yet is one less to visit.
Eaten(p) == IF p \in open THEN 0 ELSE 1

Crawl ==
    /\ stage = "crawl"
    /\ \E d \in Dirs :
           /\ MayTurn(d) /\ d # Opposite(pref_dir)
           /\ pref_dir' = d
           /\ x' = x + (CASE d = DIR_RIGHT -> 2 [] d = DIR_LEFT -> -2 [] OTHER -> 0)
           /\ y' = y + (CASE d = DIR_DOWN -> 2 [] d = DIR_UP -> -2 [] OTHER -> 0)
           /\ open' = open \union {point + StepOffset(XDim, d), Through(XDim, point, d)}
           /\ remaining' = remaining - Eaten(Through(XDim, point, d))
    /\ UNCHANGED <<stage, reach, trials, fruits, n_fruits, exit>>

\* The worm turns around, and is done; the last one leaves to the second
\* phase, which begins with what is connected to (1,1).
TurnBack ==
    /\ stage = "crawl" /\ MayTurn(Opposite(pref_dir))
    /\ IF remaining > 0
       THEN stage' = "hatch" /\ UNCHANGED <<reach, remaining>>
       ELSE LET marked == mark_maze_area(XDim, YDim, open, {}, MAZE_INDEX(XDim, 1, 1))
            IN  /\ stage' = "connect"
                /\ reach' = marked
                /\ remaining' = XDim * YDim - Cardinality(marked)
    /\ UNCHANGED <<open, x, y, pref_dir, trials, fruits, n_fruits, exit>>

Scanning == remaining < Few \/ trials + 1 > MaxTrials

\* Variant: the scan moves along the row it is in and never to the next.
ScannedRow == <<IF x + 2 > XDim * 2 THEN x + 2 - XDim * 2 ELSE x + 2, y>>

\* The next point of the scan, row by row and back to the top.
Scanned ==
    IF x + 2 > XDim * 2
    THEN <<x + 2 - XDim * 2, IF y + 2 > 2 * YDim THEN y + 2 - 2 * YDim ELSE y + 2>>
    ELSE <<x + 2, y>>

\* A point not yet reached, at random.
Unreached ==
    {ab \in Odd(XDim) \X Odd(YDim) : MAZE_INDEX(XDim, ab[1], ab[2]) \notin reach}

\* The first reached neighbour of (a, b), in the order the code tests them.
ConnectOrder == <<DIR_UP, DIR_LEFT, DIR_RIGHT, DIR_DOWN>>

Neighbour(a, b, d) ==
    /\ CASE d = DIR_UP -> b > 1 [] d = DIR_LEFT -> a > 1
         [] d = DIR_RIGHT -> a < 2 * XDim - 1 [] d = DIR_DOWN -> b < 2 * YDim - 1
    /\ Through(XDim, MAZE_INDEX(XDim, a, b), d) \in reach

KnockedDown(a, b) ==
    LET found == {k \in 1 .. 4 : Neighbour(a, b, ConnectOrder[k])}
    IN  IF found = {} THEN {} ELSE {ConnectOrder[CHOOSE k \in found : \A j \in found : k <= j]}

\* Variant: what hangs on the newly connected point is not marked.
NewlyReachedOne(wall, p) == {p}

NewlyReached(wall, p) == mark_maze_area(XDim, YDim, open \union wall, reach, p)

\* One round of the second phase.  A scanned point that is reached already,
\* and one without a reached neighbour, leave everything as it is.
Connect ==
    /\ stage = "connect"
    /\ trials' = IF remaining < Few \/ trials > MaxTrials THEN trials ELSE trials + 1
    /\ \E ab \in IF Scanning THEN {Scanned} ELSE Unreached :
           LET p == MAZE_INDEX(XDim, ab[1], ab[2])
               wall == IF p \in reach THEN {}
                       ELSE {p + StepOffset(XDim, d) : d \in KnockedDown(ab[1], ab[2])}
               more == IF wall = {} THEN {} ELSE NewlyReached(wall, p)
           IN  /\ x' = ab[1] /\ y' = ab[2]
               /\ open' = open \union wall
               /\ remaining' = remaining - Cardinality(more)
               /\ IF remaining' > 0
                  THEN stage' = "connect" /\ reach' = reach \union more
                  ELSE stage' = "place" /\ reach' = {}
    /\ UNCHANGED <<pref_dir, fruits, n_fruits, exit>>

_add_a_fruit ==
    /\ stage = "place" /\ n_fruits < StartFruits
    /\ \E p \in Points(XDim, YDim) \ fruits : fruits' = fruits \union {p}
    /\ n_fruits' = n_fruits + 1
    /\ UNCHANGED <<stage, open, reach, remaining, x, y, pref_dir, trials, exit>>

ExitPlaces == {ab \in Odd(XDim) \X Odd(YDim) : MAZE_INDEX(XDim, ab[1], ab[2]) \notin fruits}

PlaceExit ==
    /\ stage = "place" /\ n_fruits = StartFruits
    /\ \E ab \in ExitPlaces : x' = ab[1] /\ y' = ab[2] /\ exit' = MAZE_INDEX(XDim, ab[1], ab[2])
    /\ stage' = "made"
    /\ UNCHANGED <<open, reach, remaining, pref_dir, trials, fruits, n_fruits>>

Next == Hatch \/ Crawl \/ TurnBack \/ Connect \/ _add_a_fruit \/ PlaceExit

(* What worms and draws do is chance; the second phase needs no luck.      *)
Spec == Init /\ [][Next]_makeVars /\ WF_makeVars(Connect)

------------------------------------------------------------------------------

(* remaining counts the points still walls while worms crawl (the loop of  *)
(* maze.c:256-335 would not end, or end early, were it wrong), and those   *)
(* not reached from (1,1) while they are being connected (:342-387).       *)
RemainingCounts ==
    /\ stage \in {"hatch", "crawl"} => remaining = Cardinality(Points(XDim, YDim) \ open)
    /\ stage = "connect" =>
           /\ remaining = Cardinality(Points(XDim, YDim) \ reach)
           /\ reach = mark_maze_area(XDim, YDim, open, {}, MAZE_INDEX(XDim, 1, 1))

(* The maze handed to the game is what the game and its drawing take for   *)
(* granted: all points open and connected, the boundary whole although its *)
(* right column is the left one of the next row, as many fruits as         *)
(* counted, and an exit that no fruit hides (make_maze, maze.c:223-430).   *)
MadeGood ==
    stage = "made" =>
        /\ GoodMaze(XDim, YDim, open, fruits, exit)
        /\ n_fruits = Cardinality(fruits)
        /\ reach = {}

(* While a maze is made its counts are those of its squares, and what is   *)
(* made is a maze (maze.c:223-430).                                        *)
MazeSafety == RemainingCounts /\ MadeGood

(* The second phase ends whatever random() says: the scan that follows     *)
(* unlucky trials finds a pair to connect until none is left.              *)
ConnectEnds == (stage = "connect") ~> (stage \in {"place", "made"})
====
