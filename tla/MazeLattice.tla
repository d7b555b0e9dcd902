---- MODULE MazeLattice ----
(* The array of a maze of xd by yd lattice points (maze.c).  A location is *)
(* an index of the array, as MAZE_INDEX computes it: the right boundary is *)
(* column 0 of the next row.  Lattice points have odd coordinates; the     *)
(* location between two of them is a wall or a passage.                    *)
EXTENDS Integers, FiniteSets

\* dir_t of blocks.h
DIR_UP == 0

DIR_RIGHT == 1

DIR_DOWN == 2

DIR_LEFT == 3

DIR_STOP == 4

Dirs == DIR_UP .. DIR_LEFT

Opposite(d) == (d + 2) % 4

MAZE_INDEX(xd, a, b) == a + (b + 1) * xd * 2

\* From a location to its neighbour in direction d.
StepOffset(xd, d) ==
    CASE d = DIR_UP -> -2 * xd [] d = DIR_RIGHT -> 1 [] d = DIR_DOWN -> 2 * xd [] d = DIR_LEFT -> -1

Points(xd, yd) ==
    {MAZE_INDEX(xd, 2 * i - 1, 2 * j - 1) : i \in 1 .. xd, j \in 1 .. yd}

\* The point reached from p through an open wall in direction d.
Through(xd, p, d) == p + 2 * StepOffset(xd, d)

IsOpen(xd, open, p, d) == p + StepOffset(xd, d) \in open

\* mark_maze_area: what the search from start marks, beside what is in reach.
mark_maze_area(xd, yd, open, reach, start) ==
    LET marked[n \in 0 .. xd * yd] ==
            IF n = 0 THEN {start}
            ELSE UNION {{p} \union ({Through(xd, p, d) : d \in {d \in Dirs : IsOpen(xd, open, p, d)}} \ reach) :
                            p \in marked[n - 1]}
    IN  marked[xd * yd]

\* Whether no set of points is cut off from the others.
Connected(xd, yd, open) ==
    LET points == Points(xd, yd)
        doors == {pd \in points \X Dirs : IsOpen(xd, open, pd[1], pd[2])}
    IN  \A S \in SUBSET points \ {{}, points} :
            \E pd \in doors : pd[1] \in S /\ Through(xd, pd[1], pd[2]) \in points \ S

\* Locations strictly inside the boundary.
Inside(xd, yd) == {MAZE_INDEX(xd, a, b) : a \in 1 .. 2 * xd - 1, b \in 1 .. 2 * yd - 1}

\* What the game takes for granted of a maze that make_maze returned.
GoodMaze(xd, yd, open, fruits, exit) ==
    /\ Points(xd, yd) \subseteq open /\ open \subseteq Inside(xd, yd)
    /\ Connected(xd, yd, open)
    /\ fruits \subseteq Points(xd, yd)
    /\ exit \in Points(xd, yd) \ fruits
====
