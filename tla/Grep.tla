-------------------------------- MODULE Grep --------------------------------
(***************************************************************************)
(* grep, a program on the kernel: it reads each file of the directory      *)
(* through one buffer, searches the lines it finds there, and keeps the    *)
(* beginning of a line whose end was not read yet for the next read.  A    *)
(* read fills what it is given unless the file ends, as FileSystem's do.   *)
(***************************************************************************)
EXTENDS Integers, Sequences, SequencesExt

CONSTANTS
    BUFSIZE,
    newline, NUL,       \* the two bytes that are not like the others
    Directories,        \* sequences of files, each the sequence of its bytes
    Searches            \* what may be searched for

VARIABLES
    files,              \* of the directory, those still to be read
    s,
    stack,              \* the byte that data is full of at first
    pos,                \* position of the open file
    data, last,         \* the buffer and how much of it is used
    cnt, line_start,
    found,              \* lines printed for the open file
    step                \* "open", "read", "lines", "close", or "done"

vars == <<files, s, stack, pos, data, last, cnt, line_start, found, step>>

\* data is on the stack and not initialised: what is there is any byte.
Init ==
    /\ files \in Directories /\ s \in Searches
    /\ stack \in {newline, NUL} /\ data = [i \in 0 .. BUFSIZE |-> stack]
    /\ pos = 0 /\ last = 0 /\ cnt = 0 /\ line_start = 0 /\ found = << >>
    /\ step = "open"

\* main's loop: the next name of the directory, or the end of it.
Open ==
    /\ step = "open"
    /\ IF files = << >> THEN step' = "done" ELSE step' = "read"
    /\ pos' = 0 /\ last' = 0 /\ found' = << >>
    /\ UNCHANGED <<files, s, stack, data, cnt, line_start>>

Read ==
    /\ step = "read"
    /\ LET left == Len(files[1]) - pos
           room == BUFSIZE - last
           n    == IF left < room THEN left ELSE room
       IN  /\ data' = [i \in 0 .. BUFSIZE |->
                          IF last <= i /\ i < last + n THEN files[1][pos + i - last + 1] ELSE data[i]]
           /\ cnt' = n /\ last' = last + n /\ pos' = pos + n
    /\ line_start' = 0
    /\ step' = "lines"
    /\ UNCHANGED <<files, s, stack, found>>

\* The end of the line that starts at line_start, or of what was read.
line_end ==
    CHOOSE e \in line_start .. last :
        /\ e = last \/ data[e] = newline
        /\ \A i \in line_start .. e - 1 : data[i] # newline

\* Variant: a line is carried over even if the buffer is full of it.
PartialEvenWhole == data[line_end] # newline /\ cnt # 0

\* The line goes on in what was not read yet.  data[last] is behind what was
\* read.
Partial == data[line_end] # newline /\ cnt # 0 /\ line_start # 0

Terminated == [data EXCEPT ![line_end] = NUL]

\* strcpy copies up to the first NUL.
Carry ==
    /\ step = "lines" /\ Partial
    /\ LET stop == CHOOSE k \in line_start .. line_end :
                       Terminated[k] = NUL /\ \A i \in line_start .. k - 1 : Terminated[i] # NUL
       IN  data' = [i \in 0 .. BUFSIZE |->
                       IF i <= stop - line_start THEN Terminated[line_start + i] ELSE Terminated[i]]
    /\ last' = last - line_start
    /\ step' = "read"
    /\ UNCHANGED <<files, s, stack, pos, cnt, line_start, found>>

\* strncmp at one place of the line: the NUL behind it matches nothing.
MatchesAt(check) ==
    /\ check + Len(s) <= line_end
    /\ \A j \in 1 .. Len(s) : data[check + j - 1] = s[j]

Search ==
    /\ step = "lines" /\ ~Partial
    /\ data' = Terminated
    /\ found' = IF \E check \in line_start .. line_end - 1 : MatchesAt(check)
                THEN Append(found, [i \in 1 .. line_end - line_start |-> data[line_start + i - 1]])
                ELSE found
    /\ line_start' = line_end + 1
    /\ IF line_start' >= last
       THEN last' = 0 /\ step' = (IF cnt = 0 THEN "close" ELSE "read")
       ELSE UNCHANGED <<last, step>>
    /\ UNCHANGED <<files, s, stack, pos, cnt>>

Close ==
    /\ step = "close"
    /\ files' = Tail(files)
    /\ step' = "open"
    /\ UNCHANGED <<s, stack, pos, data, last, cnt, line_start, found>>

Next == Open \/ Read \/ Carry \/ Search \/ Close

Spec == Init /\ [][Next]_vars

------------------------------------------------------------------------------

\* A file in lines, of which those too long for the buffer are cut to its size.
Pieces(file) ==
    FoldLeft(LAMBDA lines, c :
                 IF c = newline THEN Append(lines, << >>)
                 ELSE IF Len(Last(lines)) = BUFSIZE THEN Append(lines, <<c>>)
                 ELSE Append(Front(lines), Append(Last(lines), c)),
             << << >> >>, file)

HasString(line) == \E i \in 0 .. Len(line) - Len(s) : SubSeq(line, i + 1, i + Len(s)) = s

(* Whatever the lengths of the lines, and wherever reads cut them, grep    *)
(* prints each line that contains the string once, whole and in order; a   *)
(* line longer than the buffer is searched in pieces of its size.  That    *)
(* much needs a byte the code never sets before it tests it: data[BUFSIZE] *)
(* (ece391grep.c:33), which a newline left on the stack would spoil.       *)
PrintsMatches ==
    step = "close" /\ stack # newline =>
        found = SelectSeq(Pieces(files[1]), HasString)
=============================================================================
