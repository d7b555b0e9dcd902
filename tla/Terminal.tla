------------------------------ MODULE Terminal ------------------------------
(***************************************************************************)
(* A command line on its way from the keyboard to a program: terminal_read *)
(* collects and edits it in the caller's buffer, the shell cuts the        *)
(* newline off, and create_process splits it into a file name and          *)
(* arguments.  The buffer is the shell's and lives from line to line.      *)
(***************************************************************************)
EXTENDS Integers, Sequences, SequencesExt

CONSTANTS
    MAX_BUF_FILL,   \* size of terminal_buf and of the PCB's arguments
    FNAME_MAX,      \* size of a file name
    Letters,        \* characters other than the ones below
    ShellSize,      \* byte count the shell asks for, more than MAX_BUF_FILL
    Sizes,          \* byte counts that other programs ask for, negative ones too
    MaxKeys         \* BOUND: keys pressed before the one that ends a line

Space == "space"
Newline == "newline"
Backspace == "backspace"
NUL == "nul"

VARIABLES
    phase,      \* "shell", "reading", "command", "parsed", "outside"
    nbytes,     \* terminal_read's count, after its cap
    i,          \* next place in the line
    buf,        \* the caller's buffer, from index 0
    ret,        \* what terminal_read returned
    fname,      \* file name create_process looks up
    args,       \* arguments it stores in the PCB
    line,       \* history: the line as its typist sees it
    keys        \* history: how many keys were pressed for it

vars == <<phase, nbytes, i, buf, ret, fname, args, line, keys>>

\* The buffer is large enough for every write of terminal_read.
Indices == 0 .. MAX_BUF_FILL + 2

Bytes == Letters \cup {Space, Newline, NUL}

TypeOK ==
    /\ phase \in {"shell", "reading", "command", "parsed", "outside"}
    /\ nbytes \in Int /\ nbytes <= MAX_BUF_FILL
    /\ i \in Indices
    /\ buf \in [Indices -> Bytes]
    /\ ret \in 0 .. MAX_BUF_FILL + 2
    /\ fname \in Seq(Bytes) /\ args \in Seq(Bytes)
    /\ line \in Seq(Letters \cup {Space}) /\ keys \in Nat

Init ==
    /\ phase = "shell"
    /\ nbytes = 0 /\ i = 0 /\ ret = 0
    /\ buf = [x \in Indices |-> NUL]
    /\ fname = << >> /\ args = << >>
    /\ line = << >> /\ keys = 0

-----------------------------------------------------------------------------
(* terminal_read.                                                          *)

\* What its typist sees: each character goes to the end of the line, a
\* backspace takes the last one off.
Edit(seen, key) ==
    CASE key = Backspace -> IF seen = << >> THEN seen ELSE Front(seen)
      [] key = Newline   -> seen
      [] OTHER           -> Append(seen, key)

\* Variant: no cap.
CapNone(n) == n

Cap(n) == IF n > MAX_BUF_FILL THEN MAX_BUF_FILL - 1 ELSE n

Read(n) ==
    /\ phase = "shell"
    /\ phase' = "reading"
    /\ nbytes' = Cap(n)
    /\ i' = 0
    /\ line' = << >> /\ keys' = 0
    /\ UNCHANGED <<buf, ret, fname, args>>

\* Variant: one more key is taken.
RoomMore == nbytes < 0 \/ i <= nbytes + 1

\* i is unsigned, and so is the comparison: a negative count is no bound.
Room == nbytes < 0 \/ i <= nbytes

\* Every key goes to terminal_buf[i] before it is looked at.
Take(key) ==
    /\ phase = "reading" /\ Room /\ i < MAX_BUF_FILL
    /\ keys < MaxKeys \/ key = Newline
    /\ line' = Edit(line, key) /\ keys' = keys + 1

\* At the end of terminal_buf the next key is stored outside of it.
Overrun ==
    /\ phase = "reading" /\ Room /\ i >= MAX_BUF_FILL
    /\ phase' = "outside"
    /\ UNCHANGED <<nbytes, i, buf, ret, fname, args, line, keys>>

\* Nothing more is said of a machine on which that has happened.
Unknown == phase = "outside" /\ UNCHANGED vars

Type(c) ==
    /\ Take(c)
    /\ buf' = [buf EXCEPT ![i] = c]
    /\ i' = i + 1
    /\ UNCHANGED <<phase, nbytes, ret, fname, args>>

\* Variant: a backspace at the start of the line is not refused.
EraseFirst ==
    /\ Take(Backspace)
    /\ i' = IF i = 0 THEN 1 ELSE i - 1
    /\ UNCHANGED <<phase, nbytes, buf, ret, fname, args>>

Erase ==
    /\ Take(Backspace)
    /\ i' = IF i = 0 THEN 0 ELSE i - 1
    /\ UNCHANGED <<phase, nbytes, buf, ret, fname, args>>

\* Variant: no newline is added.
EndedBare ==
    [x \in Indices |-> IF i + 2 <= x /\ x < MAX_BUF_FILL THEN NUL ELSE buf[x]]

\* The end of the line: a newline at i, zeros from i+2 up to the size of
\* terminal_buf, whatever count was asked for.
Ended ==
    [x \in Indices |-> CASE x = i -> Newline
                         [] i + 2 <= x /\ x < MAX_BUF_FILL -> NUL
                         [] OTHER -> buf[x]]

EndLine ==
    /\ buf' = Ended
    /\ i' = i + 1
    /\ ret' = i + 1
    /\ phase' = "command"
    /\ UNCHANGED <<nbytes, fname, args>>

Enter == Take(Newline) /\ EndLine

Full ==
    /\ phase = "reading" /\ ~Room
    /\ EndLine
    /\ UNCHANGED <<line, keys>>

-----------------------------------------------------------------------------
(* The shell ends the command at the newline; create_process splits it.    *)

\* The bytes of s from index a to the one before b.
Slice(s, a, b) == [k \in 1 .. b - a |-> s[a + k - 1]]

\* The shell's buf[cnt] = '\0', with cnt past a newline taken back.
Command ==
    LET cnt == IF ret > 0 /\ buf[ret - 1] = Newline THEN ret - 1 ELSE ret
    IN  [buf EXCEPT ![cnt] = NUL]

\* The bytes of s from index a on, up to the first one in Stops or to index b.
Run(s, a, b, Stops) == Slice(s, a, Min({x \in a .. b : x = b \/ s[x] \in Stops}))

\* Variant: the name is not ended by a space.
NameInLine(s) == Run(s, 0, FNAME_MAX, {NUL})

NameIn(s) == Run(s, 0, FNAME_MAX, {Space, NUL})

\* Variant: the arguments start at the character that ended the name.
ArgsFromSpace(s) == Run(s, Len(NameIn(s)), MAX_BUF_FILL, {NUL})

\* i++ skips the character that ended the name, a NUL included.
ArgsIn(s) == Run(s, Len(NameIn(s)) + 1, MAX_BUF_FILL, {NUL})

FromShell == nbytes = Cap(ShellSize)

\* An empty line is read over.
Blank ==
    /\ phase = "command" /\ FromShell /\ Command[0] = NUL
    /\ buf' = Command
    /\ phase' = "shell"
    /\ nbytes' = 0 /\ i' = 0 /\ ret' = 0
    /\ line' = << >> /\ keys' = 0
    /\ UNCHANGED <<fname, args>>

Parse ==
    /\ phase = "command" /\ FromShell /\ Command[0] # NUL
    /\ buf' = Command
    /\ fname' = NameIn(Command)
    /\ args' = ArgsIn(Command)
    /\ phase' = "parsed"
    /\ UNCHANGED <<nbytes, i, ret, line, keys>>

\* The program ends and the shell reads on, with the same buffer.
Resume ==
    /\ phase = "parsed"
    /\ phase' = "shell"
    /\ nbytes' = 0 /\ i' = 0 /\ ret' = 0
    /\ fname' = << >> /\ args' = << >>
    /\ line' = << >> /\ keys' = 0
    /\ UNCHANGED buf

\* Another program has read its line, into a buffer of its own.
Consume ==
    /\ phase = "command" /\ ~FromShell
    /\ phase' = "shell"
    /\ buf' = [x \in Indices |-> NUL]
    /\ nbytes' = 0 /\ i' = 0 /\ ret' = 0
    /\ line' = << >> /\ keys' = 0
    /\ UNCHANGED <<fname, args>>

-----------------------------------------------------------------------------
Next ==
    \/ \E n \in Sizes \cup {ShellSize} : Read(n)
    \/ \E c \in Letters \cup {Space} : Type(c)
    \/ Erase
    \/ Enter
    \/ Full
    \/ Overrun
    \/ Unknown
    \/ Blank
    \/ Parse
    \/ Resume
    \/ Consume

Spec == Init /\ [][Next]_vars

-----------------------------------------------------------------------------
(***************************************************************************)
(* Properties.                                                             *)
(***************************************************************************)
\* While a line is read the buffer holds what its typist sees.
LineIsEdited == phase = "reading" => Slice(buf, 0, i) = line

\* terminal_read returns that line and a newline, and counts both.
LineIsReturned ==
    phase = "command" => ret = Len(line) + 1 /\ Slice(buf, 0, ret) = Append(line, Newline)

FirstWord ==
    LET spaces == {k \in DOMAIN line : line[k] = Space}
    IN  IF spaces = {} THEN line ELSE SubSeq(line, 1, Min(spaces) - 1)

\* The program the kernel looks up is the first word typed, cut to the size
\* of a file name, whatever lines were typed before.
NameAsTyped ==
    phase = "parsed" => fname = SubSeq(FirstWord, 1, Min({Len(FirstWord), FNAME_MAX}))

\* When a space follows the first word, the arguments are all that follows
\* that space, backspaced characters and older lines excluded.
ArgsAfterSpace ==
    phase = "parsed" /\ Len(FirstWord) < Len(line) /\ Len(FirstWord) < FNAME_MAX
        => args = SubSeq(line, Len(FirstWord) + 2, Len(line))

\* terminal_read returns at most two bytes more than the count it was asked
\* for, whatever room the caller has for them and for the zeros after them,
\* and leaves terminal_buf only for a count that is negative or exactly the
\* buffer's size.
BytesBounded ==
    /\ phase = "command" => ret <= MAX_BUF_FILL + 1 /\ (nbytes >= 0 => ret <= nbytes + 2)
    /\ phase = "outside" => nbytes < 0 \/ nbytes = MAX_BUF_FILL

(* The line that terminal_read returns is the line that was edited on the  *)
(* screen, ended, at most two bytes longer than the count asked for (the   *)
(* comment at terminal.c:20 says one less than the size); create_process   *)
(* finds in it the name and the arguments that were typed.  Only a count   *)
(* that is negative or the size of terminal_buf lets a key be stored after *)
(* that buffer, and then nothing is promised (terminal.c:30-75,            *)
(* process.c:48-69).                                                       *)
LineSafety ==
    TypeOK /\ LineIsEdited /\ LineIsReturned /\ BytesBounded /\ NameAsTyped /\ ArgsAfterSpace

\* A line that is being read is ended at the byte after the count, and never
\* goes on beyond terminal_buf.
InCount == phase = "reading" => i <= MAX_BUF_FILL /\ (nbytes >= 0 => i <= nbytes + 1)

\* The inductive invariant, and what the constants must be for it: the shell
\* asks for more than terminal_buf holds, which holds more than a file name.
IInv == LineSafety /\ InCount

LineAssumption ==
    /\ MAX_BUF_FILL \in Nat /\ FNAME_MAX \in Nat /\ FNAME_MAX < MAX_BUF_FILL
    /\ ShellSize \in Nat /\ ShellSize > MAX_BUF_FILL
    /\ Sizes \subseteq Int
    /\ Letters \cap {Space, Newline, Backspace, NUL} = {}

(***************************************************************************)
(* A claim of the sources that the code does not keep.                     *)
(***************************************************************************)

\* create_process's comment: "copy args from the remainder of command".  A
\* command of one word has no remainder.
NoArgsWithoutSpace ==
    phase = "parsed" /\ line = FirstWord /\ Len(line) < FNAME_MAX => args = << >>

=============================================================================
