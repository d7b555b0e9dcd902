---------------------------- MODULE UserPrograms ----------------------------
(***************************************************************************)
(* The programs in syscalls/ besides the shell and grep: ece391syserr.c,   *)
(* which tries system calls with arguments that must be refused, and those *)
(* that print something.  They run on the kernel, whose calls are what     *)
(* handlers.S, syscalls.c and the functions of a descriptor make of them,  *)
(* or are tried on Linux, where ece391emulate.c stands in for it.          *)
(*                                                                         *)
(* Commands and lines are sequences of words, blanks and newlines.         *)
(***************************************************************************)
EXTENDS Integers, SequencesExt

CONSTANTS
    Entries,    \* of the directory: name, kind, elf, letters of the name, bytes
    FdMax,      \* FILE_DESC_SIZE
    FNAME_MAX,
    BUFSIZE,    \* of the buffers of programs
    Commands,   \* what a shell executes on each system
    Lines,      \* what is typed when a program asks
    Counts,     \* how far counter counts for each number of a test
    SCREENWIDTH, ENDCHAR,   \* of pingpong, whose letters are 1 .. ENDCHAR
    BLANK, NEWLINE, NUL, WALL   \* characters that are not words

STDIN == 0
STDOUT == 1
FFAIL == -1
NULL == 0

NEG_FD == -1073741823
BIG_FD == 1073741823
NEG_NUM == -1073741823
BIG_NUM == 1073741823
PROGRAM_SEGMENT == 134217728
USER_VMEM == 138412032
KERNEL_ADDRESS == 4194304

VARIABLES
    file_ops,   \* the kind of each descriptor in use
    todo,       \* tests that are left
    calls,      \* calls that are left of the first of them
    fail,       \* the sum of what the tests returned
    cnt,        \* calls of the test that did not return what it wants; or
                \* what a program has read, or counted
    step,
    system,     \* "kernel" or "linux"
    command,    \* as the shell executes it
    running,    \* the program, and
    args,       \* what comes after its name, by what the system keeps of it
    inode, file_pos,    \* the entry that is open, and the place in it
    buf, printed,
    max,        \* of counter
    ball,       \* of pingpong
    status      \* what execute returns

tests == <<file_ops, todo, calls, fail>>
started == <<system, command, running, args>>
files == <<inode, file_pos>>
vars == <<tests, cnt, step, started, files, buf, printed, max, ball, status>>

\* StdStreams of Process.
Init ==
    /\ file_ops = [fd \in {STDIN, STDOUT} |-> "terminal"]
    /\ todo = << >> /\ calls = << >> /\ fail = 0 /\ cnt = 0
    /\ step = "execute"
    /\ system \in DOMAIN Commands /\ command \in Commands[system]
    /\ running = << >> /\ args = << >> /\ inode = 0 /\ file_pos = 0 /\ buf = << >> /\ printed = << >>
    /\ max = 0
    /\ ball = [at |-> 0, back |-> FALSE, curchar |-> 0]
    /\ status = 0

-----------------------------------------------------------------------------
(* The calls of the kernel, and who answers them for which descriptor.     *)

InTable(fd) == fd >= 0 /\ fd < FdMax
Used == DOMAIN file_ops
Free == {fd \in 0 .. FdMax - 1 : fd \notin Used}

Found(name) == {k \in DOMAIN Entries : Entries[k].name = name}
Index(name) == CHOOSE k \in Found(name) : \A j \in Found(name) : j <= k
Dentry(name) == Entries[Index(name)]

terminal_write == TRUE
file_write == FALSE
directory_write == FALSE
terminal_close == FALSE
file_close == TRUE
rtc_close == TRUE
rtc_write == TRUE
\* It fails, and yet the descriptor is free afterwards.
directory_close == FALSE

Writes(kind) ==
    \/ kind = "terminal" /\ terminal_write
    \/ kind = "file" /\ file_write
    \/ kind = "dir" /\ directory_write
    \/ kind = "rtc" /\ rtc_write
Closes(kind) ==
    \/ kind = "terminal" /\ terminal_close
    \/ kind = "file" /\ file_close
    \/ kind = "dir" /\ directory_close
    \/ kind = "rtc" /\ rtc_close
Frees(kind) == kind # "terminal"

\* Variant: the descriptors of the terminal are let through.
read_worksAny(fd) == InTable(fd) /\ fd \in Used

read_works(fd) == InTable(fd) /\ fd # STDOUT /\ fd \in Used

write_works(fd) == InTable(fd) /\ fd # STDIN /\ fd \in Used /\ Writes(file_ops[fd])

open_works(name) == Found(name) # {} /\ Free # {}

close_works(fd) == InTable(fd) /\ fd \in Used /\ Closes(file_ops[fd])

vidmap_works(address) == address # NULL /\ address >= PROGRAM_SEGMENT /\ address <= USER_VMEM

\* ja takes a negative number for a large one.
sys_call_works(n) == n # 0 /\ n \in 0 .. 10

set_handler == FFAIL

Works(call, on) ==
    \/ call = "read" /\ read_works(on)
    \/ call = "write" /\ write_works(on)
    \/ call = "open" /\ open_works(on)
    \/ call = "close" /\ close_works(on)
    \/ call = "vidmap" /\ vidmap_works(on)
    \/ call = "sys_call" /\ sys_call_works(on)

After(call, on) ==
    IF call = "open" /\ open_works(on)
    THEN [fd \in Used \cup {Min(Free)} |-> IF fd \in Used THEN file_ops[fd] ELSE Dentry(on).kind]
    ELSE IF call = "close" /\ on \in Used /\ Frees(file_ops[on])
    THEN [fd \in Used \ {on} |-> file_ops[fd]]
    ELSE file_ops

-----------------------------------------------------------------------------
(* Starting a program.                                                     *)

\* The first place from i on that has one of some characters, or is the NUL.
FirstOf(s, i, chars) == CHOOSE e \in i .. Len(s) + 1 :
    /\ e = Len(s) + 1 \/ s[e] \in chars
    /\ \A k \in i .. e - 1 : s[k] \notin chars

\* The first place from i on that is not a blank.
Past(s, i) == CHOOSE e \in i .. Len(s) + 1 :
    /\ e = Len(s) + 1 \/ s[e] # BLANK
    /\ \A k \in i .. e - 1 : s[k] = BLANK

\* create_process: the name, and all of the rest behind one blank.
create_process(s) ==
    LET e == FirstOf(s, 1, {BLANK}) IN [name |-> SubSeq(s, 1, e - 1), args |-> SubSeq(s, e + 1, Len(s))]

\* Variant: blanks before an argument are not skipped.
words_fromAll(s, i) ==
    LET from[k \in 1 .. Len(s) + 2] ==
            IF k > Len(s) THEN << >>
            ELSE LET end == FirstOf(s, k, {BLANK, NEWLINE}) IN <<SubSeq(s, k, end - 1)>> \o from[end + 1]
    IN  from[i]

\* The loop of ece391_execute: arguments from place i on.  A newline that is
\* where an argument should begin ends the command; one behind an argument
\* only ends the argument.
words_from(s, i) ==
    LET from[k \in 1 .. Len(s) + 2] ==
            LET scan == Past(s, k)
                end == FirstOf(s, scan, {BLANK, NEWLINE})
            IN  IF k > Len(s) THEN << >>
                ELSE IF scan > Len(s) \/ end = scan THEN << >>
                ELSE <<SubSeq(s, scan, end - 1)>> \o from[end + 1]
    IN  from[i]

\* On Linux: the name and the array of arguments.
ece391_execute(s) ==
    LET e == FirstOf(s, 1, {BLANK, NEWLINE}) IN [name |-> SubSeq(s, 1, e - 1), args |-> words_from(s, e + 1)]

\* What is not there, or is not a program, is not started: execv returns, and
\* the child kills itself.
Execute ==
    /\ step = "execute"
    /\ LET c == IF system = "kernel" THEN create_process(command) ELSE ece391_execute(command)
       IN  IF \/ system = "linux" /\ Len(command) > BUFSIZE - 1
              \/ Found(c.name) = {} \/ ~Dentry(c.name).elf
           THEN status' = FFAIL /\ step' = "done" /\ UNCHANGED <<running, args>>
           ELSE running' = c.name /\ args' = c.args /\ step' = "main" /\ UNCHANGED status
    /\ UNCHANGED <<tests, cnt, system, command, files, buf, printed, max, ball>>

\* The system call: up to nbytes of the string kept.
getargs(nbytes) == SubSeq(args, 1, Min({nbytes, Len(args)}))

\* Variant: the room for the blank is not counted.
ece391_getargsFree(argv, nbytes) ==
    LET Add(got, k) ==
            IF got.left < Len(argv[k]) \/ (k > 1 /\ got.left < 1) THEN [got EXCEPT !.left = -1]
            ELSE [left |-> got.left - Len(argv[k]),
                  text |-> got.text \o (IF k > 1 THEN <<BLANK>> ELSE << >>) \o argv[k]]
        all == FoldLeft(Add, [left |-> nbytes, text |-> << >>], [k \in DOMAIN argv |-> k])
    IN  IF all.left < 1 THEN << >> ELSE <<all.text>>

\* On Linux: the arguments one by one, a blank before each but the first, as
\* long as there is room, and room for the NUL.
ece391_getargs(argv, nbytes) ==
    LET Add(got, k) ==
            LET room == IF k > 1 THEN got.left - 1 ELSE got.left
            IN  IF room < Len(argv[k]) THEN [got EXCEPT !.left = -1]
                ELSE [left |-> room - Len(argv[k]),
                      text |-> got.text \o (IF k > 1 THEN <<BLANK>> ELSE << >>) \o argv[k]]
        all == FoldLeft(Add, [left |-> nbytes, text |-> << >>], [k \in DOMAIN argv |-> k])
    IN  IF all.left < 1 THEN << >> ELSE <<all.text>>

-----------------------------------------------------------------------------
(* cat and ls.                                                             *)

Goto(now, next) == step = now /\ step' = next /\ UNCHANGED status
Exit(now, value) == step = now /\ step' = "done" /\ status' = value

\* What a program gets of its arguments: nothing, where the call fails.
Arguments == IF system = "kernel" THEN <<getargs(BUFSIZE)>> ELSE ece391_getargs(args, BUFSIZE)

cat ==
    /\ running = <<"cat">>
    /\ IF Arguments = << >> THEN Exit("main", 3) /\ UNCHANGED buf
       ELSE Goto("main", "open") /\ buf' = Arguments[1]
    /\ UNCHANGED <<tests, cnt, started, files, printed, max, ball>>

ls ==
    /\ running = <<"ls">> /\ Goto("main", "open")
    /\ buf' = <<".">>
    /\ UNCHANGED <<tests, cnt, started, files, printed, max, ball>>

\* Linux has no file for the clock.
ece391_open(name) == Found(name) # {} /\ Dentry(name).kind # "rtc"

Open ==
    /\ running \in {<<"cat">>, <<"ls">>}
    /\ IF IF system = "kernel" THEN open_works(buf) ELSE ece391_open(buf)
       THEN Goto("open", "read") /\ file_ops' = After("open", buf) /\ inode' = Index(buf) /\ file_pos' = 0
       ELSE Exit("open", 2) /\ UNCHANGED <<file_ops, files>>
    /\ UNCHANGED <<todo, calls, fail, cnt, started, buf, printed, max, ball>>

\* A letter of an entry, or what lies behind a name that fills its place.
Letter(entry, i) ==
    IF i <= Len(entry.letters) THEN entry.letters[i]
    ELSE IF Len(entry.letters) = FNAME_MAX /\ i = FNAME_MAX + 1 /\ entry.kind # "rtc" THEN entry.kind ELSE NUL

\* As many bytes as were asked for, by which the position moves on.
directory_read(nbytes) ==
    LET index == file_pos \div FNAME_MAX + 1
    IN  IF index \notin DOMAIN Entries THEN << >>
        ELSE [i \in 1 .. nbytes |-> Letter(Entries[index], i)]

\* On Linux: the next name, and NULs up to the length of the longest.
ece391_read(nbytes) ==
    IF file_pos + 1 \notin DOMAIN Entries THEN << >>
    ELSE [i \in 1 .. Min({nbytes, FNAME_MAX}) |->
            IF i <= Len(Entries[file_pos + 1].letters) THEN Entries[file_pos + 1].letters[i] ELSE NUL]

\* The clock has nothing to be read after its tick.
ReadBytes(nbytes) ==
    CASE Entries[inode].kind = "file" -> LET bytes == Entries[inode].bytes
                                            IN  SubSeq(bytes, file_pos + 1, Min({file_pos + nbytes, Len(bytes)}))
      [] Entries[inode].kind = "dir" -> IF system = "kernel" THEN directory_read(nbytes) ELSE ece391_read(nbytes)
      [] Entries[inode].kind = "rtc" -> << >>

\* ls reads names, and cat what its buffer holds.
Nbytes == IF running = <<"ls">> THEN FNAME_MAX ELSE BUFSIZE

Read ==
    /\ step = "read"
    /\ buf' = ReadBytes(Nbytes) /\ cnt' = Len(buf')
    /\ file_pos' = file_pos + IF system = "linux" /\ Entries[inode].kind = "dir" THEN 1 ELSE cnt'
    /\ IF buf' = << >> THEN Exit("read", 0) ELSE Goto("read", "write")
    /\ UNCHANGED <<tests, started, inode, printed, max, ball>>

Write ==
    /\ Goto("write", "read")
    /\ printed' = printed \o buf \o (IF running = <<"ls">> THEN <<NEWLINE>> ELSE << >>)
    /\ UNCHANGED <<tests, cnt, started, files, buf, max, ball>>

-----------------------------------------------------------------------------
(* Programs that ask for a line: hello, counter, sigtest and the tests.    *)

Ask ==
    /\ running \in {<<"hello">>, <<"counter">>, <<"sigtest">>} /\ Goto("main", "line")
    /\ UNCHANGED <<tests, cnt, started, files, buf, printed, max, ball>>

\* What terminal_read returns: what was typed, and its newline.
ReadLine ==
    /\ Goto("line", "use")
    /\ \E line \in Lines : buf' = Append(line, NEWLINE)
    /\ cnt' = Len(buf')
    /\ UNCHANGED <<tests, started, files, printed, max, ball>>

hello ==
    /\ running = <<"hello">> /\ Exit("use", 0)
    /\ printed' = buf
    /\ UNCHANGED <<tests, cnt, started, files, buf, max, ball>>

\* do_exception: halt(0), whatever the exception was.
do_exception == 0

\* It asks for a handler of the fault it makes next, is given none, and the
\* fault ends it.  With one it would go on and greet.
sigtest ==
    /\ running = <<"sigtest">>
    /\ IF args = <<"1">> /\ set_handler # FFAIL
       THEN Exit("use", 0) /\ printed' = buf
       ELSE Exit("use", do_exception) /\ UNCHANGED printed
    /\ UNCHANGED <<tests, cnt, started, files, buf, max, ball>>

testprint ==
    /\ running = <<"testprint">> /\ Exit("main", 0)
    /\ printed' = <<"Yay!">>
    /\ UNCHANGED <<tests, cnt, started, files, buf, max, ball>>

\* A single newline is no wrong choice: it counts up to nothing.
WrongChoice == Len(buf) > 2 \/ (Len(buf) = 2 /\ buf[1] \notin DOMAIN Counts)

Choose ==
    /\ running = <<"counter">>
    /\ IF WrongChoice
       THEN Exit("use", 0) /\ UNCHANGED max
       ELSE Goto("use", "count") /\ max' = IF buf[1] \in DOMAIN Counts THEN Counts[buf[1]] ELSE 0
    /\ cnt' = 0
    /\ UNCHANGED <<tests, started, files, buf, printed, ball>>

\* Variant: the digits stay as they were found.
ece391_strrevNot(s) == s

\* From both ends to the middle.
ece391_strrev(s) == [k \in DOMAIN s |-> s[Len(s) + 1 - k]]

\* Digits from the lowest on, and then turned round.
ece391_itoa(value, radix) ==
    LET digits[v \in 0 .. value] == IF v = 0 THEN << >> ELSE <<v % radix>> \o digits[v \div radix]
    IN  IF value = 0 THEN <<0>> ELSE ece391_strrev(digits[value])

Count ==
    /\ IF cnt < max
       THEN /\ Goto("count", "count")
            /\ buf' = ece391_itoa(cnt + 1, 10)
            /\ printed' = Append(printed, buf')
            /\ cnt' = cnt + 1
       ELSE Exit("count", 0) /\ UNCHANGED <<buf, printed, cnt>>
    /\ UNCHANGED <<tests, started, files, max, ball>>

-----------------------------------------------------------------------------
(* pingpong: a letter that goes from wall to wall, one place a tick of the *)
(* clock, and the next letter after it.                                    *)

BUFMAX == SCREENWIDTH + 2
START == 1
STARTLOOP == START + 1
LOOPMAX == SCREENWIDTH - 1
STARTCHAR == 1

Walls ==
    [i \in 0 .. BUFMAX - 1 |->
        IF i = BUFMAX - 1 THEN NUL ELSE IF i = BUFMAX - 2 THEN NEWLINE
        ELSE IF i \in {START, BUFMAX - 3} THEN WALL ELSE BLANK]

Drawn(b) == [Walls EXCEPT ![b.at] = b.curchar]

pingpong ==
    /\ running = <<"pingpong">> /\ Goto("main", "tick")
    /\ file_ops' = After("open", <<"rtc">>)
    /\ ball' = [at |-> STARTLOOP, back |-> FALSE, curchar |-> STARTCHAR]
    /\ printed' = <<Walls, Drawn(ball')>>
    /\ UNCHANGED <<todo, calls, fail, cnt, started, files, buf, max>>

\* Variant: the way back begins where the wall is.
MovedFar(b) ==
    IF ~b.back /\ b.at + 1 < LOOPMAX THEN [b EXCEPT !.at = @ + 1]
    ELSE IF ~b.back THEN [b EXCEPT !.back = TRUE, !.at = LOOPMAX]
    ELSE IF b.at - 1 >= STARTLOOP THEN [b EXCEPT !.at = @ - 1]
    ELSE [at |-> STARTLOOP, back |-> FALSE, curchar |-> IF b.curchar = ENDCHAR THEN STARTCHAR ELSE b.curchar + 1]

\* One step of the two loops, and at the end of both the next letter.
Moved(b) ==
    IF ~b.back /\ b.at + 1 < LOOPMAX THEN [b EXCEPT !.at = @ + 1]
    ELSE IF ~b.back THEN [b EXCEPT !.back = TRUE, !.at = LOOPMAX - 1]
    ELSE IF b.at - 1 >= STARTLOOP THEN [b EXCEPT !.at = @ - 1]
    ELSE [at |-> STARTLOOP, back |-> FALSE, curchar |-> IF b.curchar = ENDCHAR THEN STARTCHAR ELSE b.curchar + 1]

\* The frame before, and the one that is drawn.
Tick ==
    /\ Goto("tick", "tick")
    /\ ball' = Moved(ball)
    /\ printed' = <<printed[2], Drawn(ball')>>
    /\ UNCHANGED <<tests, cnt, started, files, buf, max>>

-----------------------------------------------------------------------------
(* The tests.                                                              *)

Each(call, ons) == [k \in DOMAIN ons |-> [call |-> call, on |-> ons[k]]]
Opened == [k \in 1 .. FdMax - 2 |-> k + 1]

err_fd(fd) == Each("read", <<fd>>) \o Each("write", <<fd>>) \o Each("close", <<fd>>)
err_open_lots == Each("open", [k \in 1 .. FdMax - 1 |-> <<".">>]) \o Each("close", Opened)
err_open == Each("open", <<<<"helloo">>, <<"shel">>, << >>>>)
err_unopened == Each("close", [k \in 1 .. FdMax |-> k - 1]) \o Each("read", Opened) \o Each("write", Opened)
err_vidmap == Each("vidmap", <<NULL, KERNEL_ADDRESS>>)
err_stdin_out == Each("write", <<STDIN>>) \o Each("read", <<STDOUT>>)
err_syscall_num == Each("sys_call", <<BIG_NUM, NEG_NUM, 0>>)

Tests ==
    <<err_fd(NEG_FD), err_fd(BIG_FD), err_open_lots, err_open, err_unopened,
      err_vidmap, err_stdin_out, err_syscall_num>>
OPEN_LOTS == 3

idle == <<started, files, buf, printed, max, ball>>

\* The number typed: one test, all, or none.
main ==
    /\ running = <<"syserr">> /\ Goto("main", "next")
    /\ \E select \in 0 .. 9 :
        todo' = IF select = 0 THEN [t \in DOMAIN Tests |-> t]
                ELSE IF select \in DOMAIN Tests THEN <<select>> ELSE << >>
    /\ UNCHANGED <<file_ops, calls, fail, cnt, idle>>

Start ==
    /\ Goto("next", "test") /\ todo # << >>
    /\ calls' = Tests[Head(todo)]
    /\ cnt' = 0
    /\ UNCHANGED <<file_ops, todo, fail, idle>>

\* err_open_lots counts the opens that fail and leaves the results of close;
\* the others count what works.
Counted(call, on) ==
    IF Head(todo) = OPEN_LOTS THEN call = "open" /\ ~Works(call, on) ELSE Works(call, on)

Call ==
    /\ Goto("test", "test") /\ calls # << >>
    /\ LET c == Head(calls)
       IN  /\ cnt' = IF Counted(c.call, c.on) THEN cnt + 1 ELSE cnt
           /\ file_ops' = After(c.call, c.on)
    /\ calls' = Tail(calls)
    /\ UNCHANGED <<todo, fail, idle>>

Passes == IF Head(todo) = OPEN_LOTS THEN cnt = 1 ELSE cnt = 0

Return ==
    /\ Goto("test", "next") /\ calls = << >>
    /\ fail' = IF Passes THEN fail ELSE fail + 2
    /\ todo' = Tail(todo)
    /\ UNCHANGED <<file_ops, calls, cnt, idle>>

Overall ==
    /\ Exit("next", fail) /\ todo = << >>
    /\ UNCHANGED <<tests, cnt, idle>>


Next ==
    \/ Execute
    \/ cat \/ ls \/ Open \/ Read \/ Write
    \/ Ask \/ ReadLine \/ hello \/ sigtest \/ testprint \/ Choose \/ Count
    \/ pingpong \/ Tick
    \/ main \/ Start \/ Call \/ Return \/ Overall

Spec == Init /\ [][Next]_vars

-----------------------------------------------------------------------------
Ended(program) == running = <<program>> /\ step = "done"

(***************************************************************************)
(* The tests pass, each alone and one after the other: what one of them    *)
(* opened does not let a call of the next through, and at the end the      *)
(* program has the descriptors it was started with (ece391syserr.c:36-345).*)
(***************************************************************************)
ErrorsRefused ==
    /\ step = "next" => fail = 0 /\ file_ops = [fd \in {STDIN, STDOUT} |-> "terminal"]
    /\ Ended("syserr") => status = 0

\* Words with one blank between them.
Joined(words) ==
    FoldLeft(LAMBDA text, word : IF text = << >> THEN word ELSE text \o <<BLANK>> \o word, << >>, words)

\* No newline, and no blank first, last or behind another.
PartedOnce(s) ==
    /\ \A k \in DOMAIN s : s[k] # NEWLINE
    /\ \A k \in DOMAIN s : s[k] = BLANK => k > 1 /\ k < Len(s) /\ s[k - 1] # BLANK

\* What a program is asked for, on either system.
Asked == IF system = "kernel" THEN args ELSE Joined(args)

(***************************************************************************)
(* cat prints the whole file that its arguments name, however the length   *)
(* of the file and that of its buffer meet, and nothing of what is not     *)
(* there (ece391cat.c:11-30).                                              *)
(***************************************************************************)
CatShows ==
    Ended("cat") =>
        \/ /\ status = 2 /\ printed = << >>
           /\ Found(Asked) = {} \/ (system = "linux" /\ Dentry(Asked).kind = "rtc")
        \/ /\ status = 0 /\ Found(Asked) # {}
           /\ Dentry(Asked).kind = "file" => printed = Dentry(Asked).bytes
           /\ Dentry(Asked).kind = "rtc" => printed = << >>

(***************************************************************************)
(* ls prints every name once, whole, and on a line of its own, on the      *)
(* kernel as on Linux: each read gives one name and moves to the next      *)
(* (ece391ls.c:13-26, fs.c:162-168, ece391emulate.c:187-205).              *)
(***************************************************************************)
ListsAll ==
    Ended("ls") =>
        /\ status = 0
        /\ SelectSeq(printed, LAMBDA c : c # NUL) =
               FlattenSeq([k \in DOMAIN Entries |-> Append(Entries[k].letters, NEWLINE)])

(***************************************************************************)
(* Where words are parted by one blank each, a program that asks for its   *)
(* arguments is told the same by the kernel and by what stands in for it   *)
(* on Linux, if there is room for them (process.c:47-66,                   *)
(* ece391emulate.c:80-157).                                                *)
(***************************************************************************)
Emulated ==
    (step = "main" /\ PartedOnce(command)) =>
        LET text == create_process(command).args
            argv == ece391_execute(command).args
        IN  \A nbytes \in 1 .. BUFSIZE :
                ece391_getargs(argv, nbytes) = IF Len(text) < nbytes THEN <<text>> ELSE << >>

(***************************************************************************)
(* counter prints the numbers from one on in order, each as it is written  *)
(* in decimal, and as many as were chosen (ece391counter.c:20-41).         *)
(***************************************************************************)
CountsUp ==
    running = <<"counter">> =>
        /\ \A k \in DOMAIN printed :
            /\ FoldLeft(LAMBDA v, digit : 10 * v + digit, 0, printed[k]) = k
            /\ printed[k][1] # 0
        /\ step = "done" => Len(printed) = max

(***************************************************************************)
(* pingpong draws one letter between its walls, from one tick to the next  *)
(* it moves by one place at most, and it is another letter only where the  *)
(* way begins (ece391pingpong.c:41-87).                                    *)
(***************************************************************************)
BallBetween ==
    step = "tick" =>
        LET Places(frame) == {i \in DOMAIN frame : frame[i] \in 1 .. ENDCHAR}
            before == printed[1]
            now == printed[2]
        IN  /\ \A i \in DOMAIN now : now[i] = IF i \in Places(now) THEN now[i] ELSE Walls[i]
            /\ \E i \in START + 1 .. BUFMAX - 4 :
                /\ Places(now) = {i}
                /\ \A j \in Places(before) :
                    /\ j \in i - 1 .. i + 1
                    /\ now[i] # before[j] => i = STARTLOOP /\ j = STARTLOOP

(***************************************************************************)
(* A program that faults is over: the kernel takes no handler, so nothing  *)
(* behind the fault is done.  Whoever executed it is told 0, as if it had  *)
(* returned: the 256 for which the shell has a message (ece391shell.c:30)  *)
(* does not come from this kernel (ece391sigtest.c:23-35, exceptions.c:117,*)
(* syscalls.c:206-220).                                                    *)
(***************************************************************************)
FaultEnds == Ended("sigtest") => printed = << >> /\ status = 0

=============================================================================
