----------------------------- MODULE MCServices -----------------------------
(* What programs build on: the file system, what an address means, the     *)
(* kernel's library, the display adapter, grep, and the other programs:    *)
(* parts of which a behaviour runs one.                                    *)
EXTENDS FileSystem, SequenceTheorems, TLC, TLAPS

CONSTANTS BUFSIZE, newline, BLANK, NUL, WALL, Directories, Searches, Parts

VARIABLES
    part, step, cnt,
    files, s, stack, pos, data, last, line_start, found,
    gdt, idt, idtr, tr, interrupts, fs, paging, page_directory, page_table, user_vid_table,
    tlb, pid, vidmapped, image,
    fn, arg, mem, esi, edi, ecx, edx, df, result,
    file_ops, todo, calls, fail, system, command, running, args, ino, offset, typed, printed, max, ball, status,
    vga, fonts, screen, shown, retraced, framed, settled, program, op, at, mode, target_img, colors, kills

grep == <<files, s, stack, pos, data, last, line_start, found>>
memory == <<gdt, idt, idtr, tr, interrupts, fs, paging, page_directory, page_table,
            user_vid_table, tlb, pid, vidmapped, image>>
library == <<fn, arg, mem, esi, edi, ecx, edx, df, result>>
users == <<file_ops, todo, calls, fail, system, command, running, args, ino, offset, typed, printed, max, ball, status>>
display == <<vga, fonts, screen, shown, retraced, framed, settled, program, op, at, mode, target_img, colors, kills>>
all == <<part, step, cnt, vars, grep, memory, library, users, display>>


\* Formats of one directive or two, and of two with one between that is not known.
MCDirectives ==
    LET percent == 37
        hash == 35
    IN  {<<97>>, <<percent, percent>>, <<percent, hash, 120>>, <<percent, hash, hash, 120>>, <<percent, 113>>}
        \union {<<percent, c>> : c \in {99, 100, 115, 117, 120}}
MCFormats ==
    UNION {[1 .. k -> MCDirectives] : k \in 1 .. 2} \union
    {<<first, <<37, 113>>, second>> : first, second \in MCDirectives}

\* Bytes that are positive and negative as int8_t.
MCStrings == UNION {[1 .. k -> {1, 200}] : k \in 0 .. 3}

Reader == INSTANCE Grep

\* Files shorter than a buffer, as long, and longer; a name that fills its
\* place, and one that has a blank in it.
UserEntries ==
    LET Named(name, kind, letters, bytes) ==
            [name |-> name, kind |-> kind, elf |-> FALSE, letters |-> letters, bytes |-> bytes]
        Program(name) == [Named(<<name>>, "file", <<name>>, <<"E">>) EXCEPT !.elf = TRUE]
        Bytes(n) == [i \in 1 .. n |-> IF i % 3 = 0 THEN "b" ELSE "a"]
    IN  <<Named(<<".">>, "dir", <<".">>, << >>), Named(<<"full">>, "file", <<"a", "b", "c">>, Bytes(8)),
          Named(<<"short">>, "file", <<"s">>, Bytes(7)), Named(<<"rtc">>, "rtc", <<"r", "t", "c">>, << >>),
          Named(<<"a", BLANK, "b">>, "file", <<"a", BLANK>>, Bytes(17)), Named(<<"empty">>, "file", <<"e">>, << >>)>>
        \o [k \in 1 .. 8 |-> Program(<<"cat", "ls", "hello", "counter", "sigtest", "testprint", "pingpong", "syserr">>[k])]

UserCommands ==
    LET On(names) == {<<"cat">>} \union {<<"cat", BLANK>> \o n : n \in names}
        both == On({<<"full">>, <<"short">>, <<"rtc">>, <<"empty">>, <<".">>, <<"nosuch">>, << >>,
                    <<"a", BLANK, "b">>, <<"a", BLANK, BLANK, "b">>, <<BLANK, "full">>, <<"full", BLANK>>})
                \union {<<"ls">>, <<"hello">>, <<"counter">>, <<"testprint">>, <<"full">>, <<"nosuch">>}
    IN  [kernel |-> both \union {<<"sigtest">>, <<"sigtest", BLANK, "1">>, <<"pingpong">>, <<"syserr">>},
         linux |-> both \union On({<<"full", newline, "a">>, <<newline, "full">>, <<"a", BLANK, "b", BLANK, "a", BLANK, "b">>})
                   \union {<<"cat", newline, "full">>}]

Paged == INSTANCE Memory WITH MaxProcess <- 3, Tss <- 4276545, Ldt <- 21123393

\* The instances are ones that the theorems of FileSystem and Memory are about.
ASSUME OtherBlocks /\ Paged!Placed

Routines == INSTANCE Library WITH
    MEM <- 12, WORD <- 4, BITS <- 8, Values <- {-128, -1, 0, 10, 127},
    Formats <- MCFormats, Strings <- MCStrings, MaxLength <- 4, pc <- step

Users == INSTANCE UserPrograms WITH
    Entries <- UserEntries, FdMax <- 8, FNAME_MAX <- 3, BUFSIZE <- 8, Commands <- UserCommands,
    Lines <- {<< >>, <<0>>, <<1>>, <<9>>, <<1, 1>>}, Counts <- (0 :> 12 @@ 1 :> 101),
    SCREENWIDTH <- 6, ENDCHAR <- 3, NEWLINE <- newline, inode <- ino, file_pos <- offset, buf <- typed

Display == INSTANCE VgaRegisters WITH
    SCROLL_X_DIM <- 320, SCROLL_Y_DIM <- 182, FONT_HEIGHT <- 16,
    palette_RGB <- <<<<0, 0, 0>>, <<0, 0, 42>>, <<63, 63, 63>>>>, WALL_FILL_COLOR <- 2, PLAYER_CENTER_COLOR <- 1,
    Levels <- {7}, Hearts <- <<<<63, 0, 5>>>>, MaxKills <- 1

NoGrep ==
    /\ files = << >> /\ s = << >> /\ stack = NUL /\ pos = 0 /\ data = << >> /\ last = 0
    /\ line_start = 0 /\ found = << >>
NoMemory ==
    /\ gdt = << >> /\ idt = << >> /\ idtr = FALSE /\ tr = 0 /\ interrupts = FALSE /\ fs = << >>
    /\ paging = FALSE /\ page_directory = << >> /\ page_table = << >> /\ user_vid_table = << >>
    /\ tlb = << >> /\ pid = 0 /\ vidmapped = << >> /\ image = << >>
NoLibrary ==
    /\ fn = "none" /\ arg = << >> /\ mem = << >> /\ esi = 0 /\ edi = 0 /\ ecx = 0 /\ edx = 0
    /\ df = 0 /\ result = << >>
NoUsers ==
    /\ file_ops = << >> /\ todo = << >> /\ calls = << >> /\ fail = 0 /\ system = "none" /\ command = << >>
    /\ running = << >> /\ args = << >> /\ ino = 0 /\ offset = 0 /\ typed = << >> /\ printed = << >>
    /\ max = 0 /\ ball = << >> /\ status = 0
NoDisplay ==
    /\ vga = << >> /\ fonts = TRUE /\ screen = "text" /\ shown = 0 /\ retraced = TRUE /\ framed = FALSE
    /\ settled = FALSE /\ program = "none" /\ op = << >> /\ at = 0 /\ mode = "text" /\ target_img = 0
    /\ colors = << >> /\ kills = 0

MCInit ==
    /\ Init
    /\ part \in Parts
    /\ part # "grep" => NoGrep
    /\ part # "memory" => NoMemory
    /\ part # "library" => NoLibrary
    /\ part # "programs" => NoUsers
    /\ part # "display" => NoDisplay
    /\ \/ part \in {"files", "display"} /\ step = "none" /\ cnt = 0
       \/ part = "grep" /\ Reader!Init
       \/ part = "memory" /\ Paged!Init /\ cnt = 0
       \/ part = "library" /\ Routines!Init /\ cnt = 0
       \/ part = "programs" /\ Users!Init
    /\ part = "display" => Display!Init

MCNext ==
    \/ part = "files" /\ Next /\ UNCHANGED <<part, step, cnt, grep, memory, library, users, display>>
    \/ part = "grep" /\ Reader!Next /\ UNCHANGED <<part, vars, memory, library, users, display>>
    \/ part = "memory" /\ Paged!Next /\ UNCHANGED <<part, cnt, vars, grep, library, users, display>>
    \/ part = "library" /\ Routines!Next /\ UNCHANGED <<part, cnt, vars, grep, memory, users, display>>
    \/ part = "programs" /\ Users!Next /\ UNCHANGED <<part, vars, grep, memory, library, display>>
    \/ part = "display" /\ Display!Next /\ UNCHANGED <<part, step, cnt, vars, grep, memory, library, users>>

MCSpec == MCInit /\ [][MCNext]_all

(* Programs get from the kernel, and from what stands in for it, what they *)
(* are written for: grep prints the lines that match (ece391grep.c:19-95), *)
(* wrong calls are refused and leave nothing behind (ece391syserr.c:36-345)*)
(* and cat, ls, counter and the others show what they should.              *)
ProgramsServed ==
    /\ part = "grep" => Reader!PrintsMatches
    /\ part = "programs" =>
        /\ Users!ErrorsRefused /\ Users!CatShows /\ Users!ListsAll /\ Users!Emulated
        /\ Users!CountsUp /\ Users!BallBetween /\ Users!FaultEnds

(* Each program sees its own memory, and the ways into the kernel are      *)
(* there: Memory's MemorySafety (paging.c, kernel.c).                      *)
MemorySafety == part = "memory" => Paged!MemorySafety

(* The routines of lib.c do what their callers take for granted.           *)
LibrarySafety == part = "library" => Routines!LibrarySafety

(* The display is dark, or whole: VgaRegisters' DisplaySafety (modex.c of  *)
(* mp2_ssbonde2, 279-369, 602-631 and 978-1210).                           *)
DisplaySafety == part = "display" => Display!DisplaySafety

MCSearches == {<<"a">>, <<"a", "b">>}

\* Every short file, and after it one that leaves much or little behind.
Texts(n) == UNION {[1 .. k -> {"a", "b", newline}] : k \in 0 .. n}
MCDirectories ==
    {<<f>> : f \in Texts(6)} \union
    {<<f, g>> : f \in Texts(3), g \in {<<"a", "b", "a", "b", "a", "b", "a">>, <<newline, "a">>}}

-----------------------------------------------------------------------------
(* Blocks of two bytes, a directory with files that end inside a block, at *)
(* the end of one and before any.                                          *)

SomeEntries ==
    <<[filename |-> ".", filetype |-> "dir", inode |-> 0],
      [filename |-> "frame0", filetype |-> "file", inode |-> 1],
      [filename |-> "cat", filetype |-> "file", inode |-> 2],
      [filename |-> "empty", filetype |-> "file", inode |-> 3]>>

\* Counts up to a block, and a negative one.
SomeSizes == -1 .. 2

SomeLengths == (0 :> 0) @@ (1 :> 7) @@ (2 :> 4) @@ (3 :> 0)

\* Blocks in no order, and 0 after the last one of a file.
SomeBlocks ==
    LET blocks == (0 :> << >>) @@ (1 :> <<5, 2, 7, 1>>) @@ (2 :> <<4, 6>>) @@ (3 :> << >>)
    IN  [inode \in 0 .. 3 |-> [k \in 0 .. 16 |->
            IF k < Len(blocks[inode]) THEN blocks[inode][k + 1] ELSE 0]]

-----------------------------------------------------------------------------
(***************************************************************************)
(* Proofs about the file system.                                           *)
(*                                                                         *)
(* Positions stay within files, for every block size, every image and      *)
(* every size that programs read by.                                       *)
(***************************************************************************)

\* Only an open descriptor is lost.
LostInUse == \A fd \in lost : desc[fd].flags = IN_USE

\* Descriptors have their types, and positions are within their files.
IInv == desc \in [Fds -> Desc] /\ lost \subseteq Fds /\ LostInUse /\ FilePosInFile

LEMMA DivisionIs ==
    ASSUME NEW b \in Nat \ {0}, NEW q \in Nat, NEW r \in 0 .. b - 1
    PROVE  /\ (b * q + r) \div b = q
           /\ (b * q + r) % b = r
OBVIOUS

LEMMA RemainderIs ==
    ASSUME NEW b \in Nat \ {0}, NEW q \in Int, NEW r \in 0 .. b - 1
    PROVE  (b * q + r) % b = r
OBVIOUS

\* The constants as arithmetic takes them.
LEMMA WordIs == WORD \in Nat \ {0} /\ BLOCK_SIZE \in Nat \ {0} /\ 8 * BLOCK_SIZE <= WORD
BY FileSystemAssumption

\* What does not reach 2^32 does not wrap.
LEMMA NoWrap == \A x \in Nat : x < WORD => x % WORD = x
<1> SUFFICES ASSUME NEW x \in Nat, x < WORD PROVE x % WORD = x
  OBVIOUS
<1>1. WORD \in Nat \ {0} /\ 0 \in Nat /\ x \in 0 .. WORD - 1 /\ WORD * 0 + x = x
  BY WordIs
<1> QED
  BY <1>1, DivisionIs

LEMMA WrapType == \A x \in Int : x % WORD \in Nat /\ x % WORD < WORD
BY WordIs

LEMMA FinalIs ==
    ASSUME NEW from \in Nat, NEW length \in Nat, from + length < WORD
    PROVE  Final(from, length) = (from + length) \div BLOCK_SIZE
<1>1. (from + length) % WORD = from + length
  BY NoWrap
<1> QED
  BY <1>1 DEF Final

(* Whatever the blocks a range begins and ends in, read_data copies as     *)
(* many bytes as it is asked for after the cut at the end of the file.     *)
LEMMA CopiedIsLength ==
    ASSUME NEW from \in Nat, NEW length \in Nat, from + length < WORD
    PROVE  Copied(from, length) = length
<1> DEFINE end == from + length
<1>1. BLOCK_SIZE \in Nat \ {0}  BY FileSystemAssumption
<1>2. /\ from = BLOCK_SIZE * (from \div BLOCK_SIZE) + (from % BLOCK_SIZE)
      /\ end = BLOCK_SIZE * (end \div BLOCK_SIZE) + (end % BLOCK_SIZE)
  BY <1>1, SMT
<1>3. /\ from \div BLOCK_SIZE \in Nat  /\ end \div BLOCK_SIZE \in Nat
      /\ from % BLOCK_SIZE \in Nat     /\ end % BLOCK_SIZE \in Nat
  BY <1>1, SMT
<1>4. (end \div BLOCK_SIZE - from \div BLOCK_SIZE - 1) * BLOCK_SIZE
        = BLOCK_SIZE * (end \div BLOCK_SIZE) - BLOCK_SIZE * (from \div BLOCK_SIZE) - BLOCK_SIZE
  BY <1>1, <1>3, SMT
<1>5. end % WORD = end /\ Final(from, length) = end \div BLOCK_SIZE
  BY NoWrap, FinalIs
<1>6. Initial(from) = from \div BLOCK_SIZE
  BY DEF Initial
<1>7. end \div BLOCK_SIZE >= from \div BLOCK_SIZE
  <2> DEFINE q == from \div BLOCK_SIZE  p == end \div BLOCK_SIZE
  <2>1. q \in Nat /\ p \in Nat /\ BLOCK_SIZE * q < BLOCK_SIZE * (p + 1)
    <3>1. BLOCK_SIZE * (p + 1) = BLOCK_SIZE * p + BLOCK_SIZE /\ end % BLOCK_SIZE < BLOCK_SIZE
      BY <1>1, <1>3
    <3> HIDE DEF q, p
    <3> QED
      BY <1>1, <1>2, <1>3, <3>1 DEF q, p
  <2> HIDE DEF q, p
  <2> QED
    BY <1>1, <2>1 DEF q, p
<1> QED
  BY <1>1, <1>2, <1>3, <1>4, <1>5, <1>6, <1>7 DEF Copied, HeadBytes, MiddleBytes, TailBytes

\* Whatever is copied, it is a number.
LEMMA CopiedType ==
    ASSUME NEW from \in Nat, NEW length \in Int PROVE Copied(from, length) \in Int
<1>1. WORD \in Nat \ {0} /\ BLOCK_SIZE \in Nat \ {0}
  BY WordIs
<1>2. (from + length) % WORD \in Nat
  BY WrapType
<1>3. Initial(from) \in Nat /\ Final(from, length) \in Nat /\ from % BLOCK_SIZE \in Nat
  BY <1>1, <1>2 DEF Initial, Final
<1>4. ((from + length) % WORD) % BLOCK_SIZE \in Nat
  BY <1>1, <1>2
<1>5. HeadBytes(from, length) \in Int /\ MiddleBytes(from, length) \in Int
  BY <1>1, <1>3 DEF HeadBytes, MiddleBytes
<1>6. TailBytes(from, length) \in Int
  BY <1>4 DEF TailBytes
<1> QED
  BY <1>5, <1>6 DEF Copied

(* A range that does not wrap is cut at the end of its file.               *)
LEMMA ClipStays ==
    ASSUME NEW inode \in Inodes, NEW here \in Nat, NEW nbytes \in Int, here <= InodeLength[inode],
           here + Clip(inode, here, Unsigned(nbytes)) < WORD
    PROVE  /\ Clip(inode, here, Unsigned(nbytes)) \in Nat
           /\ here + Clip(inode, here, Unsigned(nbytes)) <= InodeLength[inode]
<1> DEFINE u == Unsigned(nbytes)
<1>1. u \in Nat /\ u < WORD /\ InodeLength[inode] \in Nat
  BY WrapType, FileSystemAssumption DEF Unsigned
<1> HIDE DEF u
<1>2. CASE (here + u) % WORD > InodeLength[inode]
  BY <1>1, <1>2 DEF Clip, u
<1>3. CASE ~((here + u) % WORD > InodeLength[inode])
  <2>1. Clip(inode, here, u) = u
    BY <1>3, Zenon DEF Clip
  <2>2. (here + u) % WORD = here + u
    <3>1. here + u \in Nat /\ here + u < WORD
      BY <1>1, <2>1 DEF u
    <3> QED
      BY <3>1, NoWrap
  <2>3. (here + u) % WORD \in Nat
    BY <1>1, WrapType
  <2> QED
    BY <1>1, <1>3, <2>1, <2>2, <2>3 DEF u
<1> QED
  BY <1>2, <1>3

(* What a search by name finds is an entry of the directory.               *)
LEMMA FoundType == \A name : \A dentry \in Found(name) :
    dentry.filetype \in {"dir", "file"} /\ dentry.inode \in Inodes
<1> DEFINE Entry == [filename : Names, filetype : {"dir", "file"}, inode : Inodes]
<1>1. Entries \in Seq(Entry)
  BY FileSystemAssumption
<1> HIDE DEF Entry
<1>2. \A k \in Indices : Entries[k] \in Entry
  BY <1>1 DEF Indices
<1> USE DEF Entry
<1> QED
  BY <1>2 DEF Found

\* Files are as long as a natural number says.
LEMMA InodeLengthType == \A inode \in Inodes : InodeLength[inode] \in Nat
BY FileSystemAssumption

LEMMA LengthBound == \A inode \in Inodes : 2 * InodeLength[inode] < WORD
BY FileSystemAssumption

\* No descriptor is open.
LEMMA InitInv == Init => IInv
BY FileSystemAssumption DEF Init, IInv, Desc, Fds, FilePosInFile, LostInUse, IN_USE

\* The length that remains is a number even where the range wraps.
LEMMA ClipType ==
    ASSUME NEW inode \in Inodes, NEW here \in Nat, NEW nbytes \in Int
    PROVE  Clip(inode, here, Unsigned(nbytes)) \in Int
<1>1. Unsigned(nbytes) \in Nat
  BY WrapType DEF Unsigned
<1> QED
  BY <1>1, InodeLengthType DEF Clip

(* Reading moves a position to the end of what was copied, and the cut     *)
(* keeps that within the file unless the range wraps.                      *)
LEMMA ReadFileMoves ==
    ASSUME IInv, NEW fd \in Fds, NEW nbytes \in Sizes, ReadFile(fd, nbytes)
    PROVE  \E p \in Nat :
              /\ desc' = [desc EXCEPT ![fd].file_pos = p]
              /\ fd \notin lost' =>
                    /\ fd \notin lost
                    /\ p = desc[fd].file_pos
                            + Clip(desc[fd].inode, desc[fd].file_pos, Unsigned(nbytes))
                    /\ Clip(desc[fd].inode, desc[fd].file_pos, Unsigned(nbytes)) \in Nat
                    /\ p <= InodeLength[desc[fd].inode]
<1> DEFINE here    == desc[fd].file_pos
           inode  == desc[fd].inode
           length == Clip(inode, here, Unsigned(nbytes))
           read == IF here > InodeLength[inode] THEN FFAIL ELSE Copied(here, length)
           p == (here + read) % WORD
<1>1. /\ desc[fd] \in Desc  /\ here \in Nat  /\ inode \in Inodes /\ InodeLength[inode] \in Nat
      /\ nbytes \in Int
  BY InodeLengthType, FileSystemAssumption DEF IInv, Desc
<1>2. /\ desc' = [desc EXCEPT ![fd].file_pos = p]
      /\ lost' = IF here + length < WORD THEN lost ELSE lost \cup {fd}
      /\ desc[fd].flags = IN_USE /\ desc[fd].ops = "file"
  BY Zenon DEF ReadFile
<1>3. length \in Int
  BY <1>1, ClipType
<1> HIDE DEF length
<1>4. Copied(here, length) \in Int
  BY <1>1, <1>3, CopiedType
<1>5. read \in Int
  BY <1>1, <1>4 DEF FFAIL
<1> HIDE DEF read, here
<1>6. p \in Nat
  BY <1>1, <1>5, WrapType
<1>7. ASSUME fd \notin lost'
      PROVE  fd \notin lost /\ p = here + length /\ length \in Nat /\ p <= InodeLength[inode]
  <2>1. fd \notin lost /\ here + length < WORD
    BY <1>2, <1>7
  <2>2. here <= InodeLength[inode]
    BY <1>2, <2>1 DEF IInv, FilePosInFile, here
  <2>3. length \in Nat /\ here + length <= InodeLength[inode]
    BY <1>1, <2>1, <2>2, ClipStays DEF length
  <2>4. Copied(here, length) = length
    BY <1>1, <2>1, <2>3, CopiedIsLength
  <2>5. read = length
    BY <1>1, <2>2, <2>4 DEF read
  <2>6. p = here + length
    BY <1>1, <2>1, <2>3, <2>5, NoWrap
  <2> QED
    BY <2>1, <2>3, <2>6
<1> HIDE DEF p, inode
<1> QED
  BY <1>2, <1>6, <1>7 DEF here, length, inode

LEMMA ReadFileStep ==
    ASSUME IInv, NEW fd \in Fds, NEW nbytes \in Sizes, ReadFile(fd, nbytes)
    PROVE  IInv'
<1>1. PICK p \in Nat :
        /\ desc' = [desc EXCEPT ![fd].file_pos = p]
        /\ fd \notin lost' => fd \notin lost /\ p <= InodeLength[desc[fd].inode]
  BY ReadFileMoves, Zenon
<1>2. desc[fd].flags = IN_USE /\ lost' \subseteq lost \cup {fd} /\ lost \subseteq lost'
  BY Zenon DEF ReadFile
<1>3. /\ desc' \in [Fds -> Desc]
      /\ desc'[fd].file_pos = p /\ desc'[fd].inode = desc[fd].inode /\ desc'[fd].flags = IN_USE
      /\ \A other \in Fds : other # fd => desc'[other] = desc[other]
  BY <1>1, <1>2 DEF IInv, Desc
<1>4. FilePosInFile'
  BY <1>1, <1>2, <1>3 DEF IInv, FilePosInFile
<1>5. lost' \subseteq Fds /\ LostInUse'
  BY <1>2, <1>3 DEF IInv, LostInUse
<1> QED
  BY <1>3, <1>4, <1>5 DEF IInv

\* The invariant is inductive.
LEMMA StepInv == IInv /\ [Next]_vars => IInv'
<1> SUFFICES ASSUME IInv, [Next]_vars PROVE IInv'
  OBVIOUS
<1>1. ASSUME NEW name \in Names, Open(name) PROVE IInv'
  <2>1. PICK fd \in FreeFds, dentry \in Found(name) :
          desc' = [desc EXCEPT ![fd] = Opened(fd, dentry)] /\ lost' = lost
    BY <1>1 DEF Open
  <2>2. fd \in Fds /\ Opened(fd, dentry) \in Desc /\ Opened(fd, dentry).file_pos = 0
        /\ Opened(fd, dentry).flags = IN_USE
    BY <2>1, FoundType DEF Opened, IInv, Desc, FreeFds, IN_USE
  <2>3. \A f \in Fds : desc'[f] = IF f = fd THEN Opened(fd, dentry) ELSE desc[f]
    BY <2>1 DEF IInv
  <2>4. desc' \in [Fds -> Desc]
    BY <2>1, <2>2 DEF IInv
  <2>5. FilePosInFile'
    <3>1. Opened(fd, dentry).inode \in Inodes
      BY <2>2 DEF Desc
    <3> QED
      BY <3>1, <2>1, <2>2, <2>3, InodeLengthType DEF IInv, FilePosInFile
  <2>6. LostInUse'
    BY <2>1, <2>2, <2>3 DEF IInv, LostInUse
  <2> QED
    BY <2>1, <2>4, <2>5, <2>6 DEF IInv
<1>2. ASSUME NEW name \in Names, Load(name) PROVE IInv'
  BY <1>2 DEF Load, IInv, FilePosInFile, LostInUse
<1>3. CASE OpenFails
  BY <1>3 DEF OpenFails, Fail, IInv, FilePosInFile, LostInUse
<1>4. ASSUME NEW fd \in Fds, NEW nbytes \in Sizes, ReadFile(fd, nbytes) PROVE IInv'
  BY <1>4, ReadFileStep
<1>5. ASSUME NEW fd \in Fds, NEW nbytes \in Sizes \cup {FNAME_MAX}, ReadDirectory(fd, nbytes) PROVE IInv'
  <2>1. CASE UNCHANGED <<desc, lost>>
    BY <2>1 DEF IInv, FilePosInFile, LostInUse
  <2>2. CASE /\ desc' = [desc EXCEPT ![fd].file_pos = (@ + nbytes) % WORD]
             /\ lost' \subseteq lost \cup {fd} /\ lost \subseteq lost'
    <3>1. desc[fd].flags = IN_USE /\ desc[fd].ops = "dir" /\ desc[fd] \in Desc /\ nbytes \in Int
      BY <1>5, FileSystemAssumption DEF ReadDirectory, IInv
    <3>2. (desc[fd].file_pos + nbytes) % WORD \in Nat
      BY <3>1, WrapType DEF Desc
    <3>3. PICK moved : moved = [desc[fd] EXCEPT !.file_pos = (@ + nbytes) % WORD]
      OBVIOUS
    <3>4. moved \in Desc /\ moved.ops = "dir" /\ moved.flags = IN_USE
      BY <3>1, <3>2, <3>3 DEF Desc
    <3>5. desc' = [desc EXCEPT ![fd] = moved]
      BY <2>2, <3>3
    <3>6. \A f \in Fds : desc'[f] = IF f = fd THEN moved ELSE desc[f]
      BY <3>5 DEF IInv
    <3>7. desc' \in [Fds -> Desc]
      BY <3>4, <3>5 DEF IInv
    <3>8. FilePosInFile'
      BY <2>2, <3>4, <3>6 DEF IInv, FilePosInFile
    <3> QED
      BY <2>2, <3>4, <3>6, <3>7, <3>8 DEF IInv, LostInUse
  <2>3. lost \subseteq (IF nbytes \in {0, FNAME_MAX} THEN lost ELSE lost \cup {fd})
    OBVIOUS
  <2> QED
    BY <1>5, <2>1, <2>2, <2>3 DEF ReadDirectory
<1>6. ASSUME NEW fd \in Fds, NEW nbytes \in Sizes, ReadFaults(fd, nbytes) PROVE IInv'
  <2>1. desc' = [other \in Fds |-> [desc[other] EXCEPT !.flags = 0]] /\ lost' = {}
    BY <1>6 DEF ReadFaults
  <2>2. \A f \in Fds : desc'[f] \in Desc /\ desc'[f].flags = 0
    BY <2>1 DEF IInv, Desc
  <2>3. desc' \in [Fds -> Desc]
    BY <2>1, <2>2
  <2> QED
    BY <2>1, <2>2, <2>3 DEF IInv, FilePosInFile, LostInUse, IN_USE
<1>7. ASSUME NEW fd \in Fds, Close(fd) PROVE IInv'
  <2>1. desc' = [desc EXCEPT ![fd].flags = 0] /\ lost' = lost \ {fd}
    BY <1>7 DEF Close
  <2>2. /\ desc' \in [Fds -> Desc] /\ desc'[fd].flags = 0
        /\ \A other \in Fds : other # fd => desc'[other] = desc[other]
    BY <2>1 DEF IInv, Desc
  <2> QED
    BY <2>1, <2>2 DEF IInv, FilePosInFile, LostInUse, IN_USE
<1>8. CASE UNCHANGED vars
  BY <1>8 DEF vars, IInv, FilePosInFile, LostInUse
<1> QED
  BY <1>1, <1>2, <1>3, <1>4, <1>5, <1>6, <1>7, <1>8 DEF Next

(* For every image, number of descriptors and set of counts, negative ones *)
(* included: as long as no count has wrapped on it, no descriptor of an    *)
(* open file is positioned past the end of the file, so read_data does not *)
(* refuse a read of file_read.                                             *)
THEOREM FilePosInFileHolds == Spec => []FilePosInFile
<1>1. IInv => FilePosInFile
  BY DEF IInv
<1> QED
  BY <1>1, InitInv, StepInv, PTL DEF Spec

-----------------------------------------------------------------------------
(***************************************************************************)
(* What a read copies, byte by byte.                                       *)
(***************************************************************************)

\* Blocks and places of an offset, as numbers that arithmetic is linear in.
LEMMA BlockOf ==
    ASSUME NEW x \in Nat
    PROVE  /\ x \div BLOCK_SIZE \in Nat
           /\ x % BLOCK_SIZE \in 0 .. BLOCK_SIZE - 1
           /\ x = BLOCK_SIZE * (x \div BLOCK_SIZE) + (x % BLOCK_SIZE)
BY WordIs, SMT

\* The place of byte k of what stands in the file from offset on.
Place(inode, from, k) ==
    <<DataBlockNum[inode][(from + k - 1) \div BLOCK_SIZE], (from + k - 1) % BLOCK_SIZE>>

\* What stands in a file from offset on.
Places(inode, from, length) == [k \in 1 .. length |-> Place(inode, from, k)]

\* A read is cut at the end of its file.
LEMMA ClipIs ==
    ASSUME NEW inode \in Inodes, NEW here \in Nat, NEW nbytes \in Nat, here <= InodeLength[inode],
           here + nbytes < WORD
    PROVE  /\ Clip(inode, here, nbytes) \in Nat
           /\ Clip(inode, here, nbytes) <= nbytes
           /\ here + Clip(inode, here, nbytes) =
                IF here + nbytes < InodeLength[inode] THEN here + nbytes ELSE InodeLength[inode]
           /\ here + Clip(inode, here, nbytes) <= InodeLength[inode]
<1>1. (here + nbytes) % WORD = here + nbytes
    BY NoWrap
<1> QED
    BY <1>1, InodeLengthType DEF Clip

(* A part of a file, cut out of its contents, is its places in order.      *)
LEMMA PartOfFile ==
    ASSUME NEW inode \in Inodes, NEW here \in Nat, NEW length \in Nat, here + length <= InodeLength[inode]
    PROVE  SubSeq(FileBytes(inode), here + 1, here + length) = Places(inode, here, length)
<1> DEFINE file == FileBytes(inode)
           piece == SubSeq(file, here + 1, here + length)
           S == {Place(inode, 0, k) : k \in 1 .. InodeLength[inode]}
<1>1. InodeLength[inode] \in Nat
    BY InodeLengthType
<1>2. \A k \in 1 .. length : Place(inode, here, k) = Place(inode, 0, here + k)
    BY DEF Place
<1>3. \A k \in 1 .. InodeLength[inode] : file[k] = Place(inode, 0, k)
    <2> SUFFICES ASSUME NEW k \in 1 .. InodeLength[inode] PROVE file[k] = Place(inode, 0, k)
        OBVIOUS
    <2>1. 0 + k - 1 = k - 1
        BY <1>1
    <2> QED
        BY <2>1, Zenon DEF FileBytes, Place
<1> HIDE DEF file
<1>4. \A k \in here + 1 .. here + length : file[k] \in S
    BY <1>1, <1>3
<1> HIDE DEF S
<1>5. /\ piece \in Seq(S)
      /\ Len(piece) = length
      /\ \A k \in 1 .. length : piece[k] = file[here + k]
    BY <1>4, SubSeqProperties
<1>6. \A k \in 1 .. length : piece[k] = Places(inode, here, length)[k]
    <2> SUFFICES ASSUME NEW k \in 1 .. length PROVE piece[k] = Places(inode, here, length)[k]
        OBVIOUS
    <2>1. here + k \in 1 .. InodeLength[inode]
        BY <1>1
    <2> QED
        BY <2>1, <1>2, <1>3, <1>5 DEF Places
<1>7. piece = [k \in 1 .. length |-> piece[k]]
    BY <1>5, LenProperties
<1>8. Places(inode, here, length) = [k \in 1 .. length |-> Places(inode, here, length)[k]]
    BY DEF Places
<1> HIDE DEF piece
<1>9. piece = Places(inode, here, length)
    BY <1>6, <1>7, <1>8, Zenon
<1> QED
    BY <1>9 DEF piece, file

\* The byte that read_data copies to place k of the caller's buffer.
Byte(inode, from, length, k) ==
    LET head == HeadBytes(from, length)
        middle == MiddleBytes(from, length)
        first == from \div BLOCK_SIZE
        final == (from + length) \div BLOCK_SIZE
    IN  IF k <= head THEN <<DataBlockNum[inode][first], (from % BLOCK_SIZE) + k - 1>>
        ELSE IF k <= head + middle
             THEN <<DataBlockNum[inode][first + (first + 1 + (k - head - 1) \div BLOCK_SIZE)],
                    (k - head - 1) % BLOCK_SIZE>>
        ELSE <<DataBlockNum[inode][final], k - head - middle - 1>>

\* The three parts of read_data, byte by byte.
LEMMA DataBytes ==
    ASSUME NEW inode \in Inodes, NEW from \in Nat, NEW length \in Nat, from + length < WORD
    PROVE  Data(inode, from, length) = [k \in 1 .. length |-> Byte(inode, from, length, k)]
BY CopiedIsLength, FinalIs, Zenon DEF Data, Byte, Initial

(* read_data copies a range right if it begins in the first block of the   *)
(* file, or touches no more than two blocks: the head ends with its block, *)
(* each middle block follows, and the tail begins the last one.            *)
LEMMA DataIs ==
    ASSUME NEW inode \in Inodes, NEW from \in Nat, NEW length \in Nat, from + length < WORD,
           ~(Initial(from) > 0 /\ MiddleBlocks(from, length))
    PROVE  Data(inode, from, length) = Places(inode, from, length)
<1> DEFINE B     == BLOCK_SIZE
           first == from \div B
           final  == (from + length) \div B
           start == from % B
           rest  == (from + length) % B
           head   == HeadBytes(from, length)
           middle == MiddleBytes(from, length)
           i(k)    == first + 1 + (k - head - 1) \div B
           byte(k) == IF k <= head THEN <<DataBlockNum[inode][first], start + k - 1>>
                      ELSE IF k <= head + middle
                           THEN <<DataBlockNum[inode][first + i(k)], (k - head - 1) % B>>
                      ELSE <<DataBlockNum[inode][final], k - head - middle - 1>>
<1>1. \A k : byte(k) = Byte(inode, from, length, k)
    BY Zenon DEF Byte
<1>3. B \in Nat \ {0}
    BY FileSystemAssumption
<1>4. /\ first \in Nat /\ start \in 0 .. B - 1 /\ from = B * first + start
      /\ final \in Nat /\ rest \in 0 .. B - 1 /\ from + length = B * final + rest
    BY BlockOf
<1>2. Initial(from) = first /\ Final(from, length) = final
    BY FinalIs DEF Initial
<1>5. /\ first = final => head = length /\ middle = 0
      /\ first # final => head = B - start /\ middle = (final - first - 1) * B
    <2>1. first <= final
        <3> HIDE DEF B, first, final, start, rest
        <3>1. B * first < B * (final + 1)
            BY <1>3, <1>4
        <3> QED
            BY <3>1, <1>3, <1>4
    <2> HIDE DEF B, first, final
    <2>2. first # final => ~(final <= first)
        BY <2>1, <1>4
    <2> QED
        BY <1>2, <2>2, <1>4 DEF HeadBytes, MiddleBytes, B, start
<1>6. first > 0 => final <= first + 1
    BY <1>2, <1>4 DEF MiddleBlocks
<1>7. ASSUME NEW k \in 1 .. length
      PROVE  byte(k) = Place(inode, from, k)
    <2>1. CASE k <= head
        <3>1. start + k - 1 \in 0 .. B - 1 /\ from + k - 1 = B * first + (start + k - 1)
            <4> HIDE DEF head, middle, B, first, final, start, rest
            <4>1. CASE first = final
                BY <4>1, <2>1, <1>3, <1>4, <1>5
            <4>2. CASE first # final
                BY <4>2, <2>1, <1>3, <1>4, <1>5
            <4> QED
                BY <4>1, <4>2
        <3>2. Place(inode, from, k) = <<DataBlockNum[inode][first], start + k - 1>>
            <4> DEFINE r == start + k - 1
                       away == from + k - 1
            <4>1. first \in Nat /\ r \in 0 .. B - 1 /\ away = B * first + r
                BY <3>1, <1>4
            <4> HIDE DEF first, r, away
            <4>2. away \div B = first /\ away % B = r
                BY <4>1, <1>3, DivisionIs
            <4> QED
                BY <4>2 DEF Place, away, r
        <3> QED
            BY <2>1, <3>2, Zenon
    <2>2. CASE ~(k <= head) /\ k <= head + middle
        <3> DEFINE j == k - head - 1
                   q == j \div B
                   r == j % B
        <3>1. first # final
            BY <2>2, <1>4, <1>5
        <3>2. head = B - start /\ middle = (final - first - 1) * B
            BY <3>1, <1>5
        <3>3. first = 0
            <4> HIDE DEF head, middle, B, first, final, start, rest
            <4>1. middle > 0
                BY <2>2, <3>2, <1>3, <1>4
            <4>2. final # first + 1
                BY <4>1, <3>2, <1>3, <1>4
            <4>3. final >= first
                BY <1>3, <1>4
            <4> QED
                BY <4>2, <4>3, <3>1, <1>4, <1>6
        <3>4. j \in Nat
            BY <2>2, <3>2, <1>3, <1>4
        <3>5. q \in Nat /\ r \in 0 .. B - 1 /\ j = B * q + r
            BY <3>4, BlockOf
        <3>6. from + k - 1 = B * (q + 1) + r
            <4> HIDE DEF head, middle, B, first, final, start, rest, q, r
            <4>1. k - 1 = head + (B * q + r)
                BY <3>5, <3>2, <1>3, <1>4
            <4>2. B * (q + 1) = B * q + B
                BY <3>5, <1>3
            <4> QED
                BY <4>1, <4>2, <3>2, <3>3, <3>5, <1>3, <1>4
        <3>7. Place(inode, from, k) = <<DataBlockNum[inode][q + 1], r>>
            <4> HIDE DEF q, r
            <4>1. k \in Nat \ {0} /\ q + 1 \in Nat
                BY <3>5
            <4> QED
                BY <4>1, <3>5, <3>6, <1>3, DivisionIs DEF Place
        <3>8. first + i(k) = q + 1
            BY <3>3, <3>5
        <3> QED
            BY <2>2, <3>7, <3>8
    <2>3. CASE ~(k <= head) /\ ~(k <= head + middle)
        <3> DEFINE r == k - head - middle - 1
        <3>1. first # final
            BY <2>3, <1>4, <1>5
        <3>2. head = B - start /\ middle = (final - first - 1) * B
            BY <3>1, <1>5
        <3>3. from + head + middle = B * final
            <4> HIDE DEF head, middle, B, first, final, start, rest
            <4>1. (final - first - 1) * B = B * final - B * first - B
                BY <1>3, <1>4
            <4> QED
                BY <4>1, <3>2, <1>3, <1>4
        <3>4. r \in 0 .. B - 1 /\ from + k - 1 = B * final + r
            <4>1. head \in Int /\ middle \in Int /\ B * final \in Int
                BY <3>2, <1>3, <1>4
            <4> HIDE DEF head, middle, B, first, final, start, rest
            <4> QED
                BY <4>1, <2>3, <3>3, <1>3, <1>4
        <3>5. Place(inode, from, k) = <<DataBlockNum[inode][final], r>>
            <4> DEFINE away == from + k - 1
            <4>1. final \in Nat /\ r \in 0 .. B - 1 /\ away = B * final + r
                BY <3>4, <1>4
            <4> HIDE DEF final, r, away
            <4>2. away \div B = final /\ away % B = r
                BY <4>1, <1>3, DivisionIs
            <4> QED
                BY <4>2 DEF Place, away
        <3> QED
            BY <2>3, <3>5
    <2> QED
        BY <2>1, <2>2, <2>3
<1> HIDE DEF byte
<1>8. \A k \in 1 .. length : Byte(inode, from, length, k) = Place(inode, from, k)
    BY <1>1, <1>7, Zenon
<1> QED
    BY <1>8, DataBytes DEF Places

(* Between them: a range read_data is asked for after the cut, and what    *)
(* the file holds there.                                                   *)
LEMMA ReadIsExact ==
    ASSUME NEW inode \in Inodes, NEW here \in Nat, NEW nbytes \in Nat, here <= InodeLength[inode],
           here + nbytes < WORD, NEW length, length = Clip(inode, here, nbytes),
           ~(Initial(here) > 0 /\ MiddleBlocks(here, length))
    PROVE  Data(inode, here, length) = Expected(inode, here, nbytes)
<1>1. length \in Nat /\ here + length <= InodeLength[inode] /\ InodeLength[inode] \in Nat
    BY ClipIs, InodeLengthType, Zenon
<1>2. Expected(inode, here, nbytes) = SubSeq(FileBytes(inode), here + 1, here + length)
    BY ClipIs DEF Expected
<1>3. SubSeq(FileBytes(inode), here + 1, here + length) = Places(inode, here, length)
    BY <1>1, PartOfFile
<1>4. Data(inode, here, length) = Places(inode, here, length)
    BY <1>1, FileSystemAssumption, DataIs
<1> QED
    BY <1>2, <1>3, <1>4

(* The first middle block of such a range is taken from the wrong place.   *)
LEMMA MiddleIsWrong ==
    ASSUME OtherBlocks, NEW inode \in Inodes, NEW from \in Nat, NEW length \in Nat,
           from + length <= InodeLength[inode],
           Initial(from) > 0, MiddleBlocks(from, length)
    PROVE  Data(inode, from, length) # Places(inode, from, length)
<1> DEFINE B     == BLOCK_SIZE
           first == from \div B
           final  == (from + length) \div B
           start == from % B
           rest  == (from + length) % B
           head   == HeadBytes(from, length)
           middle == MiddleBytes(from, length)
           k == head + 1
           i == first + 1 + (k - head - 1) \div B
           bytes == Data(inode, from, length)
<1>1. B \in Nat \ {0}
    BY FileSystemAssumption
<1>2. /\ first \in Nat /\ start \in 0 .. B - 1 /\ from = B * first + start
      /\ final \in Nat /\ rest \in 0 .. B - 1 /\ from + length = B * final + rest
    BY BlockOf
<1>13. from + length < WORD
    BY FileSystemAssumption
<1>14. Initial(from) = first /\ Final(from, length) = final
    BY <1>13, FinalIs DEF Initial
<1>3. first > 0 /\ final > first + 1
    BY <1>14 DEF MiddleBlocks
<1>4. head = B - start /\ middle = (final - first - 1) * B
    <2> HIDE DEF B, first, final
    <2>1. first # final /\ ~(final <= first)
        BY <1>2, <1>3
    <2> QED
        BY <2>1, <1>14 DEF HeadBytes, MiddleBytes, B, start
<1>5. B * final >= B * (first + 2) /\ B * (first + 1) = B * first + B /\ B * (first + 2) = B * first + B + B
    <2> HIDE DEF B, first, final
    <2>1. PICK d \in Nat : final = first + 2 + d
        <3>1. final - (first + 2) \in Nat
            BY <1>2, <1>3
        <3>2. final = first + 2 + (final - (first + 2))
            BY <1>2
        <3> QED
            BY <3>1, <3>2
    <2> QED
        BY <2>1, <1>1, <1>2
<1>6. k \in 1 .. length /\ k > head /\ k <= head + middle
    <2>1. (final - first - 1) * B = B * final - B * first - B
        BY <1>1, <1>2
    <2> HIDE DEF B, first, final, start, rest, head, middle
    <2> QED
        BY <2>1, <1>1, <1>2, <1>4, <1>5
<1>7. from + k - 1 = B * (first + 1)
    <2> HIDE DEF B, first, start, head
    <2> QED
        BY <1>1, <1>2, <1>4, <1>5
<1>8. Place(inode, from, k)[1] = DataBlockNum[inode][first + 1]
    <2> DEFINE away == from + k - 1
    <2>1. away = B * (first + 1) + 0 /\ first + 1 \in Nat /\ 0 \in 0 .. B - 1
        BY <1>1, <1>2, <1>7
    <2> HIDE DEF first, away
    <2>2. away \div B = first + 1
        BY <2>1, <1>1, DivisionIs
    <2> QED
        BY <2>2 DEF Place, away
<1>9. bytes[k][1] = DataBlockNum[inode][2 * first + 1]
    <2>1. bytes[k] = Byte(inode, from, length, k)
        <3> HIDE DEF k
        <3> QED
            BY <1>6, <1>13, DataBytes
    <2>2. Byte(inode, from, length, k) = <<DataBlockNum[inode][first + i], (k - head - 1) % B>>
        <3>1. ~(k <= head)
            <4> HIDE DEF head
            <4> QED
                BY <1>2, <1>4
        <3> QED
            BY <3>1, <1>6, Zenon DEF Byte
    <2>3. (k - head - 1) \div B = 0
        <3>1. k - head - 1 = 0
            <4> HIDE DEF head, start
            <4> QED
                BY <1>1, <1>2, <1>4
        <3> QED
            BY <3>1, <1>1
    <2>4. first + i = 2 * first + 1
        BY <2>3, <1>2
    <2> QED
        BY <2>1, <2>2, <2>4
<1>10. (first + 2) * B <= InodeLength[inode]
    <2>1. (first + 2) * B = B * (first + 2) /\ InodeLength[inode] \in Nat
        BY <1>1, <1>2, InodeLengthType
    <2> HIDE DEF B, first, final, rest
    <2> QED
        BY <2>1, <1>1, <1>2, <1>5
<1>11. DataBlockNum[inode][2 * first + 1] # DataBlockNum[inode][first + 1]
    <2>1. first \in 1 .. InodeLength[inode]
        <3> DEFINE n == first + 2
        <3>1. n \in Nat /\ n * B <= InodeLength[inode] /\ InodeLength[inode] \in Nat
            BY <1>2, <1>10, InodeLengthType
        <3> HIDE DEF n, B
        <3>2. n <= n * B
            <4>1. PICK c \in Nat : B = 1 + c
                <5>1. B - 1 \in Nat /\ B = 1 + (B - 1)
                    BY <1>1
                <5> QED
                    BY <5>1
            <4>2. n * (1 + c) = n + n * c /\ n * c \in Nat
                BY <3>1
            <4> QED
                BY <4>1, <4>2, <3>1
        <3>3. first + 2 <= InodeLength[inode]
            BY <3>1, <3>2, <1>1 DEF n
        <3> HIDE DEF first
        <3> QED
            BY <3>1, <3>3, <1>2, <1>3
    <2> QED
        BY <2>1, <1>10 DEF OtherBlocks
<1>12. Places(inode, from, length)[k] = Place(inode, from, k)
    BY <1>6 DEF Places
<1> QED
    BY <1>8, <1>9, <1>11, <1>12

(* Where the blocks of an image differ, the next read of any descriptor is *)
(* exact just when it does not begin behind the first block with whole     *)
(* blocks in the middle, unless a negative count has wrapped on it.        *)
THEOREM NextReadExactHolds ==
    ASSUME OtherBlocks PROVE Spec => []NextReadExact
<1>1. OtherBlocks /\ IInv => NextReadExact
    <2> SUFFICES ASSUME OtherBlocks, IInv,
                        NEW fd \in Fds \ lost, desc[fd].flags = IN_USE /\ desc[fd].ops = "file",
                        NEW nbytes \in 0 .. 4 * BLOCK_SIZE
                 PROVE  LET here    == desc[fd].file_pos
                            length == Clip(desc[fd].inode, here, nbytes)
                        IN  Data(desc[fd].inode, here, length) = Expected(desc[fd].inode, here, nbytes)
                                <=> ~(Initial(here) > 0 /\ MiddleBlocks(here, length))
        BY Zenon DEF NextReadExact
    <2> DEFINE inode  == desc[fd].inode
               here    == desc[fd].file_pos
               length == Clip(inode, here, nbytes)
    <2>0. inode \in Inodes /\ here \in Nat /\ here <= InodeLength[inode] /\ nbytes \in Nat
        BY FileSystemAssumption DEF IInv, Desc, FilePosInFile
    <2>1. inode \in Inodes /\ here \in Nat /\ here <= InodeLength[inode] /\ nbytes \in Nat
          /\ here + nbytes < WORD
        <3>1. nbytes <= 4 * BLOCK_SIZE /\ 2 * InodeLength[inode] < WORD /\ 8 * BLOCK_SIZE <= WORD
              /\ BLOCK_SIZE \in Nat /\ WORD \in Nat /\ InodeLength[inode] \in Nat
            <4> HIDE DEF inode
            <4> QED
                BY <2>0, WordIs, InodeLengthType, LengthBound
        <3> HIDE DEF inode, here
        <3> QED
            BY <2>0, <3>1
    <2>2. length \in Nat /\ here + length <= InodeLength[inode] /\ InodeLength[inode] \in Nat
        BY <2>1, ClipIs, InodeLengthType, Zenon
    <2>6. here + length < WORD
        <3> HIDE DEF inode, here, length
        <3>1. 2 * InodeLength[inode] < WORD /\ WORD \in Nat
            BY <2>1, LengthBound, WordIs
        <3> QED
            BY <2>1, <2>2, <3>1
    <2>3. Expected(inode, here, nbytes) = SubSeq(FileBytes(inode), here + 1, here + length)
        BY <2>1, ClipIs DEF Expected
    <2> HIDE DEF inode, here, length
    <2>4. Expected(inode, here, nbytes) = Places(inode, here, length)
        BY <2>1, <2>2, <2>3, PartOfFile
    <2>5. Data(inode, here, length) = Places(inode, here, length)
            <=> ~(Initial(here) > 0 /\ MiddleBlocks(here, length))
        BY <2>1, <2>2, <2>6, DataIs, MiddleIsWrong
    <2> USE DEF inode, here, length
    <2> QED
        BY <2>4, <2>5, Zenon
<1> QED
    BY <1>1, InitInv, StepInv, PTL DEF Spec

-----------------------------------------------------------------------------
(***************************************************************************)
(* Descriptors implement streams.                                          *)
(***************************************************************************)

\* A descriptor of the directory stands before one of its entries, or after
\* the last.
DirPosAtEntry ==
    \A fd \in Fds \ lost : desc[fd].flags = IN_USE /\ desc[fd].ops = "dir" =>
        \E k \in 0 .. Len(Entries) : desc[fd].file_pos = FNAME_MAX * k

StreamInv == IInv /\ DirPosAtEntry

(* The entry before which a descriptor of the directory stands is what     *)
(* directory_read computes from its position.                              *)
LEMMA IndexIs ==
    ASSUME StreamInv, NEW fd \in Fds \ lost, desc[fd].flags = IN_USE, desc[fd].ops = "dir"
    PROVE  /\ Index(fd) \in 0 .. Len(Entries)
           /\ desc[fd].file_pos = FNAME_MAX * Index(fd)
           /\ (desc[fd].file_pos + FNAME_MAX) \div FNAME_MAX = Index(fd) + 1
           /\ (desc[fd].file_pos + 0) % WORD = desc[fd].file_pos
           /\ Index(fd) < Len(Entries) =>
                (desc[fd].file_pos + FNAME_MAX) % WORD = desc[fd].file_pos + FNAME_MAX
<1>1. PICK k \in 0 .. Len(Entries) : desc[fd].file_pos = FNAME_MAX * k
    BY DEF StreamInv, DirPosAtEntry
<1>2. FNAME_MAX \in Nat \ {0} /\ Len(Entries) \in Nat /\ Len(Entries) * FNAME_MAX < WORD /\ WORD \in Nat
    BY FileSystemAssumption
<1> DEFINE here == desc[fd].file_pos
           next == here + FNAME_MAX
<1>3. /\ here = FNAME_MAX * k + 0 /\ next = FNAME_MAX * (k + 1) + 0
      /\ k \in Nat /\ k + 1 \in Nat /\ 0 \in 0 .. FNAME_MAX - 1
    BY <1>1, <1>2
<1>6. Index(fd) = here \div FNAME_MAX
    BY DEF Index
<1> HIDE DEF here, next
<1>4. here \div FNAME_MAX = k
    BY <1>2, <1>3, DivisionIs
<1>5. next \div FNAME_MAX = k + 1
    BY <1>2, <1>3, DivisionIs
<1>7. \A j \in 0 .. Len(Entries) : FNAME_MAX * j \in Nat /\ FNAME_MAX * j < WORD
    <2> SUFFICES ASSUME NEW j \in 0 .. Len(Entries) PROVE FNAME_MAX * j \in Nat /\ FNAME_MAX * j < WORD
        OBVIOUS
    <2>1. PICK d \in Nat : Len(Entries) = j + d
        <3>1. Len(Entries) - j \in Nat /\ Len(Entries) = j + (Len(Entries) - j)
            BY <1>2
        <3> QED
            BY <3>1
    <2>2. (j + d) * FNAME_MAX = FNAME_MAX * j + FNAME_MAX * d /\ FNAME_MAX * d \in Nat /\ FNAME_MAX * j \in Nat
        BY <1>2
    <2> QED
        BY <1>2, <2>1, <2>2
<1>8. (here + 0) % WORD = here
    <2>1. here \in Nat /\ here < WORD /\ here + 0 = here
        BY <1>3, <1>7, <1>1 DEF here
    <2> QED
        BY <2>1, NoWrap
<1>9. ASSUME k < Len(Entries) PROVE next % WORD = next
    <2>1. k + 1 \in 0 .. Len(Entries)
        BY <1>2, <1>9
    <2>2. next \in Nat /\ next < WORD
        BY <2>1, <1>2, <1>3, <1>7
    <2> QED
        BY <2>2, NoWrap
<1> QED
    BY <1>1, <1>4, <1>5, <1>6, <1>8, <1>9 DEF here, next

\* No descriptor of the directory is open.
LEMMA StreamInvInit == Init => StreamInv
BY InitInv DEF Init, StreamInv, DirPosAtEntry, IN_USE

(* What directory_read does to the position of a descriptor that is not    *)
(* lost afterwards: nothing, or one name.                                  *)
LEMMA ReadDirectoryMoves ==
    ASSUME StreamInv, NEW fd \in Fds, NEW nbytes \in Sizes \cup {FNAME_MAX},
           ReadDirectory(fd, nbytes), fd \notin lost'
    PROVE  /\ fd \notin lost /\ lost' = lost
           /\ \/ desc' = desc /\ buf' = << >>
              \/ /\ Index(fd) < Len(Entries)
                 /\ desc' = [desc EXCEPT ![fd].file_pos = desc[fd].file_pos + FNAME_MAX]
                 /\ buf' = << <<Directory, Index(fd) + 1>> >>
<1>1. desc[fd].flags = IN_USE /\ desc[fd].ops = "dir" /\ desc[fd] \in Desc /\ desc \in [Fds -> Desc]
    BY DEF ReadDirectory, StreamInv, IInv
<1>2. CASE Index(fd) >= Len(Entries)
    BY <1>2 DEF ReadDirectory, Return
<1>3. CASE ~(Index(fd) >= Len(Entries))
    <2>1. /\ desc' = [desc EXCEPT ![fd].file_pos = (@ + nbytes) % WORD]
          /\ lost' = IF nbytes \in {0, FNAME_MAX} THEN lost ELSE lost \cup {fd}
          /\ buf' = NameOf(Index(fd) + 1, nbytes)
        BY <1>3 DEF ReadDirectory, Return
    <2>2. nbytes \in {0, FNAME_MAX} /\ lost' = lost /\ fd \notin lost
        BY <2>1
    <2>3. Index(fd) \in 0 .. Len(Entries) /\ Len(Entries) \in Nat /\ FNAME_MAX \in Nat \ {0}
        BY <1>1, <2>2, IndexIs, FileSystemAssumption
    <2>4. Index(fd) < Len(Entries)
        BY <1>3, <2>3
    <2>5. CASE nbytes = 0
        <3>1. desc' = [desc EXCEPT ![fd].file_pos = desc[fd].file_pos]
            BY <1>1, <2>1, <2>2, <2>5, IndexIs
        <3>2. desc' = desc
            BY <1>1, <3>1 DEF Desc
        <3>3. buf' = << >>
            BY <2>1, <2>5 DEF NameOf
        <3> QED
            BY <2>2, <3>2, <3>3
    <2>6. CASE nbytes = FNAME_MAX
        <3>1. desc' = [desc EXCEPT ![fd].file_pos = desc[fd].file_pos + FNAME_MAX]
            BY <1>1, <2>1, <2>2, <2>4, <2>6, IndexIs
        <3>2. FNAME_MAX # 0 /\ ~(FNAME_MAX < FNAME_MAX)
            BY <2>3
        <3>3. buf' = << <<Directory, Index(fd) + 1>> >>
            BY <2>1, <2>6, <3>2, Zenon DEF NameOf
        <3> QED
            BY <2>2, <2>4, <3>1, <3>3
    <2> QED
        BY <2>2, <2>5, <2>6
<1> QED
    BY <1>2, <1>3

(* Only directory_read moves a position in the directory, by one name      *)
(* unless it loses it.                                                     *)
LEMMA StreamInvStep == StreamInv /\ [Next]_vars => StreamInv'
<1> SUFFICES ASSUME StreamInv, [Next]_vars PROVE DirPosAtEntry'
    BY StepInv DEF StreamInv
<1> USE DEF StreamInv, IInv
<1>1. ASSUME NEW name \in Names, Open(name) PROVE DirPosAtEntry'
    <2>1. PICK fd \in Fds, dentry \in Found(name) :
            desc' = [desc EXCEPT ![fd] = Opened(fd, dentry)] /\ lost' = lost
        BY <1>1 DEF Open, FreeFds
    <2>2. Opened(fd, dentry).file_pos = FNAME_MAX * 0 /\ 0 \in 0 .. Len(Entries)
        BY FileSystemAssumption DEF Opened, Desc
    <2>3. desc'[fd] = Opened(fd, dentry) /\ \A other \in Fds : other # fd => desc'[other] = desc[other]
        BY <2>1
    <2> QED
        BY <2>1, <2>2, <2>3 DEF DirPosAtEntry
<1>2. ASSUME NEW name \in Names, Load(name) PROVE DirPosAtEntry'
    BY <1>2 DEF Load, DirPosAtEntry
<1>3. CASE OpenFails
    BY <1>3 DEF OpenFails, Fail, DirPosAtEntry
<1>4. ASSUME NEW fd \in Fds, NEW nbytes \in Sizes, ReadFile(fd, nbytes) PROVE DirPosAtEntry'
    <2>1. PICK here : desc' = [desc EXCEPT ![fd].file_pos = here] /\ desc[fd].ops = "file"
        BY <1>4 DEF ReadFile
    <2>2. desc'[fd].ops = "file" /\ \A other \in Fds : other # fd => desc'[other] = desc[other]
        BY <2>1 DEF Desc
    <2>3. lost \subseteq lost'
        BY <1>4, Zenon DEF ReadFile
    <2> QED
        BY <2>2, <2>3 DEF DirPosAtEntry
<1>5. ASSUME NEW fd \in Fds, NEW nbytes \in Sizes \cup {FNAME_MAX}, ReadDirectory(fd, nbytes)
      PROVE  DirPosAtEntry'
    <2>1. lost \subseteq lost' /\ \A other \in Fds : other # fd => desc'[other] = desc[other]
        <3>1. CASE UNCHANGED <<desc, lost>>
            BY <3>1
        <3>2. CASE ~ UNCHANGED <<desc, lost>>
            <4>1. /\ desc' = [desc EXCEPT ![fd].file_pos = (@ + nbytes) % WORD]
                  /\ lost' = IF nbytes \in {0, FNAME_MAX} THEN lost ELSE lost \cup {fd}
                BY <1>5, <3>2 DEF ReadDirectory
            <4>2. lost \subseteq lost'
                BY <4>1
            <4> QED
                BY <4>1, <4>2
        <3> QED
            BY <3>1, <3>2
    <2>2. CASE fd \in lost'
        BY <2>1, <2>2 DEF DirPosAtEntry
    <2>3. CASE fd \notin lost'
        <3>1. CASE desc' = desc
            BY <2>1, <3>1 DEF DirPosAtEntry
        <3>2. CASE /\ Index(fd) < Len(Entries)
                   /\ desc' = [desc EXCEPT ![fd].file_pos = desc[fd].file_pos + FNAME_MAX]
            <4> DEFINE index == Index(fd)
            <4>1. index \in 0 .. Len(Entries) /\ desc[fd].file_pos = FNAME_MAX * index
                BY <1>5, <2>1, <2>3, IndexIs DEF ReadDirectory
            <4>2. FNAME_MAX \in Nat /\ Len(Entries) \in Nat
                BY FileSystemAssumption
            <4> HIDE DEF index
            <4>3. desc[fd].file_pos + FNAME_MAX = FNAME_MAX * (index + 1) /\ index + 1 \in 0 .. Len(Entries)
                BY <3>2, <4>1, <4>2 DEF index
            <4>4. desc'[fd].file_pos = desc[fd].file_pos + FNAME_MAX
                BY <3>2 DEF Desc
            <4> QED
                BY <2>1, <4>3, <4>4 DEF DirPosAtEntry
        <3> QED
            BY <1>5, <2>3, <3>1, <3>2, ReadDirectoryMoves
    <2> QED
        BY <2>2, <2>3
<1>6. ASSUME NEW fd \in Fds, NEW nbytes \in Sizes, ReadFaults(fd, nbytes) PROVE DirPosAtEntry'
    <2>1. \A f \in Fds : desc'[f].flags = 0
        BY <1>6 DEF ReadFaults, Desc
    <2> QED
        BY <2>1 DEF DirPosAtEntry, IN_USE
<1>7. ASSUME NEW fd \in Fds, Close(fd) PROVE DirPosAtEntry'
    BY <1>7 DEF Close, DirPosAtEntry, Desc, IN_USE
<1>8. CASE UNCHANGED vars
    BY <1>8 DEF vars, DirPosAtEntry
<1> QED
    BY <1>1, <1>2, <1>3, <1>4, <1>5, <1>6, <1>7, <1>8 DEF Next

(* What a call does to one descriptor it does to its stream.               *)
LEMMA StreamMoves ==
    ASSUME desc \in [Fds -> Desc], NEW fd \in Fds, NEW d, desc' = [desc EXCEPT ![fd] = d],
           lost' \ {fd} = lost \ {fd}
    PROVE  Descriptors' = [Descriptors EXCEPT ![fd] = StreamOf(d, fd \in lost')]
<1>1. \A other \in Fds : other # fd =>
        desc'[other] = desc[other] /\ (other \in lost' <=> other \in lost)
    OBVIOUS
<1>2. desc'[fd] = d
    OBVIOUS
<1> QED
    BY <1>1, <1>2 DEF Descriptors, StreamOf

\* A free descriptor stands for no stream.
LEMMA DescriptorStands ==
    ASSUME desc \in [Fds -> Desc], NEW fd \in Fds
    PROVE  /\ Descriptors[fd] = StreamOf(desc[fd], fd \in lost)
           /\ Descriptors[fd] = NoStream <=> desc[fd].flags # IN_USE
           /\ Descriptors[fd] = LostStream <=> desc[fd].flags = IN_USE /\ fd \in lost
<1>1. desc[fd] \in Desc /\ -2 \notin Inodes /\ -2 # Directory /\ -3 \notin Inodes /\ -3 # Directory
    BY FileSystemAssumption DEF Directory
<1>2. NoStream # LostStream
    BY DEF NoStream, LostStream
<1> QED
    BY <1>1, <1>2 DEF Descriptors, StreamOf, NoStream, LostStream, Desc

(* The contents of a file and of the directory.                            *)
LEMMA ContentsAre ==
    /\ DOMAIN Contents = Inodes \cup {Directory}
    /\ \A inode \in Inodes : Contents[inode] = FileBytes(inode)
    /\ Contents[Directory] = [k \in Indices |-> <<Directory, k>>]
<1>1. Directory \notin Inodes
    BY FileSystemAssumption DEF Directory
<1> QED
    BY <1>1 DEF Contents

(* A file's contents are as long as the file.                              *)
LEMMA FileLength ==
    ASSUME NEW inode \in Inodes PROVE Len(FileBytes(inode)) = InodeLength[inode]
BY InodeLengthType DEF FileBytes

\* open begins a stream at the beginning of the file found.
LEMMA OpenImplements ==
    ASSUME StreamInv, NEW name \in Names, Open(name)
    PROVE  \E fd \in Fds, file \in DOMAIN Contents : Streams!Open(fd, file)
<1>1. PICK fd \in FreeFds, dentry \in Found(name) :
        /\ desc' = [desc EXCEPT ![fd] = Opened(fd, dentry)]
        /\ buf' = << >>
        /\ lost' = lost
    BY DEF Open, Return
<1> DEFINE file == IF dentry.filetype = "file" THEN dentry.inode ELSE Directory
<1>2. fd \in Fds /\ desc[fd] \in Desc /\ desc[fd].flags # IN_USE /\ fd \notin lost
    BY DEF FreeFds, StreamInv, IInv, LostInUse
<1>3. dentry.filetype \in {"dir", "file"} /\ dentry.inode \in Inodes
    BY FoundType
<1>4. file \in DOMAIN Contents
    BY <1>3, ContentsAre
<1>5. StreamOf(Opened(fd, dentry), fd \in lost') = [file |-> file, pos |-> 0]
    <2>1. FNAME_MAX \in Nat \ {0}
        BY FileSystemAssumption
    <2>2. 0 \div FNAME_MAX = 0
        BY <2>1
    <2> QED
        BY <1>1, <1>2, <1>3, <2>2 DEF Opened, StreamOf, Desc
<1>6. Descriptors' = [Descriptors EXCEPT ![fd] = [file |-> file, pos |-> 0]]
    BY <1>1, <1>2, <1>5, StreamMoves DEF StreamInv, IInv
<1>7. Descriptors[fd] = NoStream
    BY <1>2, DescriptorStands DEF StreamInv, IInv
<1> HIDE DEF file
<1> QED
    BY <1>1, <1>2, <1>4, <1>6, <1>7 DEF Streams!Open

\* close ends the descriptor's stream.
LEMMA CloseImplements ==
    ASSUME StreamInv, NEW fd \in Fds, Close(fd)
    PROVE  Streams!Close(fd)
<1> DEFINE d == [desc[fd] EXCEPT !.flags = 0]
<1>1. /\ desc' = [desc EXCEPT ![fd] = d] /\ buf' = << >> /\ desc[fd].flags = IN_USE
      /\ lost' = lost \ {fd}
    BY DEF Close, Return, StreamInv, IInv, Desc
<1>2. StreamOf(d, fd \in lost') = NoStream
    BY DEF StreamOf, StreamInv, IInv, Desc, IN_USE
<1> HIDE DEF d
<1>3. Descriptors' = [Descriptors EXCEPT ![fd] = NoStream]
    BY <1>1, <1>2, StreamMoves DEF StreamInv, IInv
<1> QED
    BY <1>1, <1>3, DescriptorStands DEF Streams!Close, StreamInv, IInv

\* What a read may be of a stream: a read, or the loss of it.
ReadOrLose(fd) ==
    \/ Descriptors[fd] \notin {NoStream, LostStream} /\ Streams!Read(fd)
    \/ Descriptors[fd] # NoStream /\ Streams!Lose(fd)

(* A read by at most a block that does not wrap starts in the first block  *)
(* or touches at most two.                                                 *)
LEMMA NoMiddle ==
    ASSUME ReadsByBlock, NEW inode \in Inodes, NEW here \in Nat, NEW nbytes \in Sizes,
           here <= InodeLength[inode], NEW length \in Nat,
           length = Clip(inode, here, Unsigned(nbytes)), here + length <= InodeLength[inode]
    PROVE  ~(Initial(here) > 0 /\ MiddleBlocks(here, length))
<1>1. /\ BLOCK_SIZE \in Nat \ {0} /\ WORD \in Nat \ {0} /\ nbytes \in -BLOCK_SIZE .. BLOCK_SIZE
      /\ InodeLength[inode] \in Nat /\ 2 * InodeLength[inode] < WORD /\ 8 * BLOCK_SIZE <= WORD
    BY WordIs, InodeLengthType, LengthBound DEF ReadsByBlock
<1>2. CASE nbytes >= 0
    <2>1. Unsigned(nbytes) = nbytes /\ here + nbytes < WORD
        <3>1. nbytes \in Nat /\ nbytes < WORD /\ here + nbytes < WORD
            BY <1>1, <1>2
        <3> QED
            BY <3>1, NoWrap DEF Unsigned
    <2>2. length <= BLOCK_SIZE
        <3>1. nbytes \in Nat /\ Clip(inode, here, nbytes) <= nbytes
            BY <1>1, <1>2, <2>1, ClipIs
        <3> QED
            BY <1>1, <2>1, <3>1
    <2> DEFINE first == here \div BLOCK_SIZE
               final  == (here + length) \div BLOCK_SIZE
    <2>3. /\ first \in Nat /\ final \in Nat
          /\ here < BLOCK_SIZE * first + BLOCK_SIZE
          /\ BLOCK_SIZE * final <= here + length
        <3>1. /\ first \in Nat /\ here % BLOCK_SIZE \in 0 .. BLOCK_SIZE - 1
              /\ here = BLOCK_SIZE * first + (here % BLOCK_SIZE)
            BY BlockOf
        <3>2. /\ final \in Nat /\ (here + length) % BLOCK_SIZE \in 0 .. BLOCK_SIZE - 1
              /\ here + length = BLOCK_SIZE * final + ((here + length) % BLOCK_SIZE)
            BY BlockOf
        <3> HIDE DEF first, final
        <3> QED
            BY <3>1, <3>2, <1>1
    <2>7. here + length < WORD
        BY <1>1
    <2>4. Initial(here) = first /\ Final(here, length) = final
        BY <2>7, FinalIs DEF Initial
    <2> HIDE DEF first, final
    <2>5. BLOCK_SIZE * final < BLOCK_SIZE * (first + 2)
        BY <1>1, <2>2, <2>3
    <2>6. final < first + 2
        BY <1>1, <2>3, <2>5
    <2> QED
        BY <2>3, <2>4, <2>6 DEF MiddleBlocks
<1>3. CASE nbytes < 0
    <2>1. Unsigned(nbytes) = WORD + nbytes
        <3> DEFINE r == WORD + nbytes
        <3>1. r \in 0 .. WORD - 1 /\ nbytes = WORD * (-1) + r /\ -1 \in Int
            BY <1>1, <1>3
        <3> HIDE DEF r
        <3>2. (WORD * (-1) + r) % WORD = r
            BY <1>1, <3>1, RemainderIs
        <3> QED
            BY <3>1, <3>2 DEF Unsigned, r
    <2>2. here < BLOCK_SIZE
        <3>1. CASE (here + Unsigned(nbytes)) % WORD > InodeLength[inode]
            <4>1. ASSUME here >= BLOCK_SIZE PROVE FALSE
                <5>1. here + nbytes \in Nat /\ here + nbytes < WORD /\ here + nbytes <= InodeLength[inode]
                    BY <1>1, <1>3, <4>1
                <5>2. (here + Unsigned(nbytes)) % WORD = here + nbytes
                    <6> DEFINE x == here + nbytes
                    <6>1. here + Unsigned(nbytes) = WORD * 1 + x /\ x \in 0 .. WORD - 1 /\ 1 \in Int
                        BY <1>1, <2>1, <5>1
                    <6> HIDE DEF x
                    <6>2. (WORD * 1 + x) % WORD = x
                        BY <1>1, <6>1, RemainderIs
                    <6> QED
                        BY <6>1, <6>2 DEF x
                <5> QED
                    BY <3>1, <5>1, <5>2, <1>1
            <4> QED
                BY <1>1, <4>1
        <3>2. CASE ~((here + Unsigned(nbytes)) % WORD > InodeLength[inode])
            <4>1. length = WORD + nbytes
                BY <2>1, <3>2, Zenon DEF Clip
            <4> QED
                BY <1>1, <4>1
        <3> QED
            BY <3>1, <3>2
    <2>3. Initial(here) = 0
        <3>1. here = BLOCK_SIZE * 0 + here /\ here \in 0 .. BLOCK_SIZE - 1 /\ 0 \in Nat
            BY <1>1, <2>2
        <3> QED
            BY <1>1, <3>1, DivisionIs DEF Initial
    <2> QED
        BY <2>3
<1> QED
    BY <1>1, <1>2, <1>3

(* A read by at most a block copies what stands there, or loses its place. *)
LEMMA ReadFileImplements ==
    ASSUME StreamInv, ReadsByBlock, NEW fd \in Fds, NEW nbytes \in Sizes, ReadFile(fd, nbytes)
    PROVE  ReadOrLose(fd)
<1> DEFINE here    == desc[fd].file_pos
           inode  == desc[fd].inode
           length == Clip(inode, here, Unsigned(nbytes))
<1>1. /\ desc[fd] \in Desc  /\ here \in Nat  /\ inode \in Inodes
      /\ InodeLength[inode] \in Nat
      /\ desc[fd].flags = IN_USE  /\ desc[fd].ops = "file"
    BY InodeLengthType, FileSystemAssumption DEF StreamInv, IInv, Desc, ReadFile
<1>2. PICK p \in Nat :
        /\ desc' = [desc EXCEPT ![fd].file_pos = p]
        /\ fd \notin lost' => fd \notin lost /\ p = here + length /\ length \in Nat /\ p <= InodeLength[inode]
    BY ReadFileMoves, Zenon DEF StreamInv
<1> DEFINE d == [desc[fd] EXCEPT !.file_pos = p]
<1>3. desc' = [desc EXCEPT ![fd] = d]
    BY <1>1, <1>2 DEF StreamInv, IInv, Desc
<1>4. lost' \ {fd} = lost \ {fd}
    <2>1. lost' = lost \/ lost' = lost \cup {fd}
        BY Zenon DEF ReadFile
    <2> QED
        BY <2>1
<1>5. Descriptors' = [Descriptors EXCEPT ![fd] = StreamOf(d, fd \in lost')]
    BY <1>3, <1>4, StreamMoves DEF StreamInv, IInv
<1>6. d.flags = IN_USE /\ d.ops = "file" /\ d.inode = inode /\ d.file_pos = p
    BY <1>1 DEF Desc
<1>7. Descriptors[fd] # NoStream
    BY <1>1, DescriptorStands DEF StreamInv, IInv
<1> HIDE DEF d
<1>8. CASE fd \in lost'
    <2>1. StreamOf(d, fd \in lost') = LostStream
        BY <1>6, <1>8 DEF StreamOf
    <2> QED
        BY <1>5, <1>7, <2>1 DEF ReadOrLose, Streams!Lose
<1>9. CASE fd \notin lost'
    <2>1. fd \notin lost /\ p = here + length /\ length \in Nat /\ here + length <= InodeLength[inode]
        BY <1>2, <1>9
    <2>2. here <= InodeLength[inode] /\ here + length < WORD
        <3>1. 2 * InodeLength[inode] < WORD /\ WORD \in Nat
            BY <1>1, LengthBound, WordIs
        <3> HIDE DEF here, inode, length
        <3> QED
            BY <1>1, <2>1, <3>1
    <2>3. ~(Initial(here) > 0 /\ MiddleBlocks(here, length))
        BY <1>1, <2>1, <2>2, NoMiddle
    <2>4. buf' = Data(inode, here, length)
        <3>1. buf' = IF (IF here > InodeLength[inode] THEN FFAIL ELSE Copied(here, length)) = FFAIL
                    THEN << >> ELSE Data(inode, here, length)
            BY Zenon DEF ReadFile, Return
        <3>2. Copied(here, length) = length /\ ~(here > InodeLength[inode])
            BY <1>1, <2>1, <2>2, CopiedIsLength
        <3>3. length # FFAIL
            BY <2>1 DEF FFAIL
        <3> QED
            BY <3>1, <3>2, <3>3, Zenon
    <2>5. buf' = SubSeq(FileBytes(inode), here + 1, here + length)
        <3> HIDE DEF inode, here, length
        <3> QED
            BY <1>1, <2>1, <2>2, <2>3, <2>4, DataIs, PartOfFile
    <2>6. /\ StreamOf(d, fd \in lost') = [file |-> inode, pos |-> here + length]
          /\ StreamOf(desc[fd], fd \in lost) = [file |-> inode, pos |-> here]
        BY <1>1, <1>6, <1>9, <2>1 DEF StreamOf
    <2> HIDE DEF inode, here, length
    <2>7. Descriptors' = [Descriptors EXCEPT ![fd] = [file |-> inode, pos |-> here + length]]
        BY <1>5, <2>6
    <2>8. /\ Descriptors[fd] = [file |-> inode, pos |-> here]
          /\ Descriptors[fd] \notin {NoStream, LostStream}
        BY <1>1, <2>1, <2>6, DescriptorStands DEF StreamInv, IInv
    <2>9. Descriptors' = [Descriptors EXCEPT ![fd].pos = here + length]
        <3>1. [Descriptors[fd] EXCEPT !.pos = here + length] = [file |-> inode, pos |-> here + length]
            BY <2>8
        <3> QED
            BY <2>7, <3>1
    <2>10. Contents[inode] = FileBytes(inode) /\ Len(FileBytes(inode)) = InodeLength[inode]
        BY <1>1, ContentsAre, FileLength
    <2>11. length \in 0 .. InodeLength[inode] - here
        BY <1>1, <2>1
    <2>12. Descriptors[fd].file = inode /\ Descriptors[fd].pos = here
        BY <2>8
    <2>13. \E n \in 0 .. Len(FileBytes(inode)) - here :
            /\ Descriptors' = [Descriptors EXCEPT ![fd].pos = here + n]
            /\ buf' = SubSeq(FileBytes(inode), here + 1, here + n)
        BY <2>5, <2>9, <2>10, <2>11
    <2>14. Streams!Read(fd)
        BY <2>10, <2>12, <2>13 DEF Streams!Read
    <2> QED
        BY <2>8, <2>14 DEF ReadOrLose
<1> QED
    BY <1>8, <1>9

(* One element of a sequence, as a sequence.                               *)
LEMMA SubSeqOne ==
    ASSUME NEW S, NEW names, NEW k \in Int, names[k] \in S
    PROVE  SubSeq(names, k, k) \in Seq(S) /\ Len(SubSeq(names, k, k)) = 1 /\ SubSeq(names, k, k)[1] = names[k]
<1>1. \A j \in k .. k : names[j] \in S
    OBVIOUS
<1>2. /\ SubSeq(names, k, k) \in Seq(S)
      /\ Len(SubSeq(names, k, k)) = IF k <= k THEN k - k + 1 ELSE 0
      /\ \A j \in 1 .. k - k + 1 : SubSeq(names, k, k)[j] = names[k + j - 1]
    BY <1>1, SubSeqProperties
<1> QED
    BY <1>2

(* A read of the directory takes the next name, or none, or loses its      *)
(* place.                                                                  *)
LEMMA ReadDirectoryImplements ==
    ASSUME StreamInv, NEW fd \in Fds, NEW nbytes \in Sizes \cup {FNAME_MAX}, ReadDirectory(fd, nbytes)
    PROVE  ReadOrLose(fd)
<1> DEFINE index == Index(fd)
           names == [k \in Indices |-> <<Directory, k>>]
           S == {<<Directory, k>> : k \in Indices}
<1>1. desc[fd] \in Desc /\ desc[fd].flags = IN_USE /\ desc[fd].ops = "dir" /\ desc \in [Fds -> Desc]
    BY DEF ReadDirectory, StreamInv, IInv
<1>2. Descriptors[fd] # NoStream
    BY <1>1, DescriptorStands
<1>3. CASE fd \in lost'
    <2>1. PICK d : /\ desc' = [desc EXCEPT ![fd] = d] /\ d.flags = IN_USE
                   /\ lost' \ {fd} = lost \ {fd}
        <3>1. CASE UNCHANGED <<desc, lost>>
            <4>1. desc' = [desc EXCEPT ![fd] = desc[fd]]
                BY <1>1, <3>1
            <4> QED
                BY <1>1, <3>1, <4>1
        <3>2. CASE ~ UNCHANGED <<desc, lost>>
            <4>1. /\ desc' = [desc EXCEPT ![fd].file_pos = (@ + nbytes) % WORD]
                  /\ lost' = lost \/ lost' = lost \cup {fd}
                BY <3>2 DEF ReadDirectory
            <4>2. PICK d : d = [desc[fd] EXCEPT !.file_pos = (@ + nbytes) % WORD]
                OBVIOUS
            <4>3. desc' = [desc EXCEPT ![fd] = d] /\ d.flags = IN_USE
                BY <1>1, <4>1, <4>2 DEF Desc
            <4>4. lost' \ {fd} = lost \ {fd}
                BY <4>1
            <4> QED
                BY <4>3, <4>4
        <3> QED
            BY <3>1, <3>2
    <2>2. StreamOf(d, fd \in lost') = LostStream
        BY <1>3, <2>1 DEF StreamOf
    <2>3. Descriptors' = [Descriptors EXCEPT ![fd] = LostStream]
        BY <1>1, <2>1, <2>2, StreamMoves
    <2> QED
        BY <1>2, <2>3 DEF ReadOrLose, Streams!Lose
<1>4. CASE fd \notin lost'
    <2>1. /\ fd \notin lost /\ lost' = lost
          /\ \/ desc' = desc /\ buf' = << >>
             \/ /\ index < Len(Entries)
                /\ desc' = [desc EXCEPT ![fd].file_pos = desc[fd].file_pos + FNAME_MAX]
                /\ buf' = << <<Directory, index + 1>> >>
        BY <1>4, ReadDirectoryMoves
    <2>2. index \in 0 .. Len(Entries) /\ Len(Entries) \in Nat
        BY <1>1, <2>1, IndexIs, FileSystemAssumption
    <2>3. Descriptors[fd] = [file |-> Directory, pos |-> index] /\ Descriptors[fd] \notin {NoStream, LostStream}
        BY <1>1, <2>1, DescriptorStands DEF StreamInv, IInv, StreamOf, IN_USE, Index
    <2>4. Contents[Directory] = names /\ Len(names) = Len(Entries)
        BY <2>2, ContentsAre DEF Indices
    <2>5. Descriptors[fd].file = Directory /\ Descriptors[fd].pos = index
        BY <2>3
    <2>6. CASE desc' = desc /\ buf' = << >>
        <3>1. SubSeq(names, index + 1, index + 0) = << >>
            <4> HIDE DEF index, names
            <4> QED
                BY <2>2, SubSeqEmpty
        <3>2. Descriptors' = Descriptors
            BY <2>1, <2>6 DEF Descriptors
        <3> HIDE DEF index, names
        <3>3. [Descriptors EXCEPT ![fd].pos = index + 0] = Descriptors
            <4>1. [Descriptors[fd] EXCEPT !.pos = index + 0] = Descriptors[fd]
                BY <2>2, <2>3
            <4>2. Descriptors = [q \in Fds |-> Descriptors[q]]
                BY DEF Descriptors
            <4> QED
                BY <4>1, <4>2
        <3>4. 0 \in 0 .. Len(names) - index
            BY <2>2, <2>4
        <3>5. \E n \in 0 .. Len(names) - index :
                /\ Descriptors' = [Descriptors EXCEPT ![fd].pos = index + n]
                /\ buf' = SubSeq(names, index + 1, index + n)
            BY <2>6, <3>1, <3>2, <3>3, <3>4, Zenon
        <3>6. Streams!Read(fd)
            BY <2>4, <2>5, <3>5 DEF Streams!Read
        <3> QED
            BY <2>3, <3>6 DEF ReadOrLose
    <2>7. CASE /\ index < Len(Entries)
               /\ desc' = [desc EXCEPT ![fd].file_pos = desc[fd].file_pos + FNAME_MAX]
               /\ buf' = << <<Directory, index + 1>> >>
        <3> DEFINE d == [desc[fd] EXCEPT !.file_pos = desc[fd].file_pos + FNAME_MAX]
        <3>1. desc' = [desc EXCEPT ![fd] = d] /\ buf' = << <<Directory, index + 1>> >>
            BY <1>1, <2>7 DEF Desc
        <3>2. StreamOf(d, fd \in lost') = [file |-> Directory, pos |-> index + 1]
            <4>1. /\ d.flags = IN_USE /\ d.ops = "dir"
                  /\ d.file_pos = desc[fd].file_pos + FNAME_MAX
                BY <1>1 DEF Desc
            <4>2. d.file_pos \div FNAME_MAX = index + 1
                BY <1>1, <2>1, <4>1, IndexIs
            <4> HIDE DEF d
            <4> QED
                BY <1>4, <4>1, <4>2 DEF StreamOf
        <3> HIDE DEF d
        <3>3. Descriptors' = [Descriptors EXCEPT ![fd] = [file |-> Directory, pos |-> index + 1]]
            BY <1>1, <2>1, <3>1, <3>2, StreamMoves
        <3>4. index + 1 \in Indices /\ index + 1 \in Int
            <4> HIDE DEF index
            <4> QED
                BY <2>2, <2>7 DEF Indices
        <3>5. SubSeq(names, index + 1, index + 1) = << <<Directory, index + 1>> >>
            <4> DEFINE i == index + 1
                       piece == SubSeq(names, i, i)
            <4>1. \A k \in i .. i : names[k] \in S
                BY <3>4
            <4>2. names[i] = <<Directory, i>>
                BY <3>4
            <4> HIDE DEF names, i, S
            <4>3. piece \in Seq(S) /\ Len(piece) = 1 /\ piece[1] = names[i]
                <5>1. i \in Int /\ names[i] \in S
                    BY <3>4, <4>1 DEF i
                <5> QED
                    BY <5>1, SubSeqOne
            <4> HIDE DEF piece
            <4>4. piece = << <<Directory, i>> >>
                <5> DEFINE e == <<Directory, i>>
                           one == <<e>>
                <5>1. e \in S
                    BY <3>4 DEF S, i
                <5>2. one \in Seq(S) /\ Len(one) = 1 /\ one[1] = e
                    <6> HIDE DEF e
                    <6> QED
                        BY <5>1
                <5>3. piece[1] = e
                    BY <4>2, <4>3
                <5> HIDE DEF e, one
                <5> QED
                    BY <4>3, <5>2, <5>3, SeqEqual DEF one, e
            <4> QED
                BY <4>4 DEF piece, i
        <3> HIDE DEF index, names
        <3>6. Descriptors' = [Descriptors EXCEPT ![fd].pos = index + 1]
            <4>1. [Descriptors[fd] EXCEPT !.pos = index + 1] = [file |-> Directory, pos |-> index + 1]
                BY <2>3
            <4> QED
                BY <3>3, <4>1
        <3>7. 1 \in 0 .. Len(names) - index
            BY <2>2, <2>4, <2>7
        <3>8. \E n \in 0 .. Len(names) - index :
                /\ Descriptors' = [Descriptors EXCEPT ![fd].pos = index + n]
                /\ buf' = SubSeq(names, index + 1, index + n)
            BY <3>1, <3>5, <3>6, <3>7, Zenon
        <3>9. Streams!Read(fd)
            BY <2>4, <2>5, <3>8 DEF Streams!Read
        <3> QED
            BY <2>3, <3>9 DEF ReadOrLose
    <2> QED
        BY <2>1, <2>6, <2>7
<1> QED
    BY <1>3, <1>4

\* A fault ends all streams.
LEMMA ReadFaultsImplements ==
    ASSUME StreamInv, NEW fd \in Fds, NEW nbytes \in Sizes, ReadFaults(fd, nbytes)
    PROVE  Streams!End
<1>1. \A f \in Fds : desc'[f].flags = 0
    BY DEF ReadFaults, StreamInv, IInv, Desc
<1>2. buf' = << >>
    BY DEF ReadFaults, Return
<1> QED
    BY <1>1, <1>2 DEF Streams!End, Descriptors, StreamOf, IN_USE

(* execute reads a whole file from its beginning: exactly.                 *)
LEMMA LoadImplements ==
    ASSUME StreamInv, NEW name \in Names, Load(name)
    PROVE  \E file \in DOMAIN Contents : Streams!Load(file)
<1>1. PICK dentry \in Found(name) :
        /\ buf' = Data(dentry.inode, 0, InodeLength[dentry.inode])
        /\ desc' = desc /\ lost' = lost
    BY DEF Load, Return
<1> DEFINE inode == dentry.inode
           length == InodeLength[inode]
<1>2. inode \in Inodes /\ length \in Nat
    BY FoundType, InodeLengthType
<1>3. Initial(0) = 0
    <2>1. BLOCK_SIZE \in Nat \ {0}
        BY FileSystemAssumption
    <2> QED
        BY <2>1 DEF Initial
<1>8. 0 + length < WORD
    <2>1. 2 * InodeLength[inode] < WORD /\ WORD \in Nat
        BY <1>2, LengthBound, WordIs
    <2> HIDE DEF inode
    <2> QED
        BY <1>2, <2>1
<1>4. Data(inode, 0, length) = Places(inode, 0, length)
    BY <1>2, <1>3, <1>8, DataIs
<1>5. Places(inode, 0, length) = FileBytes(inode)
    BY <1>2 DEF Places, Place, FileBytes
<1>6. inode \in DOMAIN Contents /\ Contents[inode] = FileBytes(inode)
    BY <1>2, ContentsAre
<1>7. Descriptors' = Descriptors
    BY <1>1 DEF Descriptors
<1> QED
    BY <1>1, <1>4, <1>5, <1>6, <1>7 DEF Streams!Load

(* Every step of the file system is a step of the streams, or none.        *)
LEMMA StepImplements ==
    ASSUME StreamInv, ReadsByBlock, [Next]_vars
    PROVE  [Streams!Next]_(Streams!vars)
<1>1. ASSUME NEW name \in Names, Open(name) PROVE Streams!Next
    BY <1>1, OpenImplements DEF Streams!Next
<1>2. ASSUME NEW name \in Names, Load(name) PROVE Streams!Next
    BY <1>2, LoadImplements DEF Streams!Next
<1>3. CASE OpenFails
    BY <1>3 DEF OpenFails, Fail, Return, Streams!Next, Streams!Fail, Descriptors
<1>4. ASSUME NEW fd \in Fds, NEW nbytes \in Sizes, ReadFile(fd, nbytes) PROVE Streams!Next
    BY <1>4, ReadFileImplements DEF Streams!Next, ReadOrLose
<1>5. ASSUME NEW fd \in Fds, NEW nbytes \in Sizes \cup {FNAME_MAX}, ReadDirectory(fd, nbytes)
      PROVE  Streams!Next
    BY <1>5, ReadDirectoryImplements DEF Streams!Next, ReadOrLose
<1>8. ASSUME NEW fd \in Fds, NEW nbytes \in Sizes, ReadFaults(fd, nbytes) PROVE Streams!Next
    BY <1>8, ReadFaultsImplements DEF Streams!Next
<1>6. ASSUME NEW fd \in Fds, Close(fd) PROVE Streams!Next
    BY <1>6, CloseImplements DEF Streams!Next
<1>7. CASE UNCHANGED vars
    BY <1>7 DEF vars, Streams!vars, Descriptors
<1> HIDE DEF Streams!Next
<1> QED
    BY <1>1, <1>2, <1>3, <1>4, <1>5, <1>6, <1>7, <1>8 DEF Next

(* As long as programs read by at most a block, every descriptor is a      *)
(* stream over its file or the directory, whatever is opened, read and     *)
(* closed besides; one on which a negative count wraps, or through which   *)
(* the directory is read by other than a name, is lost alone.              *)
THEOREM ImplementsStreamsHolds ==
    ASSUME ReadsByBlock PROVE Spec => ImplementsStreams
<1>1. Init => Streams!Init
    BY DEF Init, Streams!Init, Descriptors, StreamOf, IN_USE
<1>2. StreamInv /\ [Next]_vars => [Streams!Next]_(Streams!vars)
    BY StepImplements
<1> QED
    BY <1>1, <1>2, StreamInvInit, StreamInvStep, PTL DEF Spec, ImplementsStreams, Streams!Spec

-----------------------------------------------------------------------------
(* Proofs: of the memory, as one of the parts.                             *)

\* A behaviour of which the memory is the part is one of Memory.
LEMMA MemoryPart == MCSpec /\ part = "memory" => Paged!Spec
<1>1. MCInit /\ part = "memory" => Paged!Init
    BY DEF MCInit
<1>2. part = "memory" /\ [MCNext]_all => (part = "memory")' /\ [Paged!Next]_(Paged!vars)
    <2>1. UNCHANGED <<part, step, memory>> /\ part = "memory" => (part = "memory")' /\ UNCHANGED Paged!vars
        BY DEF memory, Paged!vars, Paged!entries, Paged!tables, Paged!processes
    <2>2. part = "memory" /\ MCNext => Paged!Next /\ UNCHANGED part
        BY DEF MCNext
    <2> QED
        BY <2>1, <2>2 DEF all
<1> QED
    BY <1>1, <1>2, PTL DEF MCSpec, Paged!Spec

(* For any number of processes and wherever the linker puts the TSS and    *)
(* the LDT, each program sees its own memory among the others, the kernel  *)
(* stays mapped, and the ways into it are there: Memory's MemorySafety     *)
(* (paging.c, kernel.c).                                                   *)
THEOREM MemoryServed == ASSUME Paged!Placed PROVE MCSpec => []MemorySafety
<1>1. Paged!Spec => []Paged!MemorySafety
    BY Paged!MemorySafetyHolds
<1>2. ~(part = "memory") /\ [MCNext]_all => ~(part = "memory")'
    BY DEF MCNext, all
<1> QED
    BY <1>1, <1>2, MemoryPart, PTL DEF MCSpec, MemorySafety

====
