----------------------------- MODULE FileSystem -----------------------------
(***************************************************************************)
(* The read-only file system of drivers/fs.c: the directory in the boot    *)
(* block, inodes that list data blocks, read_data, which copies a range of *)
(* a file out of its blocks, and the descriptors of the running process    *)
(* that read files and the directory piece by piece.                       *)
(*                                                                         *)
(* A byte of the image is named by its data block and its index there, a   *)
(* name in the directory by its entry.                                     *)
(***************************************************************************)
EXTENDS Integers, Sequences

CONSTANTS
    BLOCK_SIZE,
    FNAME_MAX,
    FdMax,          \* descriptors for files
    Entries,        \* directory: sequence of [filename, filetype, inode]
    InodeLength,    \* inode_t.length, by inode
    DataBlockNum,   \* inode_t.data_block_num, by inode and index
    BadNames,       \* names that are not in the directory
    Sizes,          \* byte counts that programs read by: any int32_t
    WORD            \* 2^32: the counts and offsets of read_data are uint32_t

Fds == 0 .. FdMax - 1
FFAIL == -1
IN_USE == 1
Directory == -1
Inodes == DOMAIN InodeLength
Indices == 1 .. Len(Entries)
Names == {Entries[k].filename : k \in Indices}

ASSUME FileSystemAssumption ==
    /\ BLOCK_SIZE \in Nat \ {0} /\ FNAME_MAX \in Nat \ {0}
    /\ FdMax \in Nat
    /\ Inodes \subseteq Nat /\ 0 \in Inodes
    /\ Entries \in Seq([filename : Names, filetype : {"dir", "file"}, inode : Inodes])
    /\ InodeLength \in [Inodes -> Nat]
    /\ BadNames \cap Names = {}
    /\ Sizes \subseteq Int
    /\ WORD \in Nat /\ 8 * BLOCK_SIZE <= WORD /\ Len(Entries) * FNAME_MAX < WORD
    /\ \A inode \in Inodes : 2 * InodeLength[inode] < WORD
    /\ \A nbytes \in Sizes : -WORD <= 2 * nbytes /\ 2 * nbytes < WORD

VARIABLES
    desc,           \* file_desc_array, from the first descriptor for files on
    ret,            \* what the last call returned
    buf,            \* what it copied to its caller: bytes, or names
    lost            \* history: descriptors whose position has left the items of
                    \* their file, see ReadFile and ReadDirectory

vars == <<desc, ret, buf, lost>>

Desc == [flags : {0, IN_USE}, ops : {"dir", "file"}, inode : Inodes, file_pos : Nat]
\* The type of desc is part of the inductive invariant below.
\* A new process: descriptors of a zeroed PCB.
Init ==
    /\ desc = [fd \in Fds |-> [flags |-> 0, ops |-> "file", inode |-> 0, file_pos |-> 0]]
    /\ ret = 0
    /\ buf = << >>
    /\ lost = {}

-----------------------------------------------------------------------------
(* read_data.  A range that goes past the end of the file is cut there;    *)
(* one that goes past 2^32, a negative count, is not if it comes out       *)
(* before its offset.                                                      *)

Unsigned(nbytes) == nbytes % WORD

\* Variant: no cut.
ClipNot(inode, offset, length) == length

Clip(inode, offset, length) ==
    IF (offset + length) % WORD > InodeLength[inode] THEN InodeLength[inode] - offset ELSE length

Initial(offset) == offset \div BLOCK_SIZE
Final(offset, length) == ((offset + length) % WORD) \div BLOCK_SIZE

\* How much comes from the first block, from whole blocks in the middle and
\* from the last block.
HeadBytes(offset, length) ==
    IF Initial(offset) = Final(offset, length) THEN length ELSE BLOCK_SIZE - (offset % BLOCK_SIZE)

MiddleBytes(offset, length) ==
    IF Final(offset, length) <= Initial(offset) THEN 0
    ELSE (Final(offset, length) - Initial(offset) - 1) * BLOCK_SIZE

\* Variant: the last block is copied whole.
TailBytesWhole(offset, length) ==
    LET buf_index == HeadBytes(offset, length) + MiddleBytes(offset, length)
    IN  IF buf_index < length THEN BLOCK_SIZE ELSE 0

TailBytes(offset, length) ==
    LET buf_index == HeadBytes(offset, length) + MiddleBytes(offset, length)
    IN  IF buf_index < length THEN ((offset + length) % WORD) % BLOCK_SIZE ELSE 0

\* buf_index at the end, which read_data returns.
Copied(offset, length) ==
    HeadBytes(offset, length) + MiddleBytes(offset, length) + TailBytes(offset, length)

\* The loop over the middle blocks adds the first block's index to i, which
\* already counts from it.
Data(inode, offset, length) ==
    LET first == Initial(offset)
        head  == HeadBytes(offset, length)
        block(k) == DataBlockNum[inode][k]
        middle(k) ==
            LET i == first + 1 + (k - head - 1) \div BLOCK_SIZE
            IN  <<block(first + i), (k - head - 1) % BLOCK_SIZE>>
        tail(k) == k - head - MiddleBytes(offset, length) - 1
    IN  [k \in 1 .. Copied(offset, length) |->
            IF k <= head THEN <<block(first), (offset % BLOCK_SIZE) + k - 1>>
            ELSE IF k <= head + MiddleBytes(offset, length) THEN middle(k)
            ELSE <<block(Final(offset, length)), tail(k)>>]

-----------------------------------------------------------------------------
(* The directory.  Of several entries of one name the last is found.       *)

Found(name) ==
    {Entries[k] : k \in {k \in Indices :
        /\ Entries[k].filename = name
        /\ \A other \in k + 1 .. Len(Entries) : Entries[other].filename # name}}

-----------------------------------------------------------------------------
(* The system calls.                                                       *)

Return(value, data) == ret' = value /\ buf' = data

Fail == Return(FFAIL, << >>) /\ UNCHANGED <<desc, lost>>

FreeFds == {fd \in Fds : desc[fd].flags # IN_USE}

\* Variant: the position of the descriptor's last file is kept.
OpenedAtOld(fd, dentry) ==
    [desc[fd] EXCEPT !.flags = IN_USE, !.ops = dentry.filetype,
                     !.inode = IF dentry.filetype = "file" THEN dentry.inode ELSE @]

\* directory_open leaves the inode of the descriptor's last file.
Opened(fd, dentry) ==
    [desc[fd] EXCEPT !.flags = IN_USE, !.file_pos = 0, !.ops = dentry.filetype,
                     !.inode = IF dentry.filetype = "file" THEN dentry.inode ELSE @]

Open(name) ==
    \E fd \in FreeFds, dentry \in Found(name) :
        /\ \A other \in FreeFds : fd <= other
        /\ desc' = [desc EXCEPT ![fd] = Opened(fd, dentry)]
        /\ Return(fd, << >>)
        /\ UNCHANGED lost

OpenFails ==
    /\ FreeFds = {} \/ BadNames # {}
    /\ Fail

\* One memcpy of nearly 2^32 bytes.
Runaway(offset, length) == HeadBytes(offset, length) > BLOCK_SIZE

(* file_read.  A refusal, -1, is added to the position like any count.  A  *)
(* range past 2^32 takes two parts of the file and moves the position by   *)
(* the length of both, wherever that is: it is lost until it is closed.    *)
ReadFile(fd, nbytes) ==
    LET pos    == desc[fd].file_pos
        inode  == desc[fd].inode
        length == Clip(inode, pos, Unsigned(nbytes))
        read   == IF pos > InodeLength[inode] THEN FFAIL ELSE Copied(pos, length)
    IN  /\ desc[fd].flags = IN_USE /\ desc[fd].ops = "file"
        /\ pos > InodeLength[inode] \/ ~Runaway(pos, length)
        /\ desc' = [desc EXCEPT ![fd].file_pos = (pos + read) % WORD]
        /\ lost' = IF pos + length < WORD THEN lost ELSE lost \cup {fd}
        /\ Return(read, IF read = FFAIL THEN << >> ELSE Data(inode, pos, length))

\* The entry directory_read reads.
Index(fd) == desc[fd].file_pos \div FNAME_MAX

\* What strncpy leaves of entry k's name, cut or padded to nbytes.
NameOf(k, nbytes) ==
    IF nbytes = 0 THEN << >>
    ELSE IF nbytes < FNAME_MAX THEN << <<Directory, k, nbytes>> >> ELSE << <<Directory, k>> >>

(* directory_read moves on by the caller's count, one name if it is the    *)
(* size of a name (as ls and grep ask for); by another it gives a name     *)
(* again or steps over names, as "cat ." does.                             *)
ReadDirectory(fd, nbytes) ==
    /\ desc[fd].flags = IN_USE /\ desc[fd].ops = "dir"
    /\ IF Index(fd) >= Len(Entries)
       THEN /\ Return(0, << >>)
            /\ UNCHANGED <<desc, lost>>
       ELSE /\ nbytes >= 0
            /\ desc' = [desc EXCEPT ![fd].file_pos = (@ + nbytes) % WORD]
            /\ lost' = IF nbytes \in {0, FNAME_MAX} THEN lost ELSE lost \cup {fd}
            /\ Return(nbytes, NameOf(Index(fd) + 1, nbytes))

(* A negative count that makes memcpy or strncpy run through the program's *)
(* page ends in a page fault, and the fault ends the program.              *)
ReadFaults(fd, nbytes) ==
    LET pos   == desc[fd].file_pos
        inode == desc[fd].inode
    IN  /\ desc[fd].flags = IN_USE /\ nbytes < 0
        /\ \/ /\ desc[fd].ops = "file" /\ pos <= InodeLength[inode]
              /\ Runaway(pos, Clip(inode, pos, Unsigned(nbytes)))
           \/ desc[fd].ops = "dir" /\ Index(fd) < Len(Entries)
        /\ desc' = [other \in Fds |-> [desc[other] EXCEPT !.flags = 0]]
        /\ lost' = {}
        /\ Return(0, << >>)

\* directory_close frees the descriptor and returns -1 all the same.
Close(fd) ==
    /\ desc[fd].flags = IN_USE
    /\ desc' = [desc EXCEPT ![fd].flags = 0]
    /\ lost' = lost \ {fd}
    /\ Return(IF desc[fd].ops = "dir" THEN FFAIL ELSE 0, << >>)

\* create_process copies a whole file, and uses no descriptor.
Load(name) ==
    \E dentry \in Found(name) :
        /\ dentry.filetype = "file"
        /\ LET inode == dentry.inode  length == InodeLength[inode]
            IN  Return(Copied(0, length), Data(inode, 0, length))
        /\ UNCHANGED <<desc, lost>>

Next ==
    \/ \E name \in Names : Open(name) \/ Load(name)
    \/ OpenFails
    \/ \E fd \in Fds, nbytes \in Sizes : ReadFile(fd, nbytes) \/ ReadFaults(fd, nbytes)
    \/ \E fd \in Fds, nbytes \in Sizes \cup {FNAME_MAX} : ReadDirectory(fd, nbytes)
    \/ \E fd \in Fds : Close(fd)

Spec == Init /\ [][Next]_vars

-----------------------------------------------------------------------------
(***************************************************************************)
(* Properties.                                                             *)
(***************************************************************************)

(***************************************************************************)
(* A position in a file never passes its end, through any mix of counts,   *)
(* closes and reopens, as long as no negative count has wrapped around     *)
(* 2^32 on that descriptor (fs.c:331 lets such a range through, and the    *)
(* position may then be anywhere until it is closed): read_data does not   *)
(* refuse it, and file_read never adds the -1 of a refusal to it.          *)
(***************************************************************************)
FilePosInFile ==
    \A fd \in Fds \ lost : desc[fd].flags = IN_USE /\ desc[fd].ops = "file" =>
        desc[fd].file_pos <= InodeLength[desc[fd].inode]

\* The contents of a file: its blocks one after another, up to its length.
FileBytes(inode) ==
    [k \in 1 .. InodeLength[inode] |->
        <<DataBlockNum[inode][(k - 1) \div BLOCK_SIZE], (k - 1) % BLOCK_SIZE>>]

\* The bytes a read of nbytes from pos should copy.
Expected(inode, pos, nbytes) ==
    LET end == IF pos + nbytes < InodeLength[inode] THEN pos + nbytes ELSE InodeLength[inode]
    IN  SubSeq(FileBytes(inode), pos + 1, end)

(***************************************************************************)
(* What a read of nbytes would copy next is what the file holds there,     *)
(* for the positions programs get to, whatever blocks and ends of blocks   *)
(* lie in between -- unless it starts behind the first block and has whole *)
(* blocks in the middle: those read_data takes from the wrong place.  So   *)
(* whole files are read right, and so is all that is read by a block.      *)
(* Of a descriptor lost to a negative count nothing is said.               *)
(***************************************************************************)
MiddleBlocks(offset, length) == Final(offset, length) > Initial(offset) + 1

NextReadExact ==
    \A fd \in Fds \ lost : desc[fd].flags = IN_USE /\ desc[fd].ops = "file" =>
        \A nbytes \in 0 .. 4 * BLOCK_SIZE :
            LET pos    == desc[fd].file_pos
                length == Clip(desc[fd].inode, pos, nbytes)
            IN  Data(desc[fd].inode, pos, length) = Expected(desc[fd].inode, pos, nbytes)
                    <=> ~(Initial(pos) > 0 /\ MiddleBlocks(pos, length))

(***************************************************************************)
(* As long as programs read files by at most a block and the directory by  *)
(* a name, descriptors are streams: each goes through its file or the      *)
(* directory from the beginning on and leaves nothing out, whatever is     *)
(* opened, read and closed besides.  Of a descriptor that is read          *)
(* otherwise nothing is promised until it is closed, except that the       *)
(* others are not disturbed.                                               *)
(***************************************************************************)
Contents ==
    [file \in Inodes \cup {Directory} |->
        IF file = Directory THEN [k \in Indices |-> <<Directory, k>>] ELSE FileBytes(file)]

NoStream == [file |-> -2, pos |-> 0]

LostStream == [file |-> -3, pos |-> 0]

StreamOf(d, is_lost) ==
    IF d.flags # IN_USE THEN NoStream
    ELSE IF is_lost THEN LostStream
    ELSE IF d.ops = "dir" THEN [file |-> Directory, pos |-> d.file_pos \div FNAME_MAX]
    ELSE [file |-> d.inode, pos |-> d.file_pos]

Descriptors == [fd \in Fds |-> StreamOf(desc[fd], fd \in lost)]

Streams == INSTANCE FileStreams WITH
    stream <- Descriptors,
    got <- buf,
    Closed <- NoStream,
    Lost <- LostStream

ImplementsStreams == Streams!Spec

(***************************************************************************)
(* file_read's comment: "fills in the buffer with data from the file,      *)
(* starting at the saved position".                                        *)
(***************************************************************************)
ReadsFromPosition ==
    [][\A fd \in Fds, nbytes \in Sizes :
        ReadFile(fd, nbytes) => buf' = Expected(desc[fd].inode, desc[fd].file_pos, nbytes)]_vars

-----------------------------------------------------------------------------
(***************************************************************************)
(* What the theorems assume of the image and of the sizes programs read    *)
(* by; the proofs are in MCServices.                                       *)
(***************************************************************************)

(* The image has another block where read_data looks for the first block   *)
(* in the middle of a range that does not begin in the first block of its  *)
(* file.                                                                   *)
OtherBlocks ==
    \A inode \in Inodes : \A first \in 1 .. InodeLength[inode] :
        (first + 2) * BLOCK_SIZE <= InodeLength[inode] =>
            DataBlockNum[inode][2 * first + 1] # DataBlockNum[inode][first + 1]

\* Programs read by at most a block (grep and cat by 1024 bytes of 4096).
\* A count of -BLOCK_SIZE or more is as good: it wraps, or starts in the first block.
ReadsByBlock == Sizes \subseteq -BLOCK_SIZE .. BLOCK_SIZE

=============================================================================
