------------------------------ MODULE Process ------------------------------
(***************************************************************************)
(* The process layer of the kernel: create_process, end_process and the    *)
(* system calls that change a process control block (PCB).                 *)
(*                                                                         *)
(* Process p has the 4 MB frame p for its image, the 8 KB kernel stack     *)
(* number p below 8 MB, and its PCB at the low end of that stack.  There   *)
(* is one counter, pid, of the live processes; they are 0 .. pid-1, and    *)
(* pid-1 runs.  System calls are atomic here: interrupt handlers touch     *)
(* only the keyboard, clock and screen state, which other modules model.   *)
(*                                                                         *)
(* The kernel never asks pid who runs: get_pcb_ptr masks the stack         *)
(* pointer.  A stack pointer is a record: the 8 KB stack it started in and *)
(* how many execute frames lie above it.  StackFrames such frames fill a   *)
(* stack, and a pointer below them masks to the PCB of the next stack.     *)
(***************************************************************************)
EXTENDS Integers, Sequences, SequenceTheorems, TLAPS

CONSTANTS
    MaxProcess,     \* MAX_PROCESS: live processes at most
    FdMax,          \* FILE_DESC_SIZE
    StackFrames,    \* execute frames that an 8 KB kernel stack holds
    MaxDepth,       \* BOUND: execute frames a process leaves on its stack
    Programs,       \* names of ELF files in the file system
    Shell,          \* the file "shell"
    NoProgram,      \* content of a frame nothing was loaded into
    BadCommands,    \* null pointers, unknown names, files that are not ELF
    Args,           \* what the argument loop of create_process can copy
    NoArgs,         \* the zeroed argument buffer
    RtcNames, DirNames, FileNames,      \* names in the file system, by type
    Statuses,       \* status bytes programs halt with
    UninitFd        \* BOUND: what the uninitialised fd of rtc_open holds if not -1

Fds == 0 .. FdMax - 1
Slots == 0 .. MaxProcess        \* get_ret_addr also writes slot MaxProcess
STDIN == 0
STDOUT == 1
FFAIL == -1
Ops == {"null", "stdin", "stdout", "rtc", "dir", "file"}

ASSUME ProcessAssumption ==
    /\ MaxProcess \in Nat \ {0}
    /\ FdMax \in Nat /\ FdMax >= 2
    /\ StackFrames \in Nat /\ StackFrames >= 2
    /\ MaxDepth \in Nat
    /\ Shell \in Programs
    /\ NoProgram \notin Programs
    /\ NoArgs \in Args
    /\ Statuses \subseteq 0 .. 255 /\ 0 \in Statuses
    /\ UninitFd \subseteq Int \ {-1}

VARIABLES
    pid,            \* process.c's counter of live processes
    pcb,            \* the PCBs, by slot
    page,           \* frame mapped at PROGRAM_SEGMENT, or -1
    image,          \* program loaded in each frame
    esp0,           \* tss.esp0: where a system call's stack starts
    vidPresent,     \* user_vid_table[0].present
    status,         \* what the last execute to return returned
    outside         \* rtc_open has written outside a descriptor table

vars == <<pid, pcb, page, image, esp0, vidPresent, status, outside>>

Fd == [used : BOOLEAN, ops : Ops]
StackPointer == [slot : Slots, depth : Nat]
Pcb == [fds : [Fds -> Fd], vidmapped : BOOLEAN, args : Args,
        executeReturn : BOOLEAN, pid : Slots, parentPid : Slots,
        parentEsp : StackPointer]

TypeOK ==
    /\ pid \in 0 .. MaxProcess
    /\ pcb \in [Slots -> Pcb]
    /\ page \in -1 .. MaxProcess
    /\ image \in [Slots -> Programs \cup {NoProgram}]
    /\ esp0 \in StackPointer
    /\ vidPresent \in BOOLEAN
    /\ status \in -128 .. 127
    /\ outside \in BOOLEAN

-----------------------------------------------------------------------------
(* The stack pointer inside a system call, and the PCB it masks to.        *)

HandlerEsp == [esp0 EXCEPT !.depth = @ + 1]

CurSlot == IF HandlerEsp.depth < StackFrames THEN esp0.slot ELSE esp0.slot + 1

\* Variant: status read back as unsigned.
SignExtendUnsigned(s) == s

\* pop status: the byte halt passed, read back as an int8_t.
SignExtend(s) == IF s >= 128 THEN s - 256 ELSE s

\* Variant: the child inherits the descriptors left in its slot.
StdStreamsInherited(fds) ==
    [fds EXCEPT ![STDIN] = [used |-> TRUE, ops |-> "stdin"],
                ![STDOUT] = [used |-> TRUE, ops |-> "stdout"]]

\* The descriptor loop of create_process: the rest keep their old file_ops.
StdStreams(fds) ==
    [fd \in Fds |-> CASE fd = STDIN  -> [used |-> TRUE, ops |-> "stdin"]
                      [] fd = STDOUT -> [used |-> TRUE, ops |-> "stdout"]
                      [] OTHER       -> [fds[fd] EXCEPT !.used = FALSE]]

-----------------------------------------------------------------------------
(* Physical memory is zero when the kernel boots, so every PCB is.         *)

ZeroPcb ==
    [fds |-> [fd \in Fds |-> [used |-> FALSE, ops |-> "null"]],
     vidmapped |-> FALSE, args |-> NoArgs, executeReturn |-> FALSE,
     pid |-> 0, parentPid |-> 0, parentEsp |-> [slot |-> 0, depth |-> 0]]

Init ==
    /\ pid = 0
    /\ pcb = [p \in Slots |-> ZeroPcb]
    /\ page = -1
    /\ image = [p \in Slots |-> NoProgram]
    /\ esp0 = [slot |-> 0, depth |-> 0]
    /\ vidPresent = FALSE
    /\ status = 0
    /\ outside = FALSE

(***************************************************************************)
(* create_process once its checks have passed, with the counter at p.      *)
(* pcb->pid is written before get_pcb_ptr()->pid is read, which matters    *)
(* for the first shell, whose own slot that is.  get_ret_addr runs after   *)
(* pid++ and so leaves the return address in the PCB of slot p+1.          *)
(***************************************************************************)
NewPcb(p, args) ==
    [pcb[p] EXCEPT !.pid = p,
                   !.parentPid = IF CurSlot = p THEN p ELSE pcb[CurSlot].pid,
                   !.args = args,
                   !.fds = StdStreams(@),
                   !.parentEsp = HandlerEsp]

\* Variant: get_ret_addr runs before pid++.
CreateProcessOwnReturn(p, prog, args) ==
    /\ page' = p
    /\ image' = [image EXCEPT ![p] = prog]
    /\ pcb' = [pcb EXCEPT ![p] = [NewPcb(p, args) EXCEPT !.executeReturn = TRUE]]
    /\ esp0' = [slot |-> p, depth |-> 0]
    /\ pid' = p + 1

\* Variant: the file is read in before its frame is mapped.
CreateProcessLoadFirst(p, prog, args) ==
    /\ page' = p
    /\ image' = [image EXCEPT ![IF page = -1 THEN p ELSE page] = prog]
    /\ pcb' = [pcb EXCEPT ![p] = NewPcb(p, args), ![p + 1].executeReturn = TRUE]
    /\ esp0' = [slot |-> p, depth |-> 0]
    /\ pid' = p + 1

CreateProcess(p, prog, args) ==
    /\ page' = p
    /\ image' = [image EXCEPT ![p] = prog]
    /\ pcb' = [pcb EXCEPT ![p] = NewPcb(p, args), ![p + 1].executeReturn = TRUE]
    /\ esp0' = [slot |-> p, depth |-> 0]
    /\ pid' = p + 1

\* kernel_main starts the first shell.
Boot ==
    /\ pid = 0
    /\ \E args \in Args : CreateProcess(0, Shell, args)
    /\ UNCHANGED <<vidPresent, status, outside>>

Execute(prog, args) ==
    /\ pid \in 1 .. MaxProcess - 1
    /\ esp0.depth < MaxDepth
    /\ CreateProcess(pid, prog, args)
    /\ UNCHANGED <<vidPresent, status, outside>>

\* Every check that fails does so before anything has changed.
ExecuteFails(command) ==
    /\ pid > 0
    /\ command \in BadCommands \/ pid >= MaxProcess
    /\ status' = FFAIL
    /\ UNCHANGED <<pid, pcb, page, image, esp0, vidPresent, outside>>

(***************************************************************************)
(* end_process of the process whose stack the call runs on.  The root has  *)
(* no return address: the counter is reset and a new shell takes its slot. *)
(* Any other unmaps the video page if its PCB says so, maps its parent's   *)
(* frame, and jumps into the parent's create_process, which pops the       *)
(* status and decrements pid.  tss.esp0 becomes that frame, not the top.   *)
(* An exception in the running program ends the same way: do_exception     *)
(* prints its name and calls halt(0).                                      *)
(***************************************************************************)
HaltRoot ==
    /\ ~pcb[CurSlot].executeReturn
    /\ pcb[CurSlot].pid = 0
    /\ \E args \in Args : CreateProcess(0, Shell, args)
    /\ UNCHANGED <<vidPresent, status, outside>>

\* Variant: tss.esp0 is left at the halting process's stack.
HaltChildKeepsEsp(s) ==
    /\ pcb[CurSlot].executeReturn
    /\ vidPresent' = (vidPresent /\ ~pcb[CurSlot].vidmapped)
    /\ page' = pcb[CurSlot].parentPid
    /\ status' = SignExtend(s)
    /\ pid' = pid - 1
    /\ UNCHANGED <<pcb, image, esp0, outside>>

\* Variant: the video page is left mapped.
HaltChildKeepsVideo(s) ==
    /\ pcb[CurSlot].executeReturn
    /\ page' = pcb[CurSlot].parentPid
    /\ esp0' = pcb[CurSlot].parentEsp
    /\ status' = SignExtend(s)
    /\ pid' = pid - 1
    /\ UNCHANGED <<pcb, image, vidPresent, outside>>

HaltChild(s) ==
    /\ pcb[CurSlot].executeReturn
    /\ vidPresent' = (vidPresent /\ ~pcb[CurSlot].vidmapped)
    /\ page' = pcb[CurSlot].parentPid
    /\ esp0' = pcb[CurSlot].parentEsp
    /\ status' = SignExtend(s)
    /\ pid' = pid - 1
    /\ UNCHANGED <<pcb, image, outside>>

Halt(s) == pid > 0 /\ (HaltRoot \/ HaltChild(s))

-----------------------------------------------------------------------------
(* Descriptors.                                                            *)

Free(fds) == {fd \in Fds : ~fds[fd].used}

\* The fd the search loop of the open functions stops at.
FirstFree(fds) == {fd \in Free(fds) : \A other \in Free(fds) : fd <= other}

Install(fd, ops) ==
    pcb' = [pcb EXCEPT ![CurSlot].fds[fd] = [used |-> TRUE, ops |-> ops]]

\* What open switches on, by the functions it calls.
FileType ==
    [name \in RtcNames \cup DirNames \cup FileNames |->
        IF name \in RtcNames THEN "rtc" ELSE IF name \in DirNames THEN "dir" ELSE "file"]

OpenFree(name) ==
    /\ \E fd \in FirstFree(pcb[CurSlot].fds) : Install(fd, FileType[name])
    /\ UNCHANGED outside

(***************************************************************************)
(* With a full table file_open and directory_open fail.  rtc_open tests a  *)
(* local it never set, which may hold any int: -1 makes it fail, a number  *)
(* of the table has it take over that descriptor, and with any other it    *)
(* writes outside the table, after which nothing is known of the machine.  *)
(***************************************************************************)
RtcOpenFull(name) ==
    /\ FileType[name] = "rtc"
    /\ Free(pcb[CurSlot].fds) = {}
    /\ \/ \E fd \in UninitFd \cap Fds : Install(fd, "rtc") /\ UNCHANGED outside
       \/ UNCHANGED <<pcb, outside>>
       \/ UninitFd \ Fds # {} /\ outside' = TRUE /\ UNCHANGED pcb

Open(name) ==
    /\ pid > 0
    /\ OpenFree(name) \/ RtcOpenFull(name)
    /\ UNCHANGED <<pid, page, image, esp0, vidPresent, status>>

\* terminal_close refuses; the other close functions free the descriptor.
Close(fd) ==
    /\ pid > 0
    /\ pcb[CurSlot].fds[fd].used
    /\ pcb[CurSlot].fds[fd].ops \notin {"stdin", "stdout"}
    /\ pcb' = [pcb EXCEPT ![CurSlot].fds[fd].used = FALSE]
    /\ UNCHANGED <<pid, page, image, esp0, vidPresent, status, outside>>

Vidmap ==
    /\ pid > 0
    /\ pcb' = [pcb EXCEPT ![CurSlot].vidmapped = TRUE]
    /\ vidPresent' = TRUE
    /\ UNCHANGED <<pid, page, image, esp0, status, outside>>

\* Variant: read does not refuse STDOUT.
ReadCallsAny(fd) == pcb[CurSlot].fds[fd].used

\* read and write check the number and the flag, then call through file_ops.
ReadCalls(fd) == fd # STDOUT /\ pcb[CurSlot].fds[fd].used
WriteCalls(fd) == fd # STDIN /\ pcb[CurSlot].fds[fd].used

\* The entries of stdin_ops, stdout_ops, rtc_ops, dir_ops and file_ops
\* that are not NULL.
Readable == {"stdin", "rtc", "dir", "file"}
Writable == {"stdout", "rtc", "dir", "file"}

-----------------------------------------------------------------------------
\* Nothing more is said of a machine on which rtc_open wrote outside a table.
Unknown == outside /\ UNCHANGED vars

Next ==
    \/ /\ ~outside
       /\ \/ Boot
          \/ \E prog \in Programs, args \in Args : Execute(prog, args)
          \/ \E command \in BadCommands \cup Programs : ExecuteFails(command)
          \/ \E s \in Statuses : Halt(s)
          \/ \E name \in DOMAIN FileType : Open(name)
          \/ \E fd \in Fds : Close(fd)
          \/ Vidmap
    \/ Unknown

Spec == Init /\ [][Next]_vars

-----------------------------------------------------------------------------
(***************************************************************************)
(* Properties.                                                             *)
(***************************************************************************)

Live == 0 .. pid - 1

(***************************************************************************)
(* While a program runs, the three things that say which one it is agree:  *)
(* the counter, the PCB its kernel stack masks to (get_pcb_ptr) and the    *)
(* frame mapped at PROGRAM_SEGMENT.                                        *)
(***************************************************************************)
RunningContext ==
    pid > 0 =>
        /\ CurSlot = pid - 1
        /\ pcb[CurSlot].pid = pid - 1
        /\ page = pid - 1

(***************************************************************************)
(* Every live process but the root can return: its PCB has the return      *)
(* address that get_ret_addr left in the slot above its own, and names the *)
(* process below it, whose stack it goes back to.  The root's has none:    *)
(* that is what end_process recognises the root by.                        *)
(***************************************************************************)
ReturnPath ==
    \A p \in Live :
        /\ pcb[p].executeReturn <=> p # 0
        /\ p > 0 => /\ pcb[p].parentPid = p - 1
                    /\ pcb[p].parentEsp.slot = p - 1

(***************************************************************************)
(* read and write never call through a NULL entry of file_ops: a           *)
(* descriptor in use that passes their checks has the function, whatever   *)
(* sequence of opens and closes filled the table, as long as rtc_open has  *)
(* not written outside one.                                                *)
(***************************************************************************)
DispatchDefined ==
    pid > 0 =>
        \A fd \in Fds :
            /\ ReadCalls(fd) => pcb[CurSlot].fds[fd].ops \in Readable
            /\ WriteCalls(fd) => pcb[CurSlot].fds[fd].ops \in Writable

(***************************************************************************)
(* Video memory is in user space only while the slot of some live process  *)
(* is flagged for it, so that there is a process whose end takes the page  *)
(* away again.  The flag is the slot's and not the program's: the root's   *)
(* stays, with the page, when its shell halts and another takes its place. *)
(***************************************************************************)
VidPageOwned == vidPresent => \E p \in Live : pcb[p].vidmapped

(***************************************************************************)
(* A suspended process stays as it was: no step of the program that runs   *)
(* above it changes its PCB or its image, the step that starts that        *)
(* program included.                                                       *)
(***************************************************************************)
Suspended == 0 .. (IF pid' > pid THEN pid ELSE pid - 1) - 1

SuspendedFrozen ==
    [][\A p \in Suspended : pcb'[p] = pcb[p] /\ image'[p] = image[p]]_vars

(***************************************************************************)
(* The process layer implements the stack of programs: slot i-1 holds the  *)
(* i-th program, and what the machine runs, seen through the mapped page   *)
(* and the masked stack pointer, is the one on top.                        *)
(***************************************************************************)
Table(fds) == [fd \in Fds |-> IF fds[fd].used THEN fds[fd].ops ELSE "free"]

FreshTable ==
    [fd \in Fds |-> CASE fd = STDIN  -> "stdin"
                      [] fd = STDOUT -> "stdout"
                      [] OTHER       -> "free"]

Idle == [prog |-> NoProgram, args |-> NoArgs, fds |-> FreshTable]

ProgramOf(frame, slot) ==
    [prog |-> image[frame], args |-> pcb[slot].args, fds |-> Table(pcb[slot].fds)]

Started == [i \in 1 .. pid |-> ProgramOf(i - 1, i - 1)]

OnTop == IF pid = 0 THEN Idle ELSE ProgramOf(page, CurSlot)

Stack == INSTANCE ProcessStack WITH
    Ops <- Ops \cup {"free"}, stack <- Started, running <- OnTop

ImplementsStack == Stack!Spec

(* Types, and that no call goes through a descriptor whose operation is    *)
(* not there (syscalls.c:60-88), until rtc_open writes outside a table.    *)
WellFormed == TypeOK /\ DispatchDefined

(***************************************************************************)
(* Claims of the sources that the code does not keep.                      *)
(***************************************************************************)

\* vidmap's comment: "map text-mode video memory into user space".  A
\* process that has it still has it after a program it executed returns.
VidmapSurvives ==
    [][\A p \in 0 .. pid - 2 : pcb[p].vidmapped /\ vidPresent => vidPresent']_vars

\* get_pcb_ptr's comment: "get PCB pointer from stack".  It is the running
\* process's, however many programs that process has executed.
PcbFromStack == pid > 0 => CurSlot = pid - 1

\* rtc_open's comment: "try to update fd, fail otherwise".  With a full table
\* it changes neither a descriptor nor anything else.
OpenFailsFull ==
    [][\A name \in DOMAIN FileType : pid > 0 /\ Free(pcb[CurSlot].fds) = {} /\ Open(name)
        => pcb' = pcb /\ ~outside']_vars

-----------------------------------------------------------------------------
(***************************************************************************)
(* Proofs.                                                                 *)
(*                                                                         *)
(* Proofs about module Process, for every number of processes, programs    *)
(* and descriptors.  The invariants hold while a process executes fewer    *)
(* programs than its kernel stack has room for frames: end_process leaves  *)
(* one frame behind each time, and without that bound get_pcb_ptr masks    *)
(* its stack pointer to the PCB of another slot.                           *)
(***************************************************************************)

StackFits == MaxDepth + 1 < StackFrames

\* What the stack pointers say: the running process is in its own stack,
\* and every suspended one left its own.
Stacks ==
    /\ esp0.slot = IF pid = 0 THEN 0 ELSE pid - 1
    /\ esp0.depth <= MaxDepth
    /\ \A p \in Live : p > 0 =>
           /\ pcb[p].parentEsp.slot = p - 1
           /\ pcb[p].parentEsp.depth <= MaxDepth

\* What create_process wrote: each live PCB's own number and its parent's,
\* and return addresses in all slots up to the next one to be used.
Written ==
    /\ ~pcb[0].executeReturn
    /\ \A p \in 1 .. pid : pcb[p].executeReturn
    /\ \A p \in Live : pcb[p].pid = p
    /\ \A p \in Live : p > 0 => pcb[p].parentPid = p - 1
    /\ pid > 0 => page = pid - 1

\* The inductive invariant.
IInv == TypeOK /\ Stacks /\ Written

-----------------------------------------------------------------------------
\* Inside a system call the stack pointer still masks to the PCB of the
\* stack it started in.
LEMMA CurSlotIsStack ==
    ASSUME StackFits, IInv
    PROVE  /\ CurSlot = esp0.slot
           /\ HandlerEsp \in StackPointer
           /\ HandlerEsp.slot = esp0.slot
           /\ HandlerEsp.depth = esp0.depth + 1
BY ProcessAssumption DEF StackFits, IInv, TypeOK, Stacks, CurSlot, HandlerEsp, StackPointer, Slots

\* Opening the standard streams leaves descriptors.
LEMMA StdStreamsType ==
    ASSUME NEW fds \in [Fds -> Fd]
    PROVE  StdStreams(fds) \in [Fds -> Fd]
<1> SUFFICES ASSUME NEW fd \in Fds
             PROVE  (CASE fd = STDIN  -> [used |-> TRUE, ops |-> "stdin"]
                       [] fd = STDOUT -> [used |-> TRUE, ops |-> "stdout"]
                       [] OTHER       -> [fds[fd] EXCEPT !.used = FALSE]) \in Fd
    BY DEF StdStreams
<1>1. fds[fd] \in Fd
    OBVIOUS
<1>2. [fds[fd] EXCEPT !.used = FALSE] \in Fd
    BY <1>1 DEF Fd
<1> QED
    BY <1>2 DEF Fd, Ops

\* No process runs, and every PCB is zero.
THEOREM InitInv == Init => IInv
<1> SUFFICES ASSUME Init PROVE IInv
    OBVIOUS
<1>1. ZeroPcb \in Pcb
    BY ProcessAssumption DEF ZeroPcb, Pcb, Fd, Ops, StackPointer, Slots
<1>2. TypeOK
    <2>1. pcb \in [Slots -> Pcb]
        BY <1>1 DEF Init
    <2>2. image \in [Slots -> Programs \cup {NoProgram}]
        BY DEF Init
    <2>3. esp0 \in StackPointer
        BY ProcessAssumption DEF Init, StackPointer, Slots
    <2>4. pid \in 0 .. MaxProcess /\ page \in -1 .. MaxProcess
        BY ProcessAssumption DEF Init
    <2>5. vidPresent \in BOOLEAN
        BY DEF Init
    <2>6. status \in -128 .. 127
        BY DEF Init
    <2>7. outside \in BOOLEAN
        BY DEF Init
    <2> QED
        BY <2>1, <2>2, <2>3, <2>4, <2>5, <2>6, <2>7 DEF TypeOK
<1>3. Stacks
    BY ProcessAssumption DEF Init, Stacks, Live
<1>4. Written
    BY ProcessAssumption DEF Init, Written, Live, ZeroPcb, Slots
<1> QED
    BY <1>2, <1>3, <1>4 DEF IInv

\* The control blocks that create_process leaves, slot by slot.
LEMMA CreatedPcbs ==
    ASSUME StackFits, IInv,
           NEW p \in 0 .. MaxProcess - 1, NEW prog \in Programs, NEW args \in Args,
           CreateProcess(p, prog, args)
    PROVE  /\ pcb' \in [Slots -> Pcb]
           /\ pcb'[p].pid = p
           /\ pcb'[p].parentPid = IF CurSlot = p THEN p ELSE pcb[CurSlot].pid
           /\ pcb'[p].parentEsp = HandlerEsp
           /\ pcb'[p].executeReturn = pcb[p].executeReturn
           /\ pcb'[p + 1].executeReturn = TRUE
           /\ pcb'[p].fds = StdStreams(pcb[p].fds)
           /\ \A q \in Slots : pcb'[q].vidmapped = pcb[q].vidmapped
           /\ \A q \in Slots : q # p => pcb'[q].pid = pcb[q].pid /\ pcb'[q].fds = pcb[q].fds
           /\ \A q \in Slots \ {p, p + 1} : pcb'[q] = pcb[q]
<1> DEFINE parent == IF CurSlot = p THEN p ELSE pcb[CurSlot].pid
           next == [pcb[p + 1] EXCEPT !.executeReturn = TRUE]
<1>1. /\ p \in Slots /\ p + 1 \in Slots /\ p # p + 1
      /\ pcb \in [Slots -> Pcb]
      /\ pcb[p] \in Pcb /\ pcb[p + 1] \in Pcb
    BY ProcessAssumption DEF IInv, TypeOK, Slots
<1>2. parent \in Slots
    <2>1. CurSlot \in Slots
        BY CurSlotIsStack DEF IInv, TypeOK, StackPointer
    <2> QED
        BY <1>1, <2>1 DEF Pcb
<1>3. StdStreams(pcb[p].fds) \in [Fds -> Fd]
    BY <1>1, StdStreamsType DEF Pcb
<1>4. HandlerEsp \in StackPointer
    BY CurSlotIsStack
<1> HIDE DEF parent
<1>5. /\ NewPcb(p, args) \in Pcb
      /\ NewPcb(p, args).pid = p
      /\ NewPcb(p, args).parentPid = parent
      /\ NewPcb(p, args).parentEsp = HandlerEsp
      /\ NewPcb(p, args).executeReturn = pcb[p].executeReturn
      /\ NewPcb(p, args).vidmapped = pcb[p].vidmapped
      /\ NewPcb(p, args).fds = StdStreams(pcb[p].fds)
    BY <1>1, <1>2, <1>3, <1>4 DEF Pcb, NewPcb, parent
<1>6. /\ next \in Pcb
      /\ next.pid = pcb[p + 1].pid
      /\ next.fds = pcb[p + 1].fds
      /\ next.vidmapped = pcb[p + 1].vidmapped
      /\ next.executeReturn = TRUE
    BY <1>1 DEF Pcb
<1>7. pcb' = [pcb EXCEPT ![p] = NewPcb(p, args), ![p + 1] = next]
    BY <1>1 DEF CreateProcess
<1> HIDE DEF next
<1> QED
    BY <1>1, <1>5, <1>6, <1>7 DEF parent

-----------------------------------------------------------------------------
\* create_process, called to start the next process or to restart the root.
LEMMA CreateInv ==
    ASSUME StackFits, IInv,
           NEW p \in 0 .. MaxProcess - 1, NEW prog \in Programs, NEW args \in Args,
           CreateProcess(p, prog, args),
           UNCHANGED <<vidPresent, status, outside>>,
           \/ p = 0 /\ pid <= 1
           \/ p = pid /\ pid > 0 /\ esp0.depth < MaxDepth
    PROVE  IInv'
<1>1. /\ pid \in 0 .. MaxProcess
      /\ p \in Nat /\ MaxDepth \in Nat
      /\ esp0.depth \in Nat
    BY ProcessAssumption DEF IInv, TypeOK, StackPointer
<1>2. pid' = p + 1 /\ page' = p /\ esp0' = [slot |-> p, depth |-> 0]
    BY DEF CreateProcess
<1>3. TypeOK'
    <2>1. pcb' \in [Slots -> Pcb]
        BY CreatedPcbs
    <2>2. image' \in [Slots -> Programs \cup {NoProgram}]
        BY DEF CreateProcess, IInv, TypeOK
    <2>3. pid' \in 0 .. MaxProcess /\ page' \in -1 .. MaxProcess /\ esp0' \in StackPointer
        BY <1>2, ProcessAssumption DEF StackPointer, Slots
    <2>4. vidPresent' \in BOOLEAN /\ status' \in -128 .. 127 /\ outside' \in BOOLEAN
        <3>1. vidPresent' \in BOOLEAN /\ outside' \in BOOLEAN
            BY DEF IInv, TypeOK
        <3>2. status' \in -128 .. 127
            BY DEF IInv, TypeOK
        <3> QED
            BY <3>1, <3>2
    <2> QED
        BY <2>1, <2>2, <2>3, <2>4 DEF TypeOK
<1>4. CurSlot = IF pid = 0 THEN 0 ELSE pid - 1
    BY CurSlotIsStack DEF IInv, Stacks
<1>5. p > 0 => pcb'[p].parentEsp.slot = p - 1 /\ pcb'[p].parentEsp.depth <= MaxDepth
    <2> SUFFICES ASSUME p > 0
                 PROVE  /\ pcb'[p].parentEsp.slot = p - 1
                        /\ pcb'[p].parentEsp.depth <= MaxDepth
        OBVIOUS
    <2>1. p = pid /\ esp0.depth < MaxDepth /\ esp0.slot = p - 1
        BY <1>1 DEF IInv, Stacks
    <2>2. HandlerEsp.slot = p - 1 /\ HandlerEsp.depth = esp0.depth + 1
        BY <2>1, CurSlotIsStack
    <2>3. pcb'[p].parentEsp = HandlerEsp
        BY CreatedPcbs
    <2> QED
        BY <1>1, <2>1, <2>2, <2>3
<1>6. p > 0 => pcb'[p].parentPid = p - 1
    <2> SUFFICES ASSUME p > 0 PROVE pcb'[p].parentPid = p - 1
        OBVIOUS
    <2>1. CurSlot = p - 1 /\ CurSlot # p
        BY <1>1, <1>4
    <2>2. pcb[p - 1].pid = p - 1
        BY <1>1 DEF IInv, Written, Live
    <2> QED
        BY <2>1, <2>2, CreatedPcbs
<1>7. \A q \in 0 .. p - 1 : q \in Live /\ q \in Slots \ {p, p + 1}
    BY <1>1, ProcessAssumption DEF Live, Slots
<1>8. \A q \in 0 .. p - 1 : pcb'[q] = pcb[q]
    BY <1>7, CreatedPcbs
<1>9. Stacks'
    BY <1>1, <1>2, <1>5, <1>7, <1>8 DEF Stacks, Live, IInv
<1>10. Written'
    <2>1. ~pcb'[0].executeReturn
        <3>1. CASE p = 0
            BY <3>1, CreatedPcbs DEF IInv, Written
        <3>2. CASE p # 0
            BY <3>2, <1>1, <1>8 DEF IInv, Written
        <3> QED
            BY <3>1, <3>2
    <2>2. \A q \in 1 .. p + 1 : pcb'[q].executeReturn
        <3> SUFFICES ASSUME NEW q \in 1 .. p + 1 PROVE pcb'[q].executeReturn
            OBVIOUS
        <3>1. CASE q = p + 1
            BY <3>1, CreatedPcbs
        <3>2. CASE q = p
            <4>1. p \in 1 .. pid
                BY <3>2, <1>1
            <4>2. pcb[p].executeReturn
                BY <4>1 DEF IInv, Written
            <4> QED
                BY <3>2, <4>2, CreatedPcbs
        <3>3. CASE q < p
            BY <3>3, <1>1, <1>8 DEF IInv, Written
        <3> QED
            BY <3>1, <3>2, <3>3, <1>1
    <2>3. \A q \in 0 .. p : pcb'[q].pid = q
        <3>1. pcb'[p].pid = p
            BY CreatedPcbs
        <3>2. \A q \in 0 .. p - 1 : pcb'[q].pid = q
            BY <1>7, <1>8 DEF IInv, Written
        <3> QED
            BY <1>1, <3>1, <3>2
    <2>4. \A q \in 0 .. p : q > 0 => pcb'[q].parentPid = q - 1
        BY <1>1, <1>6, <1>7, <1>8 DEF IInv, Written
    <2> QED
        BY <1>1, <1>2, <2>1, <2>2, <2>3, <2>4 DEF Written, Live
<1> QED
    BY <1>3, <1>9, <1>10 DEF IInv

\* The branches of end_process.
LEMMA HaltRootInv ==
    ASSUME StackFits, IInv, pid > 0, HaltRoot
    PROVE  pid = 1 /\ IInv'
<1>1. CurSlot = pid - 1 /\ pid \in 1 .. MaxProcess
    BY CurSlotIsStack DEF IInv, Stacks, TypeOK
<1>2. pid = 1
    BY <1>1 DEF HaltRoot, IInv, Written, Live
<1>3. PICK args \in Args : CreateProcess(0, Shell, args)
    BY DEF HaltRoot
<1>4. 0 \in 0 .. MaxProcess - 1 /\ Shell \in Programs
    BY ProcessAssumption
<1> QED
    BY <1>2, <1>3, <1>4, CreateInv DEF HaltRoot

\* A child that halts takes its return address and leaves its parent's whole.
LEMMA HaltChildInv ==
    ASSUME StackFits, IInv, pid > 0, NEW s \in Statuses, HaltChild(s)
    PROVE  pid > 1 /\ IInv'
<1>1. CurSlot = pid - 1 /\ pid \in 1 .. MaxProcess
    BY CurSlotIsStack DEF IInv, Stacks, TypeOK
<1>2. pid > 1
    BY <1>1 DEF HaltChild, IInv, Written
<1>3. pid - 1 \in Live /\ pid - 1 > 0 /\ pid - 1 \in Slots
    BY <1>1, <1>2, ProcessAssumption DEF Live, Slots
<1>4. page' = pid - 2 /\ esp0' = pcb[pid - 1].parentEsp /\ pid' = pid - 1
    BY <1>1, <1>3 DEF HaltChild, IInv, Written
<1>5. TypeOK'
    <2>1. esp0' \in StackPointer
        BY <1>3, <1>4 DEF IInv, TypeOK, Pcb
    <2>2. status' \in -128 .. 127
        BY ProcessAssumption DEF HaltChild, SignExtend
    <2>3. vidPresent' \in BOOLEAN /\ outside' \in BOOLEAN
        BY DEF HaltChild, IInv, TypeOK
    <2>4. pid' \in 0 .. MaxProcess /\ page' \in -1 .. MaxProcess
        BY <1>1, <1>2, <1>4, ProcessAssumption
    <2>5. pcb' \in [Slots -> Pcb] /\ image' \in [Slots -> Programs \cup {NoProgram}]
        BY DEF HaltChild, IInv, TypeOK
    <2> QED
        BY <2>1, <2>2, <2>3, <2>4, <2>5 DEF TypeOK
<1>6. Stacks'
    BY <1>1, <1>2, <1>3, <1>4 DEF HaltChild, IInv, Stacks, Live
<1>7. Written'
    BY <1>1, <1>2, <1>4 DEF HaltChild, IInv, Written, Live
<1> QED
    BY <1>2, <1>5, <1>6, <1>7 DEF IInv

-----------------------------------------------------------------------------
\* A step that only rewrites the running PCB's descriptors or its vidmap flag.
LEMMA OwnPcbInv ==
    ASSUME StackFits, IInv, pid > 0,
           NEW new \in Pcb,
           pcb' = [pcb EXCEPT ![CurSlot] = new],
           new.executeReturn = pcb[CurSlot].executeReturn,
           new.pid = pcb[CurSlot].pid,
           new.parentPid = pcb[CurSlot].parentPid,
           new.parentEsp = pcb[CurSlot].parentEsp,
           vidPresent' \in BOOLEAN, outside' \in BOOLEAN,
           UNCHANGED <<pid, page, image, esp0, status>>
    PROVE  IInv'
<1>1. CurSlot \in Slots
    BY CurSlotIsStack DEF IInv, TypeOK, StackPointer
<1>2. TypeOK'
    <2>1. pcb' \in [Slots -> Pcb]
        BY DEF IInv, TypeOK
    <2> QED
        BY <2>1 DEF IInv, TypeOK
<1>3. \A q \in Slots : /\ pcb'[q].executeReturn = pcb[q].executeReturn
                       /\ pcb'[q].pid = pcb[q].pid
                       /\ pcb'[q].parentPid = pcb[q].parentPid
                       /\ pcb'[q].parentEsp = pcb[q].parentEsp
    BY <1>1 DEF IInv, TypeOK
<1>4. 0 \in Slots /\ 1 .. pid \subseteq Slots /\ Live \subseteq Slots
    BY ProcessAssumption DEF IInv, TypeOK, Live, Slots
<1>5. Stacks'
    BY <1>3, <1>4 DEF IInv, Stacks, Live
<1>6. Written'
    BY <1>3, <1>4 DEF IInv, Written, Live
<1> QED
    BY <1>2, <1>5, <1>6 DEF IInv

\* A descriptor of the running process changes, and nothing else.
LEMMA InstallInv ==
    ASSUME StackFits, IInv, pid > 0, NEW fd \in Fds, NEW d \in Fd,
           pcb' = [pcb EXCEPT ![CurSlot].fds[fd] = d],
           UNCHANGED <<pid, page, image, esp0, vidPresent, status>>, outside' \in BOOLEAN
    PROVE  IInv'
<1> DEFINE new == [pcb[CurSlot] EXCEPT !.fds[fd] = d]
<1>1. CurSlot \in Slots /\ pcb[CurSlot] \in Pcb
    BY CurSlotIsStack DEF IInv, TypeOK, StackPointer
<1>2. /\ new \in Pcb
      /\ new.executeReturn = pcb[CurSlot].executeReturn
      /\ new.pid = pcb[CurSlot].pid
      /\ new.parentPid = pcb[CurSlot].parentPid
      /\ new.parentEsp = pcb[CurSlot].parentEsp
    BY <1>1 DEF Pcb
<1>3. pcb' = [pcb EXCEPT ![CurSlot] = new]
    BY <1>1 DEF IInv, TypeOK
<1>4. vidPresent' \in BOOLEAN
    BY DEF IInv, TypeOK
<1> QED
    BY <1>2, <1>3, <1>4, OwnPcbInv

\* close frees a descriptor.
LEMMA CloseInv ==
    ASSUME StackFits, IInv, NEW fd \in Fds, Close(fd)
    PROVE  IInv'
<1> DEFINE d == [pcb[CurSlot].fds[fd] EXCEPT !.used = FALSE]
<1>1. CurSlot \in Slots /\ pcb[CurSlot] \in Pcb
    BY CurSlotIsStack DEF IInv, TypeOK, StackPointer
<1>2. d \in Fd
    BY <1>1 DEF Pcb, Fd
<1>3. pcb' = [pcb EXCEPT ![CurSlot].fds[fd] = d]
    BY <1>1 DEF Close, IInv, TypeOK, Pcb
<1> HIDE DEF d
<1>4. outside' \in BOOLEAN
    BY DEF Close, IInv, TypeOK
<1> QED
    BY <1>2, <1>3, <1>4, InstallInv DEF Close

\* Whatever is opened, one descriptor of the running process changes, or none.
LEMMA OpenInstalls ==
    ASSUME NEW name, name \in DOMAIN FileType, Open(name)
    PROVE  (\E fd \in Fds, ops \in {"rtc", "dir", "file"} : Install(fd, ops)) \/ UNCHANGED pcb
<1>1. CASE OpenFree(name)
    BY <1>1 DEF OpenFree, FirstFree, Free, FileType
<1>2. CASE RtcOpenFull(name)
    BY <1>2 DEF RtcOpenFull
<1> QED
    BY <1>1, <1>2 DEF Open

\* open takes a free descriptor.
LEMMA OpenInv ==
    ASSUME StackFits, IInv, NEW name \in DOMAIN FileType, Open(name)
    PROVE  IInv'
<1>1. outside' \in BOOLEAN
    BY DEF Open, OpenFree, RtcOpenFull, IInv, TypeOK
<1>2. ASSUME NEW fd \in Fds, NEW ops \in {"rtc", "dir", "file"}, Install(fd, ops)
      PROVE  IInv'
    <2>1. [used |-> TRUE, ops |-> ops] \in Fd
        BY DEF Fd, Ops
    <2> QED
        BY <1>1, <1>2, <2>1, InstallInv DEF Open, Install
<1>3. CASE UNCHANGED pcb
    BY <1>1, <1>3 DEF Open, IInv, TypeOK, Stacks, Written, Live
<1> QED
    BY <1>2, <1>3, OpenInstalls

\* vidmap changes the PCB of the running process.
LEMMA VidmapInv ==
    ASSUME StackFits, IInv, Vidmap
    PROVE  IInv'
<1> DEFINE new == [pcb[CurSlot] EXCEPT !.vidmapped = TRUE]
<1>1. CurSlot \in Slots /\ pcb[CurSlot] \in Pcb
    BY CurSlotIsStack DEF IInv, TypeOK, StackPointer
<1>2. /\ new \in Pcb
      /\ new.executeReturn = pcb[CurSlot].executeReturn
      /\ new.pid = pcb[CurSlot].pid
      /\ new.parentPid = pcb[CurSlot].parentPid
      /\ new.parentEsp = pcb[CurSlot].parentEsp
    BY <1>1 DEF Pcb
<1>3. pcb' = [pcb EXCEPT ![CurSlot] = new]
    BY <1>1 DEF Vidmap, IInv, TypeOK
<1> HIDE DEF new
<1>4. outside' \in BOOLEAN
    BY DEF Vidmap, IInv, TypeOK
<1> QED
    BY <1>2, <1>3, <1>4, OwnPcbInv DEF Vidmap

\* The invariant is inductive.
THEOREM NextInv == StackFits /\ IInv /\ [Next]_vars => IInv'
<1> SUFFICES ASSUME StackFits, IInv, [Next]_vars
             PROVE  IInv'
    OBVIOUS
<1>1. CASE Boot
    <2>1. PICK args \in Args : CreateProcess(0, Shell, args)
        BY <1>1 DEF Boot
    <2>2. 0 \in 0 .. MaxProcess - 1 /\ Shell \in Programs /\ pid <= 1
        BY <1>1, ProcessAssumption DEF Boot
    <2> QED
        BY <1>1, <2>1, <2>2, CreateInv DEF Boot
<1>2. ASSUME NEW prog \in Programs, NEW args \in Args, Execute(prog, args)
      PROVE  IInv'
    <2>1. pid \in 0 .. MaxProcess - 1 /\ pid > 0
        BY <1>2, ProcessAssumption DEF Execute
    <2> QED
        BY <1>2, <2>1, CreateInv DEF Execute
<1>3. ASSUME NEW command \in BadCommands \cup Programs, ExecuteFails(command)
      PROVE  IInv'
    <2>1. status' \in -128 .. 127
        BY <1>3 DEF ExecuteFails, FFAIL
    <2> QED
        BY <1>3, <2>1 DEF ExecuteFails, IInv, TypeOK, Stacks, Written, Live
<1>4. ASSUME NEW s \in Statuses, Halt(s)
      PROVE  IInv'
    BY <1>4, HaltRootInv, HaltChildInv DEF Halt
<1>5. ASSUME NEW name \in DOMAIN FileType, Open(name)
      PROVE  IInv'
    BY <1>5, OpenInv
<1>6. ASSUME NEW fd \in Fds, Close(fd)
      PROVE  IInv'
    BY <1>6, CloseInv
<1>7. CASE Vidmap
    BY <1>7, VidmapInv
<1>8. CASE UNCHANGED vars
    BY <1>8 DEF vars, IInv, TypeOK, Stacks, Written, Live
<1> QED
    BY <1>1, <1>2, <1>3, <1>4, <1>5, <1>6, <1>7, <1>8 DEF Next, Unknown

\* The state stays well-typed and the inductive invariant holds.
THEOREM Invariance ==
    ASSUME StackFits PROVE Spec => []IInv
BY InitInv, NextInv, PTL DEF Spec

\* The counter, the masked stack pointer and the mapped page always name
\* the same running process.
THEOREM RunningContextHolds ==
    ASSUME StackFits PROVE Spec => []RunningContext
<1>1. IInv => RunningContext
    BY CurSlotIsStack DEF IInv, TypeOK, Stacks, Written, Live, RunningContext
<1> QED
    BY <1>1, Invariance, PTL

\* Every live process but the root has its way back, and the root none.
THEOREM ReturnPathHolds ==
    ASSUME StackFits PROVE Spec => []ReturnPath
<1>1. IInv => ReturnPath
    BY DEF IInv, TypeOK, Stacks, Written, Live, ReturnPath
<1> QED
    BY <1>1, Invariance, PTL

-----------------------------------------------------------------------------
\* Where a step may write: a PCB below the running one and its image stay.
LEMMA FrozenStep ==
    ASSUME StackFits, IInv, [Next]_vars, NEW p \in Suspended
    PROVE  pcb'[p] = pcb[p] /\ image'[p] = image[p]
<1>1. /\ pid \in 0 .. MaxProcess /\ p \in 0 .. pid - 1
      /\ pid > 0 /\ CurSlot = pid - 1
      /\ p \in Slots /\ p # pid /\ p # pid + 1
      /\ pcb \in [Slots -> Pcb] /\ image \in [Slots -> Programs \cup {NoProgram}]
    <2>1. pid \in 0 .. MaxProcess /\ p \in 0 .. pid - 1
        BY DEF IInv, TypeOK, Suspended
    <2> QED
        BY <2>1, CurSlotIsStack, ProcessAssumption DEF IInv, Stacks, TypeOK, Slots
<1>2. ASSUME NEW prog \in Programs, NEW args \in Args, Execute(prog, args)
      PROVE  pcb'[p] = pcb[p] /\ image'[p] = image[p]
    <2>1. pid \in 0 .. MaxProcess - 1 /\ CreateProcess(pid, prog, args)
        BY <1>2, ProcessAssumption DEF Execute
    <2>2. pcb'[p] = pcb[p]
        <3>1. \A q \in Slots \ {pid, pid + 1} : pcb'[q] = pcb[q]
            BY <2>1, CreatedPcbs
        <3> QED
            BY <1>1, <3>1
    <2>3. image'[p] = image[p]
        BY <1>1, <2>1 DEF CreateProcess
    <2> QED
        BY <2>2, <2>3
<1>3. ASSUME NEW s \in Statuses, Halt(s)
      PROVE  pcb'[p] = pcb[p] /\ image'[p] = image[p]
    <2>1. ~HaltRoot
        <3> SUFFICES ASSUME HaltRoot PROVE FALSE
            OBVIOUS
        <3>1. pid = 1
            BY <1>1, HaltRootInv
        <3>2. pid' = 1
            BY DEF HaltRoot, CreateProcess
        <3> QED
            BY <3>1, <3>2 DEF Suspended
    <2> QED
        BY <1>3, <2>1 DEF Halt, HaltChild
<1>4. ASSUME NEW name \in DOMAIN FileType, Open(name)
      PROVE  pcb'[p] = pcb[p] /\ image'[p] = image[p]
    <2>1. p # pid - 1
        BY <1>1, <1>4 DEF Open, Suspended
    <2> QED
        BY <1>1, <1>4, <2>1, OpenInstalls DEF Open, Install
<1>5. ASSUME NEW fd \in Fds, Close(fd)
      PROVE  pcb'[p] = pcb[p] /\ image'[p] = image[p]
    <2>1. p # pid - 1
        BY <1>1, <1>5 DEF Close, Suspended
    <2> QED
        BY <1>1, <1>5, <2>1 DEF Close
<1>6. CASE Vidmap
    <2>1. p # pid - 1
        BY <1>1, <1>6 DEF Vidmap, Suspended
    <2> QED
        BY <1>1, <1>6, <2>1 DEF Vidmap
<1>7. CASE Boot
    BY <1>1, <1>7 DEF Boot
<1>8. ASSUME NEW command \in BadCommands \cup Programs, ExecuteFails(command)
      PROVE  pcb'[p] = pcb[p] /\ image'[p] = image[p]
    BY <1>8 DEF ExecuteFails
<1>9. CASE UNCHANGED vars
    BY <1>9 DEF vars
<1> QED
    BY <1>2, <1>3, <1>4, <1>5, <1>6, <1>7, <1>8, <1>9 DEF Next, Unknown

\* No step of the running program changes the PCB or the image of a
\* process suspended below it.
THEOREM SuspendedFrozenHolds ==
    ASSUME StackFits PROVE Spec => SuspendedFrozen
<1>1. IInv /\ [Next]_vars =>
        [\A p \in Suspended : pcb'[p] = pcb[p] /\ image'[p] = image[p]]_vars
    BY FrozenStep
<1> QED
    BY <1>1, Invariance, PTL DEF Spec, SuspendedFrozen

-----------------------------------------------------------------------------
\* The video page is present only on behalf of a live process that asked.
LEMMA VidPageStep == StackFits /\ IInv /\ VidPageOwned /\ [Next]_vars => VidPageOwned'
<1> SUFFICES ASSUME StackFits, IInv, VidPageOwned, [Next]_vars, vidPresent'
             PROVE  \E p \in Live' : pcb'[p].vidmapped
    BY DEF VidPageOwned
<1>1. /\ CurSlot = IF pid = 0 THEN 0 ELSE pid - 1
      /\ pid \in 0 .. MaxProcess /\ CurSlot \in Slots
      /\ pcb \in [Slots -> Pcb] /\ Live \subseteq Slots
    BY CurSlotIsStack, ProcessAssumption DEF IInv, Stacks, TypeOK, Slots, Live
<1>2. ASSUME vidPresent, Live \subseteq Live',
             \A q \in Live : pcb[q].vidmapped => pcb'[q].vidmapped
      PROVE  \E p \in Live' : pcb'[p].vidmapped
    BY <1>2 DEF VidPageOwned
<1>3. ASSUME NEW p \in 0 .. MaxProcess - 1, NEW prog \in Programs, NEW args \in Args,
             CreateProcess(p, prog, args), UNCHANGED <<vidPresent, status>>,
             (p = 0 /\ pid <= 1) \/ p = pid
      PROVE  \E q \in Live' : pcb'[q].vidmapped
    <2>1. Live \subseteq Live'
        BY <1>1, <1>3 DEF CreateProcess, Live
    <2>2. \A q \in Live : pcb'[q].vidmapped = pcb[q].vidmapped
        BY <1>1, <1>3, CreatedPcbs
    <2> QED
        BY <1>2, <1>3, <2>1, <2>2
<1>4. CASE Boot
    <2>1. 0 \in 0 .. MaxProcess - 1 /\ Shell \in Programs /\ pid = 0
        BY <1>4, ProcessAssumption DEF Boot
    <2> QED
        BY <1>3, <1>4, <2>1 DEF Boot
<1>5. ASSUME NEW prog \in Programs, NEW args \in Args, Execute(prog, args)
      PROVE  \E p \in Live' : pcb'[p].vidmapped
    <2>1. pid \in 0 .. MaxProcess - 1
        BY <1>5, ProcessAssumption DEF Execute
    <2> QED
        BY <1>3, <1>5, <2>1 DEF Execute
<1>6. ASSUME NEW s \in Statuses, Halt(s)
      PROVE  \E p \in Live' : pcb'[p].vidmapped
    <2>1. CASE HaltRoot
        <3>1. pid <= 1 /\ 0 \in 0 .. MaxProcess - 1 /\ Shell \in Programs
            <4>1. pid = 1
                BY <1>6, <2>1, HaltRootInv DEF Halt
            <4> QED
                BY <4>1, ProcessAssumption
        <3>2. PICK args \in Args : CreateProcess(0, Shell, args)
            BY <2>1 DEF HaltRoot
        <3>3. UNCHANGED <<vidPresent, status>>
            BY <2>1 DEF HaltRoot
        <3> QED
            BY <1>3, <3>1, <3>2, <3>3
    <2>2. CASE HaltChild(s)
        <3>1. vidPresent /\ ~pcb[pid - 1].vidmapped /\ pid > 0
            <4>1. pid > 0 /\ CurSlot = pid - 1
                BY <1>1, <1>6 DEF Halt
            <4>2. vidPresent /\ ~pcb[CurSlot].vidmapped
                BY <2>2, Zenon DEF HaltChild
            <4> QED
                BY <4>1, <4>2
        <3>2. PICK q \in Live : pcb[q].vidmapped
            BY <3>1 DEF VidPageOwned
        <3>3. q \in Live'
            BY <1>1, <3>1, <3>2, <2>2 DEF HaltChild, Live
        <3> QED
            BY <2>2, <3>2, <3>3 DEF HaltChild
    <2> QED
        BY <1>6, <2>1, <2>2 DEF Halt
<1>7. ASSUME NEW name \in DOMAIN FileType, Open(name)
      PROVE  \E p \in Live' : pcb'[p].vidmapped
    <2>1. \A q \in Live : pcb'[q].vidmapped = pcb[q].vidmapped
        <3>1. CASE \E fd \in Fds, ops \in {"rtc", "dir", "file"} : Install(fd, ops)
            <4>1. PICK fd \in Fds, ops \in {"rtc", "dir", "file"} : Install(fd, ops)
                BY <3>1
            <4> QED
                BY <1>1, <4>1 DEF Install, Pcb
        <3>2. CASE UNCHANGED pcb
            BY <3>2
        <3> QED
            BY <1>7, <3>1, <3>2, OpenInstalls
    <2> QED
        BY <1>2, <1>7, <2>1 DEF Open, Live
<1>8. ASSUME NEW fd \in Fds, Close(fd)
      PROVE  \E p \in Live' : pcb'[p].vidmapped
    <2>1. \A q \in Live : pcb'[q].vidmapped = pcb[q].vidmapped
        BY <1>1, <1>8 DEF Close, Pcb
    <2> QED
        BY <1>2, <1>8, <2>1 DEF Close, Live
<1>9. CASE Vidmap
    <2>1. CurSlot \in Live /\ pcb'[CurSlot].vidmapped
        BY <1>1, <1>9 DEF Vidmap, Live, Pcb
    <2> QED
        BY <1>9, <2>1 DEF Vidmap, Live
<1>10. ASSUME NEW command \in BadCommands \cup Programs, ExecuteFails(command)
       PROVE  \E p \in Live' : pcb'[p].vidmapped
    BY <1>2, <1>10 DEF ExecuteFails, Live
<1>11. CASE UNCHANGED vars
    BY <1>2, <1>11 DEF vars, Live
<1> QED
    BY <1>4, <1>5, <1>6, <1>7, <1>8, <1>9, <1>10, <1>11 DEF Next, Unknown

\* The video page is present only while a process that asked for it is on
\* the stack, however often programs are started, fail and halt
\* (process.c:217, syscalls.c).
THEOREM VidPageOwnedHolds ==
    ASSUME StackFits PROVE Spec => []VidPageOwned
<1>1. Init => VidPageOwned
    BY DEF Init, VidPageOwned
<1> QED
    BY <1>1, VidPageStep, Invariance, PTL DEF Spec

-----------------------------------------------------------------------------
\* Where each operation may stand: STDOUT has none that reads only, STDIN
\* none that writes only, in the table of every live process.
Tables ==
    \A p \in Live : \A fd \in Fds :
        pcb[p].fds[fd].used =>
            /\ fd # STDOUT => pcb[p].fds[fd].ops \in Readable
            /\ fd # STDIN => pcb[p].fds[fd].ops \in Writable

\* A step that starts a process leaves good tables ...
LEMMA CreateTables ==
    ASSUME StackFits, IInv, Tables,
           NEW p \in 0 .. MaxProcess - 1, NEW prog \in Programs, NEW args \in Args,
           CreateProcess(p, prog, args), p \in 0 .. pid
    PROVE  Tables'
<1>1. pid' = p + 1 /\ pid \in 0 .. MaxProcess
    BY DEF CreateProcess, IInv, TypeOK
<1>2. ASSUME NEW r \in Slots, r # p PROVE pcb'[r].fds = pcb[r].fds
    BY <1>2, ProcessAssumption DEF CreateProcess, IInv, TypeOK, Pcb, Slots
<1>3. ASSUME NEW q \in 0 .. p, NEW fd \in Fds, pcb'[q].fds[fd].used
      PROVE  /\ fd # STDOUT => pcb'[q].fds[fd].ops \in Readable
             /\ fd # STDIN => pcb'[q].fds[fd].ops \in Writable
    <2>1. CASE q = p
        <3>1. pcb'[q].fds = StdStreams(pcb[p].fds)
            BY <2>1, CreatedPcbs
        <3>2. fd = STDIN \/ fd = STDOUT
            <4> SUFFICES ASSUME fd # STDIN, fd # STDOUT PROVE FALSE
                OBVIOUS
            <4>1. pcb'[q].fds[fd] = [pcb[p].fds[fd] EXCEPT !.used = FALSE]
                BY <3>1 DEF StdStreams, STDIN, STDOUT
            <4>2. pcb[p].fds[fd] \in Fd
                BY ProcessAssumption DEF IInv, TypeOK, Pcb, Slots
            <4>3. pcb'[q].fds[fd].used = FALSE
                BY <4>1, <4>2 DEF Fd
            <4> QED
                BY <1>3, <4>3
        <3> QED
            BY <3>1, <3>2 DEF StdStreams, STDIN, STDOUT, Readable, Writable
    <2>2. CASE q # p
        <3>1. q \in Slots /\ q \in Live
            BY <1>1, <2>2, ProcessAssumption DEF Slots, Live
        <3>2. pcb'[q].fds = pcb[q].fds
            BY <1>2, <2>2, <3>1
        <3> QED
            BY <1>3, <3>1, <3>2 DEF Tables
    <2> QED
        BY <2>1, <2>2
<1> QED
    BY <1>1, <1>3 DEF Tables, Live

\* ... and so does one that fills or frees one descriptor of the running one.
LEMMA DescriptorTables ==
    ASSUME StackFits, IInv, Tables, pid > 0, NEW fd \in Fds, NEW d \in Fd,
           pcb' = [pcb EXCEPT ![CurSlot].fds[fd] = d], pid' = pid,
           d.used => d.ops \in Readable \cap Writable \/ d = pcb[CurSlot].fds[fd]
    PROVE  Tables'
<1>1. CurSlot \in Live /\ Live \subseteq Slots /\ pcb \in [Slots -> Pcb]
    BY CurSlotIsStack, ProcessAssumption DEF IInv, TypeOK, Stacks, Live, Slots
<1>2. ASSUME NEW q \in Live, NEW g \in Fds, pcb'[q].fds[g].used
      PROVE  /\ g # STDOUT => pcb'[q].fds[g].ops \in Readable
             /\ g # STDIN => pcb'[q].fds[g].ops \in Writable
    <2>1. CASE q = CurSlot /\ g = fd
        <3>1. pcb'[q].fds[g] = d
            BY <1>1, <2>1 DEF Pcb
        <3> QED
            BY <1>1, <1>2, <2>1, <3>1 DEF Tables
    <2>2. CASE ~(q = CurSlot /\ g = fd)
        <3>1. pcb'[q].fds[g] = pcb[q].fds[g]
            BY <1>1, <2>2 DEF Pcb
        <3> QED
            BY <1>2, <3>1 DEF Tables
    <2> QED
        BY <2>1, <2>2
<1> QED
    BY <1>2 DEF Tables, Live

\* Each step leaves every used descriptor a table whose entries can be called.
LEMMA TablesInv == StackFits /\ IInv /\ Tables /\ [Next]_vars => Tables'
<1> SUFFICES ASSUME StackFits, IInv, Tables, [Next]_vars
             PROVE  Tables'
    OBVIOUS
<1>1. pid \in 0 .. MaxProcess /\ 0 \in 0 .. MaxProcess - 1 /\ Shell \in Programs
    BY ProcessAssumption DEF IInv, TypeOK
<1>2. pid > 0 => CurSlot \in Slots /\ pcb[CurSlot] \in Pcb
    BY CurSlotIsStack DEF IInv, TypeOK, StackPointer
<1>3. CASE Boot
    BY <1>1, <1>3, CreateTables DEF Boot
<1>4. ASSUME NEW prog \in Programs, NEW args \in Args, Execute(prog, args)
      PROVE  Tables'
    <2>1. pid \in 0 .. MaxProcess - 1 /\ pid \in 0 .. pid
        BY <1>1, <1>4, ProcessAssumption DEF Execute
    <2> QED
        BY <1>4, <2>1, CreateTables DEF Execute
<1>5. ASSUME NEW s \in Statuses, Halt(s)
      PROVE  Tables'
    <2>1. CASE HaltRoot
        BY <1>1, <2>1, CreateTables DEF HaltRoot
    <2>2. CASE HaltChild(s)
        BY <1>1, <2>2 DEF HaltChild, Tables, Live
    <2> QED
        BY <1>5, <2>1, <2>2 DEF Halt
<1>6. ASSUME NEW name \in DOMAIN FileType, Open(name)
      PROVE  Tables'
    <2>1. ASSUME NEW fd \in Fds, NEW ops \in {"rtc", "dir", "file"}, Install(fd, ops)
          PROVE  Tables'
        <3>1. /\ [used |-> TRUE, ops |-> ops] \in Fd
              /\ ops \in Readable \cap Writable
            BY DEF Fd, Ops, Readable, Writable
        <3> QED
            BY <1>6, <2>1, <3>1, DescriptorTables DEF Open, Install
    <2>2. CASE UNCHANGED pcb
        BY <1>6, <2>2 DEF Open, Tables, Live
    <2> QED
        BY <1>6, <2>1, <2>2, OpenInstalls
<1>7. ASSUME NEW fd \in Fds, Close(fd)
      PROVE  Tables'
    <2> DEFINE d == [pcb[CurSlot].fds[fd] EXCEPT !.used = FALSE]
    <2>1. d \in Fd /\ ~d.used
        BY <1>2, <1>7 DEF Close, Pcb, Fd
    <2>2. pcb' = [pcb EXCEPT ![CurSlot].fds[fd] = d]
        BY <1>2, <1>7 DEF Close, IInv, TypeOK, Pcb
    <2> HIDE DEF d
    <2> QED
        BY <1>7, <2>1, <2>2, DescriptorTables DEF Close
<1>8. CASE Vidmap
    <2>1. \A q \in Live : pcb'[q].fds = pcb[q].fds
        BY <1>1, <1>2, <1>8, ProcessAssumption DEF Vidmap, Pcb, IInv, TypeOK, Live, Slots
    <2> QED
        BY <1>8, <2>1 DEF Vidmap, Tables, Live
<1>9. ASSUME NEW command \in BadCommands \cup Programs, ExecuteFails(command)
      PROVE  Tables'
    BY <1>9 DEF ExecuteFails, Tables, Live
<1>10. CASE UNCHANGED vars
    BY <1>10 DEF vars, Tables, Live
<1> QED
    BY <1>3, <1>4, <1>5, <1>6, <1>7, <1>8, <1>9, <1>10 DEF Next, Unknown

\* The state is well-typed, and no sequence of opens and closes leads a read or
\* a write to a NULL entry, a full table that rtc_open finds included, unless
\* its write goes outside the table.
THEOREM WellFormedHolds ==
    ASSUME StackFits PROVE Spec => []WellFormed
<1>1. Init => Tables
    BY DEF Init, Tables, Live
<1>2. IInv /\ Tables => WellFormed
    <2> SUFFICES ASSUME IInv, Tables, pid > 0, NEW fd \in Fds, pcb[CurSlot].fds[fd].used
                 PROVE  /\ fd # STDOUT => pcb[CurSlot].fds[fd].ops \in Readable
                        /\ fd # STDIN => pcb[CurSlot].fds[fd].ops \in Writable
        BY DEF WellFormed, DispatchDefined, ReadCalls, WriteCalls, IInv
    <2>1. CurSlot \in Live
        BY CurSlotIsStack DEF IInv, TypeOK, Stacks, Live
    <2> QED
        BY <2>1 DEF Tables
<1> QED
    BY <1>1, <1>2, TablesInv, Invariance, PTL DEF Spec

-----------------------------------------------------------------------------
(* The refinement.                                                         *)

\* Programs as they stand on the stack.
Entry == [prog : Programs \cup {NoProgram}, args : Args, fds : [Fds -> Ops \cup {"free"}]]

\* The stack has an entry for each process.
LEMMA StartedType ==
    ASSUME IInv
    PROVE  /\ pid \in 0 .. MaxProcess
           /\ \A p \in Slots : ProgramOf(p, p) \in Entry
           /\ Started \in Seq(Entry)
           /\ Len(Started) = pid
<1>1. pid \in 0 .. MaxProcess
    BY DEF IInv, TypeOK
<1>2. ASSUME NEW p \in Slots PROVE ProgramOf(p, p) \in Entry
    <2>1. pcb[p] \in Pcb /\ image[p] \in Programs \cup {NoProgram}
        BY DEF IInv, TypeOK
    <2>2. Table(pcb[p].fds) \in [Fds -> Ops \cup {"free"}]
        BY <2>1 DEF Pcb, Fd, Table
    <2> QED
        BY <2>1, <2>2 DEF ProgramOf, Entry, Pcb
<1>3. \A i \in 1 .. pid : i - 1 \in Slots
    BY <1>1, ProcessAssumption DEF Slots
<1>4. \A i \in 1 .. pid : ProgramOf(i - 1, i - 1) \in Entry
    BY <1>2, <1>3
<1> HIDE DEF ProgramOf
<1>5. Started \in [1 .. pid -> Entry]
    BY <1>4 DEF Started
<1> QED
    BY <1>1, <1>2, <1>5

\* What the machine runs is the program on top.
LEMMA RunsTop == StackFits /\ IInv => OnTop = Stack!Top(Started)
<1> SUFFICES ASSUME StackFits, IInv PROVE OnTop = Stack!Top(Started)
    OBVIOUS
<1>1. pid \in Nat /\ Len(Started) = pid /\ Started \in Seq(Entry)
    BY StartedType, ProcessAssumption
<1>2. CASE pid = 0
    BY <1>1, <1>2 DEF OnTop, Stack!Top
<1>3. CASE pid > 0
    <2>1. page = pid - 1 /\ CurSlot = pid - 1
        BY <1>1, <1>3, CurSlotIsStack DEF IInv, Stacks, Written
    <2>2. Started[pid] = ProgramOf(pid - 1, pid - 1)
        BY <1>1, <1>3 DEF Started
    <2>3. Started # << >>
        BY <1>1, <1>3
    <2> QED
        BY <1>1, <1>3, <2>1, <2>2, <2>3 DEF OnTop, Stack!Top
<1> QED
    BY <1>1, <1>2, <1>3

\* A program that was just started has the fresh table.
LEMMA FreshEntry ==
    ASSUME StackFits, IInv,
           NEW p \in 0 .. MaxProcess - 1, NEW prog \in Programs, NEW args \in Args,
           CreateProcess(p, prog, args)
    PROVE  ProgramOf(p, p)' = Stack!Fresh(prog, args)
<1>1. p \in Slots /\ pcb[p] \in Pcb
    BY ProcessAssumption DEF IInv, TypeOK, Slots
<1>2. image'[p] = prog
    BY <1>1 DEF CreateProcess, IInv, TypeOK
<1>3. pcb'[p].args = args
    BY <1>1 DEF CreateProcess, NewPcb, IInv, TypeOK, Slots, Pcb
<1>4. pcb'[p].fds = StdStreams(pcb[p].fds)
    BY CreatedPcbs
<1>5. Table(StdStreams(pcb[p].fds)) = FreshTable
    <2> SUFFICES ASSUME NEW fd \in Fds
                 PROVE  Table(StdStreams(pcb[p].fds))[fd] = FreshTable[fd]
        BY DEF Table, FreshTable
    <2>1. pcb[p].fds[fd] \in Fd
        BY <1>1 DEF Pcb
    <2> QED
        BY <2>1 DEF Table, FreshTable, StdStreams, Fd
<1> QED
    BY <1>2, <1>3, <1>4, <1>5 DEF ProgramOf, Stack!Fresh

\* A longer, a shorter and a changed stack, place by place.
LEMMA AppendedPlaces ==
    ASSUME NEW S, NEW s \in Seq(S), NEW e \in S,
           NEW t, t = [i \in 1 .. Len(s) + 1 |-> IF i = Len(s) + 1 THEN e ELSE s[i]]
    PROVE  t = Append(s, e)
<1>1. Len(s) \in Nat /\ \A i \in 1 .. Len(s) : s[i] \in S
    OBVIOUS
<1>2. t \in Seq(S) /\ Len(t) = Len(s) + 1
    BY <1>1
<1>3. Append(s, e) \in Seq(S) /\ Len(Append(s, e)) = Len(s) + 1
    OBVIOUS
<1>4. \A i \in 1 .. Len(t) : t[i] = Append(s, e)[i]
    BY <1>1, <1>2
<1> QED
    BY <1>2, <1>3, <1>4, SeqEqual

\* All of a sequence but its last element.
LEMMA ShortenedPlaces ==
    ASSUME NEW S, NEW s \in Seq(S), Len(s) > 1,
           NEW t, t = [i \in 1 .. Len(s) - 1 |-> s[i]]
    PROVE  t = SubSeq(s, 1, Len(s) - 1)
OBVIOUS

\* create_process puts its program on top, or in the root's place.
LEMMA CreatePushes ==
    ASSUME StackFits, IInv,
           NEW p \in 0 .. MaxProcess - 1, NEW prog \in Programs, NEW args \in Args,
           CreateProcess(p, prog, args), p = pid
    PROVE  Stack!Push(prog, args)
<1> DEFINE e == Stack!Fresh(prog, args)
<1>1. pid \in Nat /\ pid' = pid + 1 /\ Len(Started) = pid /\ Started \in Seq(Entry)
    BY StartedType, ProcessAssumption DEF CreateProcess
<1>2. e \in Entry
    <2>1. FreshTable \in [Fds -> Ops \cup {"free"}]
        BY DEF FreshTable, Ops
    <2> QED
        BY <2>1 DEF Stack!Fresh, Entry
<1>3. ProgramOf(p, p)' = e
    BY FreshEntry
<1>4. \A q \in 0 .. p - 1 : ProgramOf(q, q)' = ProgramOf(q, q)
    <2>1. \A q \in 0 .. p - 1 : q \in Slots \ {p, p + 1} /\ q # p
        BY <1>1, ProcessAssumption DEF Slots
    <2>2. \A q \in Slots \ {p, p + 1} : pcb'[q] = pcb[q]
        BY CreatedPcbs
    <2>3. \A q \in 0 .. p - 1 : image'[q] = image[q]
        BY <2>1 DEF CreateProcess, IInv, TypeOK
    <2> QED
        BY <2>1, <2>2, <2>3 DEF ProgramOf
<1> HIDE DEF e, ProgramOf
<1>5. Started' = [i \in 1 .. pid + 1 |-> IF i = pid + 1 THEN e ELSE Started[i]]
    BY <1>1, <1>3, <1>4 DEF Started
<1>6. Started' = Append(Started, e)
    BY <1>1, <1>2, <1>5, AppendedPlaces
<1> QED
    BY <1>1, <1>6, ProcessAssumption DEF Stack!Push, e

\* The root that halted is started again.
LEMMA CreateRestarts ==
    ASSUME StackFits, IInv, NEW args \in Args, CreateProcess(0, Shell, args), pid = 1
    PROVE  Stack!Restart(args)
<1>1. 0 \in 0 .. MaxProcess - 1 /\ Shell \in Programs /\ pid' = 1 /\ Len(Started) = 1
    BY StartedType, ProcessAssumption DEF CreateProcess
<1>2. ProgramOf(0, 0)' = Stack!Fresh(Shell, args)
    BY <1>1, FreshEntry
<1> HIDE DEF ProgramOf
<1>3. Started' = <<Stack!Fresh(Shell, args)>>
    BY <1>1, <1>2 DEF Started
<1> QED
    BY <1>1, <1>3 DEF Stack!Restart

\* end_process takes the top off and leaves the rest.
LEMMA HaltPops ==
    ASSUME StackFits, IInv, pid > 0, NEW s \in Statuses, HaltChild(s)
    PROVE  Stack!Pop
<1>1. pid \in Nat /\ pid > 1 /\ pid' = pid - 1 /\ Len(Started) = pid /\ Started \in Seq(Entry)
    BY StartedType, HaltChildInv, ProcessAssumption DEF HaltChild
<1>2. \A q : ProgramOf(q, q)' = ProgramOf(q, q)
    BY DEF HaltChild, ProgramOf
<1> HIDE DEF ProgramOf
<1>3. Started' = [i \in 1 .. pid - 1 |-> Started[i]]
    BY <1>1, <1>2 DEF Started
<1>4. Started' = SubSeq(Started, 1, pid - 1)
    BY <1>1, <1>3, ShortenedPlaces
<1> QED
    BY <1>1, <1>4 DEF Stack!Pop

\* open and close change one descriptor of the top.
LEMMA DescriptorRedescribes ==
    ASSUME StackFits, IInv, pid > 0, NEW fd \in Fds, NEW d \in Fd,
           pcb' = [pcb EXCEPT ![CurSlot].fds[fd] = d], UNCHANGED <<pid, image>>
    PROVE  \E ops \in Ops \cup {"free"} : Stack!Redescribe(fd, ops)
<1> DEFINE ops == IF d.used THEN d.ops ELSE "free"
<1>1. pid \in 1 .. MaxProcess /\ Len(Started) = pid /\ Started \in Seq(Entry) /\ CurSlot = pid - 1
    BY StartedType, CurSlotIsStack, ProcessAssumption DEF IInv, Stacks
<1>2. /\ pid - 1 \in Slots /\ pcb \in [Slots -> Pcb] /\ \A i \in 1 .. pid : i - 1 \in Slots
      /\ pcb[pid - 1] \in Pcb
    BY <1>1, ProcessAssumption DEF IInv, TypeOK, Slots
<1>3. ops \in Ops \cup {"free"}
    BY DEF Fd
<1>4. \A i \in 1 .. pid - 1 : ProgramOf(i - 1, i - 1)' = ProgramOf(i - 1, i - 1)
    BY <1>1, <1>2 DEF ProgramOf
<1>5. ProgramOf(pid - 1, pid - 1)' = [ProgramOf(pid - 1, pid - 1) EXCEPT !.fds[fd] = ops]
    <2>1. pcb'[pid - 1].fds = [pcb[pid - 1].fds EXCEPT ![fd] = d] /\ pcb'[pid - 1].args = pcb[pid - 1].args
        BY <1>1, <1>2 DEF Pcb
    <2>2. Table(pcb'[pid - 1].fds) = [Table(pcb[pid - 1].fds) EXCEPT ![fd] = ops]
        BY <1>2, <2>1 DEF Table, Pcb
    <2> QED
        BY <2>1, <2>2 DEF ProgramOf
<1> HIDE DEF ops, ProgramOf
<1>6. Started' = [Started EXCEPT ![pid].fds[fd] = ops]
    <2>1. Started[pid] = ProgramOf(pid - 1, pid - 1)
        BY <1>1 DEF Started
    <2> DEFINE changed == [Started[pid] EXCEPT !.fds[fd] = ops]
    <2>2. ProgramOf(pid - 1, pid - 1)' = changed
        BY <1>5, <2>1
    <2> HIDE DEF changed
    <2>3. Started' = [i \in 1 .. pid |-> IF i = pid THEN changed ELSE Started[i]]
        BY <1>1, <1>4, <2>2 DEF Started
    <2>4. Started' = [Started EXCEPT ![pid] = changed]
        BY <1>1, <2>3 DEF Started
    <2> QED
        BY <1>1, <2>4 DEF changed
<1>7. Started # << >>
    BY <1>1
<1> QED
    BY <1>1, <1>3, <1>6, <1>7 DEF Stack!Redescribe

\* Each step of the processes is one of the stack, or none.
LEMMA StepImplements ==
    ASSUME StackFits, IInv, [Next]_vars
    PROVE  Stack!Step \/ UNCHANGED Started
<1> USE DEF Stack!Step
<1>1. pid \in 0 .. MaxProcess /\ 0 \in 0 .. MaxProcess - 1 /\ Shell \in Programs
    BY ProcessAssumption DEF IInv, TypeOK
<1>2. pid > 0 => CurSlot \in Slots /\ pcb[CurSlot] \in Pcb /\ pcb \in [Slots -> Pcb]
    BY CurSlotIsStack DEF IInv, TypeOK, StackPointer
<1>3. CASE Boot
    BY <1>1, <1>3, CreatePushes DEF Boot
<1>4. ASSUME NEW prog \in Programs, NEW args \in Args, Execute(prog, args)
      PROVE  Stack!Step
    BY <1>1, <1>4, ProcessAssumption, CreatePushes DEF Execute
<1>5. ASSUME NEW s \in Statuses, Halt(s)
      PROVE  Stack!Step
    <2>1. CASE HaltRoot
        BY <1>5, <2>1, HaltRootInv, CreateRestarts DEF Halt, HaltRoot
    <2>2. CASE HaltChild(s)
        BY <1>5, <2>2, HaltPops DEF Halt
    <2> QED
        BY <1>5, <2>1, <2>2 DEF Halt
<1>6. ASSUME NEW name \in DOMAIN FileType, Open(name)
      PROVE  Stack!Step \/ UNCHANGED Started
    <2>1. ASSUME NEW fd \in Fds, NEW ops \in {"rtc", "dir", "file"}, Install(fd, ops)
          PROVE  Stack!Step
        <3>1. [used |-> TRUE, ops |-> ops] \in Fd
            BY DEF Fd, Ops
        <3> QED
            BY <1>6, <2>1, <3>1, DescriptorRedescribes DEF Open, Install
    <2>2. CASE UNCHANGED pcb
        BY <1>6, <2>2 DEF Open, Started, ProgramOf
    <2> QED
        BY <1>6, <2>1, <2>2, OpenInstalls
<1>7. ASSUME NEW fd \in Fds, Close(fd)
      PROVE  Stack!Step
    <2> DEFINE d == [pcb[CurSlot].fds[fd] EXCEPT !.used = FALSE]
    <2>1. d \in Fd
        BY <1>2, <1>7 DEF Close, Pcb, Fd
    <2>2. pcb' = [pcb EXCEPT ![CurSlot].fds[fd] = d]
        BY <1>2, <1>7 DEF Close, Pcb
    <2> HIDE DEF d
    <2> QED
        BY <1>7, <2>1, <2>2, DescriptorRedescribes DEF Close
<1>8. CASE Vidmap
    <2>1. \A q \in Slots : pcb'[q].fds = pcb[q].fds /\ pcb'[q].args = pcb[q].args
        BY <1>2, <1>8 DEF Vidmap, Pcb
    <2>2. \A i \in 1 .. pid : i - 1 \in Slots
        BY <1>1, ProcessAssumption DEF Slots
    <2> QED
        BY <1>8, <2>1, <2>2 DEF Vidmap, Started, ProgramOf
<1>9. ASSUME NEW command \in BadCommands \cup Programs, ExecuteFails(command)
      PROVE  UNCHANGED Started
    BY <1>9 DEF ExecuteFails, Started, ProgramOf
<1>10. CASE UNCHANGED vars
    BY <1>10 DEF vars, Started, ProgramOf
<1> HIDE DEF Stack!Step
<1> QED
    BY <1>3, <1>4, <1>5, <1>6, <1>7, <1>8, <1>9, <1>10 DEF Next, Unknown

\* The kernel's processes are a stack of programs, the machine running the
\* one on top, at every step.
THEOREM ImplementsStackHolds ==
    ASSUME StackFits PROVE Spec => ImplementsStack
<1>1. Init => Stack!Init
    BY DEF Init, Stack!Init, Started, OnTop
<1>2. StackFits /\ IInv /\ IInv' /\ [Next]_vars /\ OnTop = Stack!Top(Started) /\ (OnTop = Stack!Top(Started))'
        => [Stack!Next]_Stack!vars
    BY StepImplements DEF Stack!Next, Stack!vars, Stack!Top
<1> QED
    BY <1>1, <1>2, RunsTop, Invariance, PTL DEF Spec, ImplementsStack, Stack!Spec

=============================================================================
