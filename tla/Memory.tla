------------------------------- MODULE Memory -------------------------------
(***************************************************************************)
(* What an address means: boot.S and entry (kernel.c) up to the first      *)
(* shell, the tables of x86_desc.S, and paging.c, with the translations    *)
(* that the processor keeps.  It may fetch one from the tables at any time *)
(* and uses what it has until cr3 is loaded again; CR4.PGE is never set,   *)
(* so that the global bit of the kernel's page has no effect.              *)
(*                                                                         *)
(* A virtual page is <<directory index, table index>>, where a 4 MB page   *)
(* has one index for all.  A physical one is <<size in KB, number>>.       *)
(***************************************************************************)
EXTENDS Integers, Sequences, TLAPS

CONSTANTS
    MaxProcess,     \* MAX_PROCESS
    Tss, Ldt        \* where x86_desc.S has them

VGA_PD == 0
KERNAL_PD_ENTRY == 1
PROGRAM_PD == 32
USR_VGA_PD == 33
VGA_PT_IDX == 184
TEST_PT_IDX == 128      \* of the address 0x80000

KernelPage == <<KERNAL_PD_ENTRY, 0>>
ProgramPage == <<PROGRAM_PD, 0>>
UserVideo == <<USR_VGA_PD, 0>>
VideoPage == <<VGA_PD, VGA_PT_IDX>>
Pages == {KernelPage, ProgramPage, UserVideo, VideoPage, <<VGA_PD, 0>>, <<VGA_PD, TEST_PT_IDX>>}

VGA == <<4, 184>>
Frame(p) == <<4096, 2 + p>>
Kernel == <<4096, 1>>
NoPage == <<0, 0>>

SYSCALL_VEC == 128
Devices == {33, 40}

VARIABLES
    step,               \* of entry, or what the processor does after it
    gdt,                \* descriptors, from the first on
    idt,                \* privilege of the gates that are present
    idtr, tr,           \* the tables the processor was told of
    interrupts,         \* the flag
    fs,                 \* FS_START: where the file system was found
    paging,             \* CR0.PG, CR4.PSE and CR3
    page_directory, page_table, user_vid_table,
    tlb,                \* translations that the processor has
    pid, vidmapped,     \* of the processes' slots
    image               \* who wrote last to each frame

tables == <<page_directory, page_table, user_vid_table>>
entries == <<gdt, idt, idtr, tr, interrupts, fs>>
processes == <<pid, vidmapped>>
vars == <<step, entries, paging, tables, tlb, processes, image>>

Entry == [present |-> FALSE, us |-> FALSE, ps |-> FALSE, addr |-> NoPage]
Table == [present |-> FALSE, us |-> FALSE, addr |-> NoPage]

\* A descriptor holds its base in three parts.
Descriptor(kind, dpl, base, limit) ==
    [kind |-> kind, dpl |-> dpl, base_15_00 |-> base % 2^16, base_23_16 |-> (base \div 2^16) % 2^8,
     base_31_24 |-> base \div 2^24, limit |-> limit]

Null == Descriptor("null", 0, 0, 0)

\* Two that cannot be used, code and data of the kernel and of the user, and
\* room for the TSS and the LDT.
Flat ==
    <<Null, Null, Descriptor("code", 0, 0, 2^20 - 1), Descriptor("data", 0, 0, 2^20 - 1),
      Descriptor("code", 3, 0, 2^20 - 1), Descriptor("data", 3, 0, 2^20 - 1), Null, Null>>

KERNEL_CS == 16
KERNEL_DS == 24
USER_CS == 35
USER_DS == 43
KERNEL_TSS == 48
KERNEL_LDT == 56
TSS_SIZE == 104
LDT_SIZE == 32

Init ==
    /\ step = "start"
    /\ gdt = Flat
    /\ idt = << >> /\ idtr = FALSE /\ tr = 0
    /\ interrupts = FALSE
    /\ fs = NoPage
    /\ paging = FALSE
    /\ page_directory = [d \in {p[1] : p \in Pages} |-> Entry]
    /\ page_table = [t \in {0, TEST_PT_IDX, VGA_PT_IDX} |-> Table]
    /\ user_vid_table = [t \in {0} |-> Table]
    /\ tlb = << >>
    /\ pid = 0 /\ vidmapped = [p \in 0 .. MaxProcess - 1 |-> FALSE]
    /\ image = [p \in 0 .. MaxProcess - 1 |-> -1]

-----------------------------------------------------------------------------
(* The processor.                                                          *)

\* An address of the directory that is not a 4 MB frame is one of a table.
TableAt(d) == IF d = VGA_PD THEN page_table ELSE user_vid_table

Walk(page) ==
    LET dir == page_directory[page[1]]
        entry == TableAt(page[1])[page[2]]
    IN  IF ~dir.present THEN [to |-> NoPage, us |-> FALSE]
        ELSE IF dir.ps THEN [to |-> dir.addr, us |-> dir.us]
        ELSE IF ~entry.present THEN [to |-> NoPage, us |-> FALSE]
        ELSE [to |-> entry.addr, us |-> dir.us /\ entry.us]

\* What the processor may take an address for.
Seen(page) == {Walk(page)} \cup (IF page \in DOMAIN tlb THEN {tlb[page]} ELSE {})
UserSees(page) == {t.to : t \in {u \in Seen(page) : u.us}} \ {NoPage}
KernelSees(page) == {t.to : t \in Seen(page)}

Fetch(page) ==
    /\ paging
    /\ Walk(page).to # NoPage
    /\ page \notin DOMAIN tlb
    /\ tlb' = [p \in DOMAIN tlb \cup {page} |-> IF p = page THEN Walk(p) ELSE tlb[p]]
    /\ UNCHANGED <<step, entries, paging, tables, processes, image>>

\* Loading cr3 drops everything.
FLUSH_TLB == tlb' = << >>

-----------------------------------------------------------------------------
(* boot.S and entry.                                                       *)

add_exception == [n \in 0 .. 19 |-> 0]
add_interrupt == [n \in Devices |-> 0]
add_sys_call == [n \in {SYSCALL_VEC} |-> 3]

With(old, new) == [n \in DOMAIN old \cup DOMAIN new |-> IF n \in DOMAIN new THEN new[n] ELSE old[n]]

\* Not a multiboot loader, or both symbol tables: back to boot.S, which halts
\* with interrupts off.
Refused ==
    /\ step = "start"
    /\ step' = "hlt"
    /\ UNCHANGED <<entries, paging, tables, tlb, processes, image>>

\* The modules are gone through and the last one stays; there may be none.
Modules ==
    /\ step = "start"
    /\ \E found \in {NoPage, Kernel} : fs' = found
    /\ step' = "descriptors"
    /\ UNCHANGED <<gdt, idt, idtr, tr, interrupts, paging, tables, tlb, processes, image>>

\* Variant: the base lacks its middle part.
TssDescriptorShort == [Descriptor("tss", 0, Tss, TSS_SIZE - 1) EXCEPT !.base_23_16 = 0]

TssDescriptor == Descriptor("tss", 0, Tss, TSS_SIZE - 1)

LdtDescriptor == Descriptor("ldt", 0, Ldt, LDT_SIZE - 1)

\* lldt and ltr come after the descriptors they name.
Descriptors ==
    /\ step = "descriptors"
    /\ gdt' = [gdt EXCEPT ![KERNEL_LDT \div 8 + 1] = LdtDescriptor, ![KERNEL_TSS \div 8 + 1] = TssDescriptor]
    /\ tr' = KERNEL_TSS
    /\ step' = "exceptions"
    /\ UNCHANGED <<idt, idtr, interrupts, fs, paging, tables, tlb, processes, image>>

init_idt_exception ==
    /\ step = "exceptions"
    /\ idt' = With(idt, add_exception) /\ idtr' = TRUE
    /\ step' = "interrupts"
    /\ UNCHANGED <<gdt, tr, interrupts, fs, paging, tables, tlb, processes, image>>

init_idt_interrupts ==
    /\ step = "interrupts"
    /\ idt' = With(With(idt, add_interrupt), add_sys_call)
    /\ step' = "paging"
    /\ UNCHANGED <<gdt, idtr, tr, interrupts, fs, paging, tables, tlb, processes, image>>

\* Variant: the kernel's page is left out.
InitialDirectoryNoKernel ==
    [page_directory EXCEPT
        ![VGA_PD] = [present |-> TRUE, us |-> FALSE, ps |-> FALSE, addr |-> NoPage],
        ![USR_VGA_PD] = [present |-> TRUE, us |-> TRUE, ps |-> FALSE, addr |-> NoPage]]

InitialDirectory ==
    [page_directory EXCEPT
        ![VGA_PD] = [present |-> TRUE, us |-> FALSE, ps |-> FALSE, addr |-> NoPage],
        ![USR_VGA_PD] = [present |-> TRUE, us |-> TRUE, ps |-> FALSE, addr |-> NoPage],
        ![KERNAL_PD_ENTRY] = [present |-> TRUE, us |-> FALSE, ps |-> TRUE, addr |-> Kernel]]

init_paging ==
    /\ step = "paging"
    /\ page_directory' = InitialDirectory
    /\ page_table' = [page_table EXCEPT ![VGA_PT_IDX] = [present |-> TRUE, us |-> FALSE, addr |-> VGA]]
    /\ user_vid_table' = [t \in {0} |-> Table]
    /\ paging' = TRUE
    /\ step' = "pic"
    /\ UNCHANGED <<entries, tlb, processes, image>>

\* The first of i8259_init, init_keyboard and init_rtc to set the flag.
i8259_init ==
    /\ step = "pic"
    /\ interrupts' = TRUE
    /\ step' = "shell"
    /\ UNCHANGED <<gdt, idt, idtr, tr, fs, paging, tables, tlb, processes, image>>

-----------------------------------------------------------------------------
(* paging.c.  Between its writes to a table and the load of cr3 the        *)
(* processor may fetch.                                                    *)

\* Variant: the page is left to the kernel.
LargeSupervisor(p_addr) == [present |-> TRUE, us |-> FALSE, ps |-> TRUE, addr |-> p_addr]

Large(p_addr) == [present |-> TRUE, us |-> TRUE, ps |-> TRUE, addr |-> p_addr]

map_large(dir_index, p_addr, then) ==
    /\ page_directory' = [page_directory EXCEPT ![dir_index] = Large(p_addr)]
    /\ step' = then
    /\ UNCHANGED <<page_table, user_vid_table>>

map_vmem(then) ==
    /\ user_vid_table' = [user_vid_table EXCEPT ![0] = [present |-> TRUE, us |-> TRUE, addr |-> VGA]]
    /\ step' = then
    /\ UNCHANGED <<page_directory, page_table>>

unmap_small(then) ==
    /\ user_vid_table' = [user_vid_table EXCEPT ![0].present = FALSE]
    /\ step' = then
    /\ UNCHANGED <<page_directory, page_table>>

\* Variant: only the first mapping is followed by a load of cr3.
FlushedNewOnly(now, then) ==
    /\ step = now /\ step' = then
    /\ IF pid = 0 THEN FLUSH_TLB ELSE UNCHANGED tlb
    /\ UNCHANGED <<entries, paging, tables, processes, image>>

Flushed(now, then) ==
    /\ step = now /\ step' = then
    /\ FLUSH_TLB
    /\ UNCHANGED <<entries, paging, tables, processes, image>>

-----------------------------------------------------------------------------
(* create_process, end_process and vidmap.                                 *)

\* The name is looked up in the file system before anything changes: where
\* there is none, at address 0, whose fault ends in another create_process.
Shell ==
    /\ step = "shell"
    /\ IF fs = NoPage
       THEN step' = "fault" /\ UNCHANGED tables
       ELSE map_large(PROGRAM_PD, Frame(pid), "mapped")
    /\ UNCHANGED <<entries, paging, tlb, processes, image>>

Execute ==
    /\ step = "user" /\ pid < MaxProcess
    /\ map_large(PROGRAM_PD, Frame(pid), "mapped")
    /\ UNCHANGED <<entries, paging, tlb, processes, image>>

\* read_data copies the program to wherever its address leads.
Load ==
    /\ step = "load"
    /\ \E to \in KernelSees(ProgramPage) :
        image' = [p \in DOMAIN image |-> IF Frame(p) = to THEN pid ELSE image[p]]
    /\ pid' = pid + 1
    /\ step' = "user"
    /\ UNCHANGED <<entries, paging, tables, tlb, vidmapped>>

\* The first shell is started again in its own slot.
HaltRoot ==
    /\ step = "user" /\ pid = 1
    /\ pid' = 0
    /\ map_large(PROGRAM_PD, Frame(0), "mapped")
    /\ UNCHANGED <<entries, paging, tlb, vidmapped, image>>

Halt ==
    /\ step = "user" /\ pid > 1
    /\ IF vidmapped[pid - 1] THEN unmap_small("unmapped") ELSE UNCHANGED tables /\ step' = "parent"
    /\ UNCHANGED <<entries, paging, tlb, processes, image>>

Parent ==
    /\ step = "parent"
    /\ map_large(PROGRAM_PD, Frame(pid - 2), "returning")
    /\ UNCHANGED <<entries, paging, tlb, processes, image>>

Back ==
    /\ step = "back"
    /\ pid' = pid - 1
    /\ step' = "user"
    /\ UNCHANGED <<entries, paging, tables, tlb, vidmapped, image>>

vidmap ==
    /\ step = "user"
    /\ vidmapped' = [vidmapped EXCEPT ![pid - 1] = TRUE]
    /\ map_vmem("video")
    /\ UNCHANGED <<entries, paging, tlb, pid, image>>

\* A program writes where it can; where it cannot it ends as by halt.
Store(page) ==
    /\ step = "user"
    /\ \E to \in UserSees(page) :
        image' = [p \in DOMAIN image |-> IF Frame(p) = to THEN pid - 1 ELSE image[p]]
    /\ UNCHANGED <<step, entries, paging, tables, tlb, processes>>

Flushes ==
    \/ Flushed("mapped", "load") \/ Flushed("unmapped", "parent")
    \/ Flushed("returning", "back") \/ Flushed("video", "user")

BootSteps ==
    \/ Refused \/ Modules \/ Descriptors \/ init_idt_exception \/ init_idt_interrupts
    \/ init_paging \/ i8259_init \/ Shell

Next ==
    \/ BootSteps \/ Flushes
    \/ Execute \/ Load \/ HaltRoot \/ Halt \/ Parent \/ Back \/ vidmap
    \/ \E page \in Pages : Fetch(page) \/ Store(page)

Spec == Init /\ [][Next]_vars

-----------------------------------------------------------------------------
(***************************************************************************)
(* Properties.                                                             *)
(***************************************************************************)

(***************************************************************************)
(* From the moment paging is on, the kernel's code, stacks and tables and  *)
(* the screen are where they were, through every translation that the      *)
(* processor may have; the addresses that paging_inalid_1 and _2 of        *)
(* tests.c try are nowhere, also with programs mapped.                     *)
(***************************************************************************)
KernelMapped ==
    paging =>
        /\ KernelSees(KernelPage) = {Kernel}
        /\ KernelSees(VideoPage) = {VGA}
        /\ KernelSees(<<VGA_PD, 0>>) = {NoPage}
        /\ KernelSees(<<VGA_PD, TEST_PT_IDX>>) = {NoPage}

(***************************************************************************)
(* A program sees its own frame, and besides it at most the screen, which  *)
(* it does only while the slot of a live process is flagged for vidmap.    *)
(* This holds whatever was mapped for the programs before it and whatever  *)
(* of that the processor still had.  The root's slot keeps its flag and    *)
(* the page when its shell halts, and the next shell has both.             *)
(***************************************************************************)
OwnMemory ==
    step = "user" =>
        /\ UserSees(ProgramPage) = {Frame(pid - 1)}
        /\ \A page \in Pages \ {ProgramPage} :
            UserSees(page) \subseteq {to \in {VGA} : page = UserVideo /\ \E p \in 0 .. pid - 1 : vidmapped[p]}

\* The program in a live process's frame is its own and as it left it.
ImagesKept == \A p \in 0 .. pid - 1 : image[p] = p

(***************************************************************************)
(* When interrupts are on there is a gate for each device, and when a      *)
(* program runs whatever it does finds one: it can enter by SYSCALL_VEC    *)
(* only, and goes to a stack that the processor finds through the task     *)
(* register.  All selectors name what they are used for.                   *)
(***************************************************************************)
Named(selector) == gdt[selector \div 8 + 1]
Base(d) == d.base_31_24 * 2^24 + d.base_23_16 * 2^16 + d.base_15_00
Usable(selector, kind, dpl) == Named(selector).kind = kind /\ Named(selector).dpl = dpl /\ selector % 4 = dpl

EntryReady ==
    /\ interrupts => idtr /\ Devices \subseteq DOMAIN idt /\ Usable(KERNEL_CS, "code", 0)
    /\ step = "user" =>
        /\ 0 .. 19 \subseteq DOMAIN idt
        /\ {n \in DOMAIN idt : idt[n] = 3} = {SYSCALL_VEC}
        /\ Usable(USER_CS, "code", 3) /\ Usable(USER_DS, "data", 3) /\ Usable(KERNEL_DS, "data", 0)
        /\ Usable(tr, "tss", 0) /\ Base(Named(tr)) = Tss /\ Named(tr).limit + 1 = TSS_SIZE
        /\ Base(Named(KERNEL_LDT)) = Ldt

(* Who sees what memory, and that every way into the kernel is there       *)
(* before it can be taken (kernel.c:32-174, paging.c:17-156).              *)
MemorySafety == KernelMapped /\ OwnMemory /\ ImagesKept /\ EntryReady

-----------------------------------------------------------------------------
(***************************************************************************)
(* Proofs, for any number of processes and wherever the linker puts the    *)
(* TSS and the LDT.                                                        *)
(***************************************************************************)

Placed == MaxProcess \in Nat \ {0} /\ Tss \in Nat /\ Ldt \in Nat

\* Before paging is on, and before there is a program.
Unpaged == {"start", "hlt", "descriptors", "exceptions", "interrupts", "paging"}
NoProgram == Unpaged \cup {"pic", "shell", "fault"}

\* Where create_process and end_process are.
Starting == {"mapped", "load"}
Ending == {"unmapped", "parent", "returning", "back"}

Steps == NoProgram \cup Starting \cup Ending \cup {"user", "video"}

\* The entry of user_vid_table, mapped or unmapped again.
Screened(present) == [present |-> present, us |-> TRUE, addr |-> VGA]

\* The tables the kernel made, and the entries that change.
TablesInv ==
    /\ DOMAIN page_directory = {VGA_PD, KERNAL_PD_ENTRY, PROGRAM_PD, USR_VGA_PD}
    /\ DOMAIN page_table = {0, TEST_PT_IDX, VGA_PT_IDX}
    /\ DOMAIN user_vid_table = {0}
    /\ page_table[0] = Table /\ page_table[TEST_PT_IDX] = Table
    /\ user_vid_table[0] \in {Table, Screened(TRUE), Screened(FALSE)}
    /\ paging \in BOOLEAN /\ (paging <=> step \notin Unpaged)
    /\ paging =>
        /\ page_directory[VGA_PD] = [present |-> TRUE, us |-> FALSE, ps |-> FALSE, addr |-> NoPage]
        /\ page_directory[USR_VGA_PD] = [present |-> TRUE, us |-> TRUE, ps |-> FALSE, addr |-> NoPage]
        /\ page_directory[KERNAL_PD_ENTRY] = [present |-> TRUE, us |-> FALSE, ps |-> TRUE, addr |-> Kernel]
        /\ page_table[VGA_PT_IDX] = [present |-> TRUE, us |-> FALSE, addr |-> VGA]

\* Whose frame is mapped, from one step of a system call to the next.
Mapped(p) == page_directory[PROGRAM_PD] = Large(Frame(p))

ProgramInv ==
    /\ step \in Steps /\ pid \in 0 .. MaxProcess
    /\ step \in NoProgram => pid = 0 /\ page_directory[PROGRAM_PD] = Entry
    /\ step \in Starting => pid < MaxProcess /\ Mapped(pid)
    /\ step \in {"user", "video", "unmapped", "parent"} => pid >= 1 /\ Mapped(pid - 1)
    /\ step \in Ending => pid >= 2
    /\ step \in {"returning", "back"} => Mapped(pid - 2)

\* The last process that may be why the screen is mapped: one being started
\* may have called vidmap in an earlier life, one that ends may not.
LastViewer == IF step \in Starting THEN pid ELSE IF step \in Ending THEN pid - 2 ELSE pid - 1

VideoInv ==
    /\ vidmapped \in [0 .. MaxProcess - 1 -> BOOLEAN]
    /\ user_vid_table[0].present => \E p \in 0 .. LastViewer : vidmapped[p]
    /\ step = "unmapped" => ~user_vid_table[0].present

\* A translation is stale only between a write to its entry and the load of
\* cr3 that follows.
Stale(page) ==
    \/ page = ProgramPage /\ step \in {"mapped", "returning"}
    \/ page = UserVideo /\ step = "unmapped"

TlbInv ==
    /\ ~paging => DOMAIN tlb = {}
    /\ \A page \in DOMAIN tlb :
        page \in Pages /\ (~Stale(page) => tlb[page] = Walk(page) /\ Walk(page).to # NoPage)

ImagesInv == DOMAIN image = 0 .. MaxProcess - 1 /\ ImagesKept

\* The descriptors and gates, as far as entry has come.
Loaded == [Flat EXCEPT ![KERNEL_LDT \div 8 + 1] = LdtDescriptor, ![KERNEL_TSS \div 8 + 1] = TssDescriptor]
Gates == With(With(With(<< >>, add_exception), add_interrupt), add_sys_call)

EntryInv ==
    /\ gdt = IF step \in {"start", "hlt", "descriptors"} THEN Flat ELSE Loaded
    /\ step \notin {"start", "hlt", "descriptors"} => tr = KERNEL_TSS
    /\ step \in {"start", "hlt", "descriptors", "exceptions"} => idt = << >>
    /\ step = "interrupts" => idt = With(<< >>, add_exception) /\ idtr
    /\ step \notin {"start", "hlt", "descriptors", "exceptions", "interrupts"} => idt = Gates /\ idtr
    /\ interrupts => step \notin Unpaged

IInv == TablesInv /\ ProgramInv /\ VideoInv /\ TlbInv /\ ImagesInv /\ EntryInv

(* The pages differ, and so do the frames.                                 *)
LEMMA PagesDiffer ==
    /\ Pages = {KernelPage, ProgramPage, UserVideo, VideoPage, <<VGA_PD, 0>>, <<VGA_PD, TEST_PT_IDX>>}
    /\ KernelPage[1] = 1 /\ ProgramPage[1] = 32 /\ UserVideo[1] = 33 /\ VideoPage[1] = 0
    /\ KernelPage[2] = 0 /\ ProgramPage[2] = 0 /\ UserVideo[2] = 0 /\ VideoPage[2] = 184
    /\ <<VGA_PD, 0>>[1] = 0 /\ <<VGA_PD, 0>>[2] = 0
    /\ <<VGA_PD, TEST_PT_IDX>>[1] = 0 /\ <<VGA_PD, TEST_PT_IDX>>[2] = 128
BY DEF Pages, KernelPage, ProgramPage, UserVideo, VideoPage, VGA_PD, KERNAL_PD_ENTRY, PROGRAM_PD,
       USR_VGA_PD, VGA_PT_IDX, TEST_PT_IDX

\* The frames of programs, the kernel, the screen and none are different ones.
LEMMA FramesDiffer ==
    /\ \A p, q \in Int : Frame(p) = Frame(q) => p = q
    /\ \A p \in Nat : Frame(p) # Kernel /\ Frame(p) # VGA /\ Frame(p) # NoPage
    /\ Kernel # NoPage /\ VGA # NoPage
BY DEF Frame, Kernel, VGA, NoPage

(* What is present of the screen's table is the screen, for the user.      *)
LEMMA ScreenedIs ==
    ASSUME NEW entry \in {Table, Screened(TRUE), Screened(FALSE)}, entry.present
    PROVE  entry.present = TRUE /\ entry.addr = VGA /\ entry.us = TRUE
<1>1. /\ Table.present = FALSE /\ Screened(FALSE).present = FALSE
      /\ Screened(TRUE).present = TRUE /\ Screened(TRUE).addr = VGA /\ Screened(TRUE).us = TRUE
  BY DEF Table, Screened
<1>2. entry = Screened(TRUE)
  BY <1>1, Zenon
<1> QED
  BY <1>1, <1>2, Zenon

(* Where each address leads once paging is on.                             *)
LEMMA WalkIs ==
    ASSUME TablesInv, paging
    PROVE  /\ Walk(KernelPage) = [to |-> Kernel, us |-> FALSE]
           /\ Walk(VideoPage) = [to |-> VGA, us |-> FALSE]
           /\ Walk(<<VGA_PD, 0>>) = [to |-> NoPage, us |-> FALSE]
           /\ Walk(<<VGA_PD, TEST_PT_IDX>>) = [to |-> NoPage, us |-> FALSE]
           /\ user_vid_table[0].present => Walk(UserVideo) = [to |-> VGA, us |-> TRUE]
           /\ ~user_vid_table[0].present => Walk(UserVideo) = [to |-> NoPage, us |-> FALSE]
           /\ \A p : Mapped(p) => Walk(ProgramPage) = [to |-> Frame(p), us |-> TRUE]
           /\ page_directory[PROGRAM_PD] = Entry => Walk(ProgramPage) = [to |-> NoPage, us |-> FALSE]
<1> USE PagesDiffer DEF TablesInv
<1>1. Walk(KernelPage) = [to |-> Kernel, us |-> FALSE]
  <2> DEFINE dir == page_directory[KernelPage[1]]
  <2>1. dir.present = TRUE /\ dir.ps = TRUE /\ dir.addr = Kernel /\ dir.us = FALSE
    BY DEF KERNAL_PD_ENTRY
  <2>2. Walk(KernelPage) = [to |-> dir.addr, us |-> dir.us]
    BY <2>1, Zenon DEF Walk
  <2> QED
    BY <2>1, <2>2, Zenon
<1>2. Walk(VideoPage) = [to |-> VGA, us |-> FALSE]
  <2> DEFINE dir == page_directory[VideoPage[1]]
             entry == page_table[VideoPage[2]]
  <2>1. /\ dir.present = TRUE /\ dir.ps = FALSE /\ dir.us = FALSE
        /\ entry.present = TRUE /\ entry.addr = VGA /\ VideoPage[1] = VGA_PD
    BY DEF VGA_PD, VGA_PT_IDX
  <2>2. Walk(VideoPage) = [to |-> entry.addr, us |-> dir.us /\ entry.us]
    BY <2>1, Zenon DEF Walk, TableAt
  <2>3. (dir.us /\ entry.us) = FALSE
    BY <2>1, Zenon
  <2> QED
    BY <2>1, <2>2, <2>3, Zenon
<1>3. Walk(<<VGA_PD, 0>>) = [to |-> NoPage, us |-> FALSE]
  BY DEF Walk, TableAt, Table, Entry, VGA_PD
<1>4. Walk(<<VGA_PD, TEST_PT_IDX>>) = [to |-> NoPage, us |-> FALSE]
  BY DEF Walk, TableAt, Table, Entry, VGA_PD, TEST_PT_IDX
<1>5. user_vid_table[0].present => Walk(UserVideo) = [to |-> VGA, us |-> TRUE]
  <2> SUFFICES ASSUME user_vid_table[0].present PROVE Walk(UserVideo) = [to |-> VGA, us |-> TRUE]
    OBVIOUS
  <2> DEFINE dir == page_directory[UserVideo[1]]
             entry == user_vid_table[UserVideo[2]]
  <2>1. /\ dir.present = TRUE /\ dir.ps = FALSE /\ dir.us = TRUE /\ UserVideo[1] # VGA_PD
        /\ UserVideo[2] = 0
    BY DEF VGA_PD, USR_VGA_PD
  <2>2. entry.present = TRUE /\ entry.addr = VGA /\ entry.us = TRUE
    <3>1. entry = user_vid_table[0]
      BY <2>1, Zenon
    <3>2. user_vid_table[0] \in {Table, Screened(TRUE), Screened(FALSE)}
      BY DEF TablesInv
    <3>3. /\ user_vid_table[0].present = TRUE /\ user_vid_table[0].addr = VGA
          /\ user_vid_table[0].us = TRUE
      BY <3>2, ScreenedIs
    <3> QED
      BY <3>1, <3>3, Zenon
  <2>3. Walk(UserVideo) = [to |-> entry.addr, us |-> dir.us /\ entry.us]
    BY <2>1, <2>2, Zenon DEF Walk, TableAt
  <2>4. (dir.us /\ entry.us) = TRUE
    BY <2>1, <2>2, Zenon
  <2> QED
    BY <2>2, <2>3, <2>4, Zenon
<1>6. ~user_vid_table[0].present => Walk(UserVideo) = [to |-> NoPage, us |-> FALSE]
  BY DEF Walk, TableAt, Table, Entry, VGA_PD, USR_VGA_PD
<1>7. \A p : Mapped(p) => Walk(ProgramPage) = [to |-> Frame(p), us |-> TRUE]
  BY DEF Walk, Mapped, Large, PROGRAM_PD
<1>8. page_directory[PROGRAM_PD] = Entry => Walk(ProgramPage) = [to |-> NoPage, us |-> FALSE]
  BY DEF Walk, Entry, PROGRAM_PD
<1> QED
  BY <1>1, <1>2, <1>3, <1>4, <1>5, <1>6, <1>7, <1>8

(* A write to one entry changes one translation.                           *)
LEMMA WalkKept ==
    UNCHANGED tables => \A page : Walk(page)' = Walk(page)
BY DEF Walk, TableAt, tables

\* Mapping a program moves no other page.
LEMMA WalkOfOthers ==
    ASSUME TablesInv, NEW then, NEW addr, map_large(PROGRAM_PD, addr, then),
           NEW page \in Pages, page # ProgramPage
    PROVE  Walk(page)' = Walk(page)
<1>1. page[1] # PROGRAM_PD /\ page[1] \in DOMAIN page_directory
  BY PagesDiffer DEF TablesInv, VGA_PD, KERNAL_PD_ENTRY, PROGRAM_PD, USR_VGA_PD
<1>2. page_directory'[page[1]] = page_directory[page[1]]
  BY <1>1 DEF map_large
<1> QED
  BY <1>2 DEF Walk, TableAt, map_large

\* What is done to the program's video page moves no other page.
LEMMA WalkBesideVideo ==
    ASSUME TablesInv, TablesInv', paging, paging', page_directory' = page_directory, page_table' = page_table,
           page_directory[PROGRAM_PD] = Entry \/ \E p : Mapped(p),
           NEW page \in Pages, page # UserVideo
    PROVE  Walk(page)' = Walk(page)
<1>1. CASE page = ProgramPage
  <2> DEFINE dir == page_directory[page[1]]
  <2>1. page_directory[page[1]] = page_directory[PROGRAM_PD]
    BY <1>1, PagesDiffer DEF PROGRAM_PD
  <2>2. dir' = dir /\ (dir.present = FALSE \/ dir.ps = TRUE)
    <3>1. Entry.present = FALSE /\ \A p : Large(p).ps = TRUE
      BY DEF Entry, Large
    <3> QED
      BY <2>1, <3>1, Zenon DEF Mapped
  <2> QED
    BY <2>2, Zenon DEF Walk
<1>2. CASE page # ProgramPage
  <2>1. page \in {KernelPage, VideoPage, <<VGA_PD, 0>>, <<VGA_PD, TEST_PT_IDX>>}
    BY <1>2, PagesDiffer
  <2> QED
    BY <2>1, PagesDiffer DEF Walk, TableAt, TablesInv, KERNAL_PD_ENTRY, VGA_PD
<1> QED
  BY <1>1, <1>2

(* What the processor has is what the tables say, before and after.        *)
LEMMA TlbKept ==
    ASSUME TlbInv, tlb' = tlb, paging' = paging,
           \A page \in DOMAIN tlb : page \in Pages /\ ~Stale(page)' => ~Stale(page) /\ Walk(page)' = Walk(page)
    PROVE  TlbInv'
BY DEF TlbInv

\* What the processor does not keep is not stale.
LEMMA TlbFlushed ==
    ASSUME tlb' = << >>
    PROVE  TlbInv'
BY DEF TlbInv

-----------------------------------------------------------------------------
(* Up to the first program.                                                *)

LEMMA InitInv ==
    ASSUME Placed, Init
    PROVE  IInv
<1>1. TablesInv
  <2>1. DOMAIN page_directory = {VGA_PD, KERNAL_PD_ENTRY, PROGRAM_PD, USR_VGA_PD}
    <3>1. {p[1] : p \in Pages} = {0, 1, 32, 33}
      <4>1. \A p \in Pages : p[1] \in {0, 1, 32, 33}
        BY PagesDiffer
      <4>2. \A d \in {0, 1, 32, 33} : \E p \in Pages : p[1] = d
        BY PagesDiffer
      <4> QED
        BY <4>1, <4>2
    <3> QED
      BY <3>1 DEF Init, VGA_PD, KERNAL_PD_ENTRY, PROGRAM_PD, USR_VGA_PD
  <2>2. /\ DOMAIN page_table = {0, TEST_PT_IDX, VGA_PT_IDX} /\ DOMAIN user_vid_table = {0}
        /\ page_table[0] = Table /\ page_table[TEST_PT_IDX] = Table /\ user_vid_table[0] = Table
    BY DEF Init
  <2>3. paging = FALSE /\ step \in Unpaged
    BY DEF Init, Unpaged
  <2> QED
    BY <2>1, <2>2, <2>3 DEF TablesInv
<1>2. ProgramInv
  <2>1. PROGRAM_PD \in {p[1] : p \in Pages}
    BY DEF Pages, ProgramPage
  <2>2. page_directory[PROGRAM_PD] = Entry
    BY <2>1 DEF Init
  <2> QED
    BY <2>2 DEF Init, ProgramInv, Steps, NoProgram, Unpaged, Starting, Ending, Placed
<1>3. VideoInv
  BY DEF Init, VideoInv, Table
<1>4. TlbInv
  BY DEF Init, TlbInv
<1>5. ImagesInv
  BY DEF Init, ImagesInv, ImagesKept
<1>6. EntryInv
  BY DEF Init, EntryInv, Unpaged
<1> QED
  BY <1>1, <1>2, <1>3, <1>4, <1>5, <1>6 DEF IInv

(* The steps of entry that leave the tables alone.                         *)
LEMMA EarlyInv ==
    ASSUME IInv, Refused \/ Modules \/ Descriptors \/ init_idt_exception \/ init_idt_interrupts
    PROVE  IInv'
<1>1. UNCHANGED <<paging, tables, tlb, processes, image>>
  BY DEF Refused, Modules, Descriptors, init_idt_exception, init_idt_interrupts
<1>2. step \in Unpaged /\ step' \in Unpaged
  BY DEF Refused, Modules, Descriptors, init_idt_exception, init_idt_interrupts, Unpaged
<1>3. TablesInv'
  BY <1>1, <1>2 DEF IInv, TablesInv, tables
<1>4. ProgramInv'
  BY <1>1, <1>2 DEF IInv, ProgramInv, tables, processes, Steps, NoProgram, Unpaged, Starting, Ending
<1>5. VideoInv'
  <2>1. LastViewer' = LastViewer /\ step' # "unmapped"
    BY <1>1, <1>2 DEF LastViewer, Starting, Ending, Unpaged, processes
  <2> QED
    BY <1>1, <2>1 DEF IInv, VideoInv, tables, processes
<1>6. TlbInv'
  <2>1. ~paging
    BY <1>2 DEF IInv, TablesInv
  <2> QED
    BY <1>1, <2>1 DEF IInv, TlbInv
<1>7. ImagesInv'
  BY <1>1 DEF IInv, ImagesInv, ImagesKept, processes
<1>8. EntryInv'
  <2>1. EntryInv
    BY DEF IInv
  <2>2. CASE Refused
    BY <2>1, <2>2 DEF Refused, EntryInv, Unpaged, entries
  <2>3. CASE Modules
    BY <2>1, <2>3 DEF Modules, EntryInv, Unpaged
  <2>4. CASE Descriptors
    BY <2>1, <2>4 DEF Descriptors, EntryInv, Unpaged, Loaded
  <2>5. CASE init_idt_exception
    BY <2>1, <2>5 DEF init_idt_exception, EntryInv, Unpaged
  <2>6. CASE init_idt_interrupts
    BY <2>1, <2>6 DEF init_idt_interrupts, EntryInv, Unpaged, Gates
  <2> QED
    BY <2>2, <2>3, <2>4, <2>5, <2>6
<1> QED
  BY <1>3, <1>4, <1>5, <1>6, <1>7, <1>8 DEF IInv

\* init_paging fills the tables and turns paging on.
LEMMA PagingInv ==
    ASSUME IInv, init_paging
    PROVE  IInv'
<1>1. /\ step = "paging" /\ step' = "pic" /\ paging' = TRUE
      /\ page_directory' = InitialDirectory
      /\ page_table' = [page_table EXCEPT ![VGA_PT_IDX] = [present |-> TRUE, us |-> FALSE, addr |-> VGA]]
      /\ user_vid_table' = [t \in {0} |-> Table]
      /\ UNCHANGED <<entries, tlb, processes, image>>
  BY DEF init_paging
<1>2. TablesInv'
  <2>1. /\ DOMAIN page_directory = {VGA_PD, KERNAL_PD_ENTRY, PROGRAM_PD, USR_VGA_PD}
        /\ DOMAIN page_table = {0, TEST_PT_IDX, VGA_PT_IDX}
        /\ page_table[0] = Table /\ page_table[TEST_PT_IDX] = Table
    BY DEF IInv, TablesInv
  <2>2. /\ DOMAIN page_directory' = {VGA_PD, KERNAL_PD_ENTRY, PROGRAM_PD, USR_VGA_PD}
        /\ page_directory'[VGA_PD] = [present |-> TRUE, us |-> FALSE, ps |-> FALSE, addr |-> NoPage]
        /\ page_directory'[USR_VGA_PD] = [present |-> TRUE, us |-> TRUE, ps |-> FALSE, addr |-> NoPage]
        /\ page_directory'[KERNAL_PD_ENTRY] = [present |-> TRUE, us |-> FALSE, ps |-> TRUE, addr |-> Kernel]
    <3> DEFINE vga == [present |-> TRUE, us |-> FALSE, ps |-> FALSE, addr |-> NoPage]
               user == [present |-> TRUE, us |-> TRUE, ps |-> FALSE, addr |-> NoPage]
               kernel == [present |-> TRUE, us |-> FALSE, ps |-> TRUE, addr |-> Kernel]
    <3>1. page_directory' = [page_directory EXCEPT ![0] = vga, ![33] = user, ![1] = kernel]
      BY <1>1 DEF InitialDirectory, VGA_PD, KERNAL_PD_ENTRY, USR_VGA_PD
    <3> HIDE DEF vga, user, kernel
    <3>2. DOMAIN page_directory = {0, 1, 32, 33}
      BY <2>1 DEF VGA_PD, KERNAL_PD_ENTRY, PROGRAM_PD, USR_VGA_PD
    <3>3. /\ DOMAIN page_directory' = {0, 1, 32, 33}
          /\ page_directory'[0] = vga /\ page_directory'[33] = user /\ page_directory'[1] = kernel
      BY <3>1, <3>2
    <3> QED
      BY <3>3 DEF VGA_PD, KERNAL_PD_ENTRY, PROGRAM_PD, USR_VGA_PD, vga, user, kernel
  <2>3. /\ DOMAIN page_table' = {0, TEST_PT_IDX, VGA_PT_IDX}
        /\ page_table'[0] = Table /\ page_table'[TEST_PT_IDX] = Table
        /\ page_table'[VGA_PT_IDX] = [present |-> TRUE, us |-> FALSE, addr |-> VGA]
    BY <1>1, <2>1 DEF TEST_PT_IDX, VGA_PT_IDX
  <2>4. DOMAIN user_vid_table' = {0} /\ user_vid_table'[0] = Table
    BY <1>1
  <2>5. paging' = TRUE /\ step' \notin Unpaged
    BY <1>1 DEF Unpaged
  <2> QED
    BY <2>2, <2>3, <2>4, <2>5 DEF TablesInv
<1>3. ProgramInv'
  <2>1. page_directory[PROGRAM_PD] = Entry /\ pid = 0 /\ pid \in 0 .. MaxProcess
    BY <1>1 DEF IInv, ProgramInv, NoProgram, Unpaged
  <2>2. page_directory'[PROGRAM_PD] = Entry
    BY <1>1, <2>1 DEF IInv, TablesInv, InitialDirectory, VGA_PD, KERNAL_PD_ENTRY, PROGRAM_PD, USR_VGA_PD
  <2> QED
    BY <1>1, <2>1, <2>2 DEF ProgramInv, processes, Steps, NoProgram, Unpaged, Starting, Ending
<1>4. VideoInv'
  BY <1>1 DEF IInv, VideoInv, Table, processes
<1>5. TlbInv'
  <2>1. ~paging
    BY <1>1 DEF IInv, TablesInv, Unpaged
  <2> QED
    BY <1>1, <2>1 DEF IInv, TlbInv
<1>6. ImagesInv'
  BY <1>1 DEF IInv, ImagesInv, ImagesKept, processes
<1>7. EntryInv'
  BY <1>1 DEF IInv, EntryInv, Unpaged, entries
<1> QED
  BY <1>2, <1>3, <1>4, <1>5, <1>6, <1>7 DEF IInv

\* i8259_init changes no table.
LEMMA PicInv ==
    ASSUME IInv, i8259_init
    PROVE  IInv'
<1>1. /\ step = "pic" /\ step' = "shell"
      /\ UNCHANGED <<gdt, idt, idtr, tr, fs, paging, tables, tlb, processes, image>>
  BY DEF i8259_init
<1>2. TablesInv'
  BY <1>1 DEF IInv, TablesInv, tables, Unpaged
<1>3. ProgramInv'
  BY <1>1 DEF IInv, ProgramInv, tables, processes, Steps, NoProgram, Unpaged, Starting, Ending
<1>4. VideoInv'
  BY <1>1 DEF IInv, VideoInv, tables, processes, LastViewer, Starting, Ending
<1>5. TlbInv'
  BY <1>1, WalkKept, TlbKept DEF IInv, Stale
<1>6. ImagesInv'
  BY <1>1 DEF IInv, ImagesInv, ImagesKept, processes
<1>7. EntryInv'
  BY <1>1 DEF IInv, EntryInv, Unpaged
<1> QED
  BY <1>2, <1>3, <1>4, <1>5, <1>6, <1>7 DEF IInv

-----------------------------------------------------------------------------
(* The system calls.                                                       *)

\* The gates and the descriptors stay as they are.
LEMMA EntryKept ==
    ASSUME EntryInv, UNCHANGED entries, step \notin Unpaged, step' \notin Unpaged
    PROVE  EntryInv'
BY DEF EntryInv, entries, Unpaged

(* Another frame for the program: one entry of the directory, and one      *)
(* translation that is stale.                                              *)
LEMMA MapsFrame ==
    ASSUME TablesInv, TlbInv, paging, paging' = paging, tlb' = tlb, NEW addr, NEW then,
           then \in {"mapped", "returning"}, step # "unmapped", map_large(PROGRAM_PD, addr, then)
    PROVE  /\ TablesInv' /\ TlbInv' /\ step' = then
           /\ page_directory'[PROGRAM_PD] = Large(addr) /\ user_vid_table' = user_vid_table
<1>1. /\ page_directory' = [page_directory EXCEPT ![PROGRAM_PD] = Large(addr)]
      /\ step' = then /\ UNCHANGED <<page_table, user_vid_table>>
  BY DEF map_large
<1>2. step \notin Unpaged /\ step' \notin Unpaged
  BY <1>1 DEF TablesInv, Unpaged
<1>3. DOMAIN page_directory = {VGA_PD, KERNAL_PD_ENTRY, PROGRAM_PD, USR_VGA_PD}
  BY DEF TablesInv
<1>4. /\ DOMAIN page_directory' = DOMAIN page_directory
      /\ page_directory'[PROGRAM_PD] = Large(addr)
      /\ page_directory'[VGA_PD] = page_directory[VGA_PD]
      /\ page_directory'[USR_VGA_PD] = page_directory[USR_VGA_PD]
      /\ page_directory'[KERNAL_PD_ENTRY] = page_directory[KERNAL_PD_ENTRY]
  BY <1>1, <1>3 DEF VGA_PD, KERNAL_PD_ENTRY, PROGRAM_PD, USR_VGA_PD
<1>5. TablesInv'
  BY <1>1, <1>2, <1>4 DEF TablesInv
<1>6. TlbInv'
  <2>1. \A page \in DOMAIN tlb : page \in Pages /\ ~Stale(page)' => page # ProgramPage /\ ~Stale(page)
    BY <1>1 DEF Stale
  <2>2. \A page \in Pages : page # ProgramPage => Walk(page)' = Walk(page)
    BY WalkOfOthers
  <2> QED
    BY <2>1, <2>2, TlbKept
<1> QED
  BY <1>1, <1>4, <1>5, <1>6

\* A load of cr3.
LEMMA FlushInv ==
    ASSUME IInv, Flushes
    PROVE  IInv'
<1>1. PICK now, then : /\ Flushed(now, then)
                       /\ <<now, then>> \in {<<"mapped", "load">>, <<"unmapped", "parent">>,
                                             <<"returning", "back">>, <<"video", "user">>}
  BY DEF Flushes
<1>2. /\ step = now /\ step' = then /\ tlb' = << >>
      /\ UNCHANGED <<entries, paging, tables, processes, image>>
  BY <1>1 DEF Flushed, FLUSH_TLB
<1>3. \/ step = "mapped" /\ step' = "load"
      \/ step = "unmapped" /\ step' = "parent"
      \/ step = "returning" /\ step' = "back"
      \/ step = "video" /\ step' = "user"
  BY <1>1, <1>2
<1>4. step \notin Unpaged /\ step' \notin Unpaged
  BY <1>3 DEF Unpaged
<1>5. TablesInv'
  BY <1>2, <1>4 DEF IInv, TablesInv, tables
<1>6. ProgramInv'
  <2>1. \A p : Mapped(p)' = Mapped(p)
    BY <1>2 DEF Mapped, tables
  <2> QED
    BY <1>2, <1>3, <2>1 DEF IInv, ProgramInv, processes, Steps, NoProgram, Unpaged, Starting, Ending
<1>7. VideoInv'
  <2>1. LastViewer' = LastViewer /\ step' # "unmapped"
    BY <1>2, <1>3 DEF LastViewer, Starting, Ending, processes
  <2> QED
    BY <1>2, <2>1 DEF IInv, VideoInv, tables, processes
<1>8. TlbInv'
  BY <1>2, TlbFlushed
<1>9. ImagesInv'
  BY <1>2 DEF IInv, ImagesInv, ImagesKept, processes
<1>10. EntryInv'
  BY <1>2, <1>4, EntryKept DEF IInv
<1> QED
  BY <1>5, <1>6, <1>7, <1>8, <1>9, <1>10 DEF IInv

\* The first program, one more, or the first shell again.
LEMMA StartsInv ==
    ASSUME Placed, IInv, Shell \/ Execute \/ HaltRoot
    PROVE  IInv'
<1>1. /\ TablesInv /\ ProgramInv /\ VideoInv /\ TlbInv /\ ImagesInv /\ EntryInv
      /\ UNCHANGED <<entries, paging, tlb, vidmapped, image>>
      /\ step \in {"shell", "user"}
  BY DEF IInv, Shell, Execute, HaltRoot, processes
<1>2. step \notin Unpaged /\ paging /\ paging'
  BY <1>1 DEF TablesInv, Unpaged
<1>3. CASE step' = "fault" /\ UNCHANGED tables /\ step = "shell" /\ pid' = pid
  <2>1. TablesInv'
    BY <1>1, <1>2, <1>3 DEF TablesInv, tables, Unpaged
  <2>2. ProgramInv'
    <3>1. pid = 0 /\ page_directory[PROGRAM_PD] = Entry /\ pid \in 0 .. MaxProcess
      BY <1>1, <1>3 DEF ProgramInv, NoProgram
    <3> QED
      BY <1>3, <3>1 DEF ProgramInv, tables, Steps, NoProgram, Unpaged, Starting, Ending
  <2>3. VideoInv'
    <3>1. LastViewer' = LastViewer
      BY <1>3 DEF LastViewer, Starting, Ending
    <3> QED
      BY <1>1, <1>3, <3>1 DEF VideoInv, tables
  <2>4. TlbInv'
    BY <1>1, <1>3, WalkKept, TlbKept DEF Stale
  <2>5. ImagesInv'
    BY <1>1, <1>3 DEF ImagesInv, ImagesKept
  <2>6. EntryInv'
    BY <1>1, <1>2, <1>3, EntryKept DEF Unpaged
  <2> QED
    BY <2>1, <2>2, <2>3, <2>4, <2>5, <2>6 DEF IInv
<1>4. CASE /\ map_large(PROGRAM_PD, Frame(pid'), "mapped")
           /\ \/ pid' = pid /\ pid < MaxProcess
              \/ pid' = 0 /\ pid = 1 /\ step = "user"
  <2>1. /\ TablesInv' /\ TlbInv' /\ step' = "mapped"
        /\ page_directory'[PROGRAM_PD] = Large(Frame(pid')) /\ user_vid_table' = user_vid_table
    <3> DEFINE addr == Frame(pid')
    <3> HIDE DEF addr
    <3>1. map_large(PROGRAM_PD, addr, "mapped")
      BY <1>4 DEF addr
    <3>2. step # "unmapped"
      BY <1>1
    <3> QED
      BY <1>1, <1>2, <3>1, <3>2, MapsFrame DEF addr
  <2>2. ProgramInv'
    <3>1. pid \in 0 .. MaxProcess /\ pid' \in 0 .. MaxProcess /\ pid' < MaxProcess
      BY <1>1, <1>4 DEF ProgramInv, Placed
    <3>2. Mapped(pid)'
      BY <2>1 DEF Mapped
    <3> QED
      BY <2>1, <3>1, <3>2 DEF ProgramInv, Steps, NoProgram, Unpaged, Starting, Ending
  <2>3. VideoInv'
    <3>1. pid \in Nat /\ LastViewer = pid - 1 /\ LastViewer' = pid' /\ pid - 1 <= pid'
      BY <1>1, <1>4, <2>1 DEF ProgramInv, LastViewer, Starting, Ending
    <3>2. \A p \in 0 .. LastViewer : p \in 0 .. LastViewer'
      BY <1>4, <3>1
    <3> QED
      BY <1>1, <2>1, <3>2 DEF VideoInv
  <2>4. ImagesInv'
    <3>1. pid \in Nat /\ pid' <= pid /\ pid' \in Nat
      BY <1>1, <1>4 DEF ProgramInv
    <3>2. \A p \in 0 .. pid' - 1 : p \in 0 .. pid - 1
      <4>1. PICK new, old : new = pid' /\ old = pid
        OBVIOUS
      <4>2. new \in Nat /\ old \in Nat /\ new <= old
        BY <3>1, <4>1
      <4>3. \A p \in 0 .. new - 1 : p \in 0 .. old - 1
        BY <4>2
      <4> QED
        BY <4>1, <4>3
    <3>3. image' = image
      BY <1>1
    <3> QED
      BY <1>1, <3>2, <3>3 DEF ImagesInv, ImagesKept
  <2>5. EntryInv'
    BY <1>1, <1>2, <2>1, EntryKept DEF Unpaged
  <2> QED
    BY <2>1, <2>2, <2>3, <2>4, <2>5 DEF IInv
<1>5. CASE Shell
  <2>1. pid = 0 /\ pid' = pid /\ pid < MaxProcess /\ step = "shell"
    BY <1>1, <1>5 DEF Shell, ProgramInv, NoProgram, Placed, processes
  <2> QED
    BY <1>3, <1>4, <1>5, <2>1 DEF Shell
<1>6. CASE Execute
  BY <1>4, <1>6 DEF Execute, processes
<1>7. CASE HaltRoot
  BY <1>4, <1>7 DEF HaltRoot
<1> QED
  BY <1>5, <1>6, <1>7

\* The program is in its frame once it is loaded: nothing else has a
\* translation to read_data's address.
LEMMA LoadInv ==
    ASSUME Placed, IInv, Load
    PROVE  IInv'
<1>1. /\ TablesInv /\ ProgramInv /\ VideoInv /\ TlbInv /\ ImagesInv /\ EntryInv
      /\ step = "load" /\ step' = "user" /\ pid' = pid + 1
      /\ UNCHANGED <<entries, paging, tables, tlb, vidmapped>>
  BY DEF IInv, Load
<1>2. step \notin Unpaged /\ step' \notin Unpaged /\ paging
  BY <1>1 DEF TablesInv, Unpaged
<1>3. pid \in Nat /\ pid < MaxProcess /\ Mapped(pid)
  BY <1>1 DEF ProgramInv, Starting
<1>4. KernelSees(ProgramPage) = {Frame(pid)}
  <2>1. Walk(ProgramPage).to = Frame(pid)
    BY <1>1, <1>2, <1>3, WalkIs
  <2>2. ProgramPage \in DOMAIN tlb => tlb[ProgramPage] = Walk(ProgramPage)
    BY <1>1 DEF TlbInv, Stale, ProgramPage, UserVideo, PROGRAM_PD, USR_VGA_PD
  <2> QED
    BY <2>1, <2>2, Zenon DEF KernelSees, Seen
<1>5. image' = [p \in DOMAIN image |-> IF Frame(p) = Frame(pid) THEN pid ELSE image[p]]
  BY <1>4 DEF Load
<1>6. TablesInv'
  BY <1>1, <1>2 DEF TablesInv, tables
<1>7. ProgramInv'
  <2>1. pid' \in 0 .. MaxProcess /\ pid' >= 1 /\ pid' - 1 = pid
    BY <1>1, <1>3 DEF Placed
  <2>2. page_directory'[PROGRAM_PD] = Large(Frame(pid' - 1))
    BY <1>1, <1>3, <2>1 DEF Mapped, tables
  <2> QED
    BY <1>1, <2>1, <2>2 DEF ProgramInv, Mapped, Steps, NoProgram, Unpaged, Starting, Ending
<1>8. VideoInv'
  <2>1. LastViewer = pid /\ LastViewer' = pid
    BY <1>1, <1>3 DEF LastViewer, Starting, Ending
  <2> QED
    BY <1>1, <2>1 DEF VideoInv, tables
<1>9. TlbInv'
  BY <1>1, WalkKept, TlbKept DEF Stale
<1>10. ImagesInv'
  <2>1. DOMAIN image' = 0 .. MaxProcess - 1 /\ pid \in 0 .. MaxProcess - 1
    BY <1>1, <1>3, <1>5 DEF ImagesInv, Placed
  <2>2. \A p \in 0 .. pid : image'[p] = p
    <3> SUFFICES ASSUME NEW p \in 0 .. pid
                 PROVE  image'[p] = p
      OBVIOUS
    <3>1. p \in DOMAIN image
      BY <1>1, <1>3 DEF ImagesInv, Placed
    <3>2. CASE p = pid
      BY <1>5, <3>1, <3>2
    <3>3. CASE p # pid
      <4>1. Frame(p) # Frame(pid) /\ image[p] = p
        BY <1>1, <1>3, <3>3, FramesDiffer DEF ImagesInv, ImagesKept
      <4> QED
        BY <1>5, <3>1, <4>1
    <3> QED
      BY <3>2, <3>3
  <2>3. pid' - 1 = pid
    BY <1>1, <1>3
  <2> QED
    BY <2>1, <2>2, <2>3 DEF ImagesInv, ImagesKept
<1>11. EntryInv'
  BY <1>1, <1>2, EntryKept
<1> QED
  BY <1>6, <1>7, <1>8, <1>9, <1>10, <1>11 DEF IInv

(* The screen's table holds the screen, mapped or not.                     *)
LEMMA Unscreened ==
    ASSUME NEW entry \in {Table, Screened(TRUE), Screened(FALSE)}
    PROVE  /\ [entry EXCEPT !.present = FALSE] \in {Table, Screened(TRUE), Screened(FALSE)}
           /\ [entry EXCEPT !.present = FALSE].present = FALSE
<1>1. [Table EXCEPT !.present = FALSE] = Table
  <2>1. Table \in [present : {FALSE}, us : {FALSE}, addr : {NoPage}]
    BY DEF Table
  <2>2. [Table EXCEPT !.present = FALSE] \in [present : {FALSE}, us : {FALSE}, addr : {NoPage}]
    BY <2>1
  <2>3. ASSUME NEW record \in [present : {FALSE}, us : {FALSE}, addr : {NoPage}]
        PROVE  record = Table
    BY DEF Table
  <2> QED
    BY <2>2, <2>3
<1>2. ASSUME NEW p \in {TRUE, FALSE}
      PROVE  [Screened(p) EXCEPT !.present = FALSE] = Screened(FALSE)
  <2>1. Screened(p) \in [present : {TRUE, FALSE}, us : {TRUE}, addr : {VGA}]
    BY DEF Screened
  <2>2. [Screened(p) EXCEPT !.present = FALSE] \in [present : {FALSE}, us : {TRUE}, addr : {VGA}]
    BY <2>1
  <2>3. ASSUME NEW record \in [present : {FALSE}, us : {TRUE}, addr : {VGA}]
        PROVE  record = Screened(FALSE)
    BY DEF Screened
  <2> QED
    BY <2>2, <2>3
<1>3. Table.present = FALSE /\ Screened(FALSE).present = FALSE
  BY DEF Table, Screened
<1> QED
  BY <1>1, <1>2, <1>3, Zenon

\* What ended takes its screen with it.
LEMMA HaltInv ==
    ASSUME IInv, Halt
    PROVE  IInv'
<1>1. /\ TablesInv /\ ProgramInv /\ VideoInv /\ TlbInv /\ ImagesInv /\ EntryInv
      /\ step = "user" /\ step' \in {"unmapped", "parent"} /\ pid > 1
      /\ UNCHANGED <<entries, paging, tlb, processes, image, page_directory, page_table>>
  BY DEF IInv, Halt, unmap_small, tables
<1>2. step \notin Unpaged /\ step' \notin Unpaged /\ paging
  BY <1>1 DEF TablesInv, Unpaged
<1>3. /\ pid \in Nat /\ pid' = pid /\ Mapped(pid - 1)
      /\ LastViewer = pid - 1 /\ LastViewer' = pid - 2
  BY <1>1 DEF ProgramInv, processes, LastViewer, Starting, Ending
<1>4. ProgramInv'
  <2>1. \A p : Mapped(p)' = Mapped(p)
    BY <1>1 DEF Mapped
  <2> QED
    BY <1>1, <1>3, <2>1 DEF ProgramInv, Steps, NoProgram, Unpaged, Starting, Ending
<1>5. ImagesInv'
  BY <1>1 DEF ImagesInv, ImagesKept, processes
<1>6. EntryInv'
  BY <1>1, <1>2, EntryKept
<1>7. CASE unmap_small("unmapped")
  <2>1. /\ user_vid_table' = [user_vid_table EXCEPT ![0].present = FALSE]
        /\ step' = "unmapped"
    BY <1>7 DEF unmap_small
  <2>2. /\ DOMAIN user_vid_table' = {0}
        /\ user_vid_table'[0] = [user_vid_table[0] EXCEPT !.present = FALSE]
        /\ user_vid_table[0] \in {Table, Screened(TRUE), Screened(FALSE)}
    BY <1>1, <2>1 DEF TablesInv
  <2>3. /\ user_vid_table'[0] \in {Table, Screened(TRUE), Screened(FALSE)}
        /\ user_vid_table'[0].present = FALSE
    <3> DEFINE entry == user_vid_table[0]
    <3> HIDE DEF entry
    <3>1. PICK old \in {Table, Screened(TRUE), Screened(FALSE)} : old = user_vid_table[0]
      BY <2>2
    <3> QED
      BY <2>2, <3>1, Unscreened
  <2>4. TablesInv'
    BY <1>1, <1>2, <2>2, <2>3 DEF TablesInv
  <2>5. VideoInv'
    BY <1>1, <2>3 DEF VideoInv, processes
  <2>6. TlbInv'
    <3>1. paging' /\ page_directory' = page_directory /\ page_table' = page_table
      BY <1>1, <1>2
    <3>2. \A page \in Pages : page # UserVideo => Walk(page)' = Walk(page)
      BY <1>1, <1>2, <1>3, <2>4, <3>1, WalkBesideVideo
    <3>3. \A page \in DOMAIN tlb : page \in Pages /\ ~Stale(page)' => page # UserVideo /\ ~Stale(page)
      BY <1>1, <2>1 DEF Stale
    <3> QED
      BY <1>1, <3>2, <3>3, TlbKept
  <2> QED
    BY <1>4, <1>5, <1>6, <2>4, <2>5, <2>6 DEF IInv
<1>8. CASE ~vidmapped[pid - 1] /\ UNCHANGED tables /\ step' = "parent"
  <2>1. TablesInv'
    BY <1>1, <1>2, <1>8 DEF TablesInv, tables
  <2>2. VideoInv'
    <3>1. \A p \in 0 .. pid - 1 : vidmapped[p] => p \in 0 .. pid - 2
      BY <1>3, <1>8
    <3> QED
      BY <1>1, <1>3, <1>8, <3>1 DEF VideoInv, tables, processes
  <2>3. TlbInv'
    BY <1>1, <1>8, WalkKept, TlbKept DEF Stale
  <2> QED
    BY <1>4, <1>5, <1>6, <2>1, <2>2, <2>3 DEF IInv
<1> QED
  BY <1>7, <1>8 DEF Halt

\* The parent's frame is back before the parent runs.
LEMMA ParentInv ==
    ASSUME IInv, Parent
    PROVE  IInv'
<1>1. /\ TablesInv /\ ProgramInv /\ VideoInv /\ TlbInv /\ ImagesInv /\ EntryInv
      /\ step = "parent" /\ map_large(PROGRAM_PD, Frame(pid - 2), "returning")
      /\ UNCHANGED <<entries, paging, tlb, processes, image>>
  BY DEF IInv, Parent
<1>2. step \notin Unpaged /\ paging
  BY <1>1 DEF TablesInv, Unpaged
<1>3. pid \in 0 .. MaxProcess /\ pid >= 2 /\ pid' = pid
  BY <1>1 DEF ProgramInv, Ending, processes
<1>4. /\ TablesInv' /\ TlbInv' /\ step' = "returning"
      /\ page_directory'[PROGRAM_PD] = Large(Frame(pid - 2)) /\ user_vid_table' = user_vid_table
  <2>1. PICK addr : addr = Frame(pid - 2)
    OBVIOUS
  <2>2. map_large(PROGRAM_PD, addr, "returning") /\ step # "unmapped"
    BY <1>1, <2>1
  <2> QED
    BY <1>1, <1>2, <2>1, <2>2, MapsFrame
<1>5. ProgramInv'
  <2>1. Mapped(pid - 2)'
    BY <1>3, <1>4 DEF Mapped
  <2> QED
    BY <1>3, <1>4, <2>1 DEF ProgramInv, Steps, NoProgram, Unpaged, Starting, Ending
<1>6. VideoInv'
  <2>1. LastViewer' = LastViewer
    BY <1>1, <1>3, <1>4 DEF LastViewer, Starting, Ending
  <2> QED
    BY <1>1, <1>4, <2>1 DEF VideoInv, processes
<1>7. ImagesInv'
  BY <1>1 DEF ImagesInv, ImagesKept, processes
<1>8. EntryInv'
  BY <1>1, <1>2, <1>4, EntryKept DEF Unpaged
<1> QED
  BY <1>4, <1>5, <1>6, <1>7, <1>8 DEF IInv

\* The parent runs again.
LEMMA BackInv ==
    ASSUME Placed, IInv, Back
    PROVE  IInv'
<1>1. /\ TablesInv /\ ProgramInv /\ VideoInv /\ TlbInv /\ ImagesInv /\ EntryInv
      /\ step = "back" /\ step' = "user" /\ pid' = pid - 1
      /\ UNCHANGED <<entries, paging, tables, tlb, vidmapped, image>>
  BY DEF IInv, Back
<1>2. step \notin Unpaged /\ step' \notin Unpaged
  BY <1>1 DEF Unpaged
<1>3. /\ pid \in 0 .. MaxProcess /\ pid >= 2
      /\ page_directory[PROGRAM_PD] = Large(Frame(pid - 2))
  BY <1>1 DEF ProgramInv, Ending, Mapped
<1>4. TablesInv'
  BY <1>1, <1>2 DEF TablesInv, tables
<1>5. ProgramInv'
  <2>1. pid' \in 0 .. MaxProcess /\ pid' >= 1 /\ pid' - 1 = pid - 2
    BY <1>1, <1>3 DEF Placed
  <2>2. page_directory'[PROGRAM_PD] = Large(Frame(pid' - 1))
    BY <1>1, <1>3, <2>1 DEF tables
  <2> QED
    BY <1>1, <2>1, <2>2 DEF ProgramInv, Mapped, Steps, NoProgram, Unpaged, Starting, Ending
<1>6. VideoInv'
  <2>1. LastViewer' = LastViewer
    BY <1>1, <1>3 DEF LastViewer, Starting, Ending
  <2> QED
    BY <1>1, <2>1 DEF VideoInv, tables
<1>7. TlbInv'
  BY <1>1, WalkKept, TlbKept DEF Stale
<1>8. ImagesInv'
  <2>1. \A p \in 0 .. pid' - 1 : p \in 0 .. pid - 1
    BY <1>1, <1>3
  <2> QED
    BY <1>1, <2>1 DEF ImagesInv, ImagesKept
<1>9. EntryInv'
  BY <1>1, <1>2, EntryKept
<1> QED
  BY <1>4, <1>5, <1>6, <1>7, <1>8, <1>9 DEF IInv

\* The screen for the program: whoever had it before, it is the same page.
LEMMA VidmapInv ==
    ASSUME Placed, IInv, vidmap
    PROVE  IInv'
<1>1. /\ TablesInv /\ ProgramInv /\ VideoInv /\ TlbInv /\ ImagesInv /\ EntryInv
      /\ step = "user" /\ step' = "video"
      /\ vidmapped' = [vidmapped EXCEPT ![pid - 1] = TRUE]
      /\ user_vid_table' = [user_vid_table EXCEPT ![0] = Screened(TRUE)]
      /\ UNCHANGED <<entries, paging, tlb, pid, image, page_directory, page_table>>
  BY DEF IInv, vidmap, map_vmem, Screened
<1>2. step \notin Unpaged /\ step' \notin Unpaged /\ paging
  BY <1>1 DEF TablesInv, Unpaged
<1>3. pid \in 0 .. MaxProcess /\ pid >= 1 /\ Mapped(pid - 1) /\ pid - 1 \in 0 .. MaxProcess - 1
  BY <1>1 DEF ProgramInv, Placed
<1>4. DOMAIN user_vid_table' = {0} /\ user_vid_table'[0] = Screened(TRUE)
  BY <1>1 DEF TablesInv
<1>5. TablesInv'
  <2>1. user_vid_table'[0] \in {Table, Screened(TRUE), Screened(FALSE)}
    BY <1>4
  <2> QED
    BY <1>1, <1>2, <1>4, <2>1 DEF TablesInv
<1>6. ProgramInv'
  <2>1. \A p : Mapped(p)' = Mapped(p)
    BY <1>1 DEF Mapped
  <2> QED
    BY <1>1, <1>3, <2>1 DEF ProgramInv, Steps, NoProgram, Unpaged, Starting, Ending
<1>7. VideoInv'
  <2>1. LastViewer' = pid - 1
    BY <1>1 DEF LastViewer, Starting, Ending
  <2>2. vidmapped' \in [0 .. MaxProcess - 1 -> BOOLEAN] /\ vidmapped'[pid - 1] = TRUE
    BY <1>1, <1>3 DEF VideoInv
  <2>3. pid - 1 \in 0 .. LastViewer'
    BY <1>3, <2>1
  <2> QED
    BY <1>1, <2>2, <2>3 DEF VideoInv
<1>8. TlbInv'
  <2>1. \A page \in Pages : page # UserVideo => Walk(page)' = Walk(page)
    BY <1>1, <1>2, <1>3, <1>5, WalkBesideVideo
  <2>2. UserVideo \in DOMAIN tlb => Walk(UserVideo)' = Walk(UserVideo)
    <3> SUFFICES ASSUME UserVideo \in DOMAIN tlb
                 PROVE  Walk(UserVideo)' = Walk(UserVideo)
      OBVIOUS
    <3>1. ~Stale(UserVideo)
      BY <1>1 DEF Stale
    <3>2. Walk(UserVideo).to # NoPage
      BY <1>1, <3>1 DEF TlbInv
    <3>3. user_vid_table[0].present
      <4> SUFFICES ASSUME ~user_vid_table[0].present PROVE FALSE
        OBVIOUS
      <4>1. Walk(UserVideo) = [to |-> NoPage, us |-> FALSE]
        BY <1>1, <1>2, WalkIs
      <4> QED
        BY <3>2, <4>1
    <3>4. Walk(UserVideo) = [to |-> VGA, us |-> TRUE]
      BY <1>1, <1>2, <3>3, WalkIs
    <3>5. (TablesInv /\ paging /\ user_vid_table[0].present => Walk(UserVideo) = [to |-> VGA, us |-> TRUE])'
      BY WalkIs, PTL
    <3>6. user_vid_table'[0].present = TRUE
      BY <1>4 DEF Screened
    <3> QED
      BY <1>1, <1>2, <1>5, <3>4, <3>5, <3>6
  <2>3. \A page \in DOMAIN tlb : page \in Pages /\ ~Stale(page)
    BY <1>1 DEF TlbInv, Stale
  <2> QED
    BY <1>1, <2>1, <2>2, <2>3, TlbKept
<1>9. ImagesInv'
  BY <1>1 DEF ImagesInv, ImagesKept
<1>10. EntryInv'
  BY <1>1, <1>2, EntryKept
<1> QED
  BY <1>5, <1>6, <1>7, <1>8, <1>9, <1>10 DEF IInv

-----------------------------------------------------------------------------
(* The processor, and what a program may do.                               *)

LEMMA FetchInv ==
    ASSUME IInv, NEW page \in Pages, Fetch(page)
    PROVE  IInv'
<1>1. /\ TablesInv /\ ProgramInv /\ VideoInv /\ TlbInv /\ ImagesInv /\ EntryInv
      /\ paging /\ Walk(page).to # NoPage
      /\ tlb' = [p \in DOMAIN tlb \cup {page} |-> IF p = page THEN Walk(p) ELSE tlb[p]]
      /\ UNCHANGED <<step, entries, paging, tables, processes, image>>
  BY DEF IInv, Fetch
<1>2. TablesInv' /\ EntryInv' /\ ImagesInv'
  BY <1>1 DEF TablesInv, EntryInv, ImagesInv, ImagesKept, tables, entries, processes
<1>3. ProgramInv'
  BY <1>1 DEF ProgramInv, Mapped, tables, processes
<1>4. VideoInv'
  BY <1>1 DEF VideoInv, LastViewer, tables, processes
<1>5. TlbInv'
  <2>1. \A p : Walk(p)' = Walk(p) /\ Stale(p)' = Stale(p)
    BY <1>1, WalkKept DEF Stale
  <2>2. \A p \in DOMAIN tlb' : p = page \/ p \in DOMAIN tlb
    BY <1>1
  <2>3. \A p \in DOMAIN tlb' : tlb'[p] = IF p = page THEN Walk(p) ELSE tlb[p]
    BY <1>1
  <2> QED
    BY <1>1, <2>1, <2>2, <2>3 DEF TlbInv
<1> QED
  BY <1>2, <1>3, <1>4, <1>5 DEF IInv

\* What a user's instruction can be taken to, while a program runs.
LEMMA UserSeesIs ==
    ASSUME IInv, step = "user"
    PROVE  /\ UserSees(ProgramPage) = {Frame(pid - 1)}
           /\ UserSees(UserVideo) \subseteq {to \in {VGA} : user_vid_table[0].present}
           /\ \A page \in Pages \ {ProgramPage, UserVideo} : UserSees(page) = {}
<1>1. TablesInv /\ paging /\ TlbInv /\ pid \in Nat /\ pid >= 1 /\ Mapped(pid - 1)
  <2>1. TablesInv /\ TlbInv /\ ProgramInv
    BY DEF IInv
  <2>2. paging
    BY <2>1 DEF TablesInv, Unpaged
  <2> QED
    BY <2>1, <2>2 DEF ProgramInv
<1>2. \A page \in Pages : Seen(page) = {Walk(page)}
  <2>1. \A page \in DOMAIN tlb : tlb[page] = Walk(page)
    BY <1>1 DEF TlbInv, Stale
  <2> QED
    BY <2>1 DEF Seen
<1>3. Walk(ProgramPage) = [to |-> Frame(pid - 1), us |-> TRUE] /\ Frame(pid - 1) # NoPage
  BY <1>1, WalkIs, FramesDiffer
<1>4. \A page \in Pages : UserSees(page) = {t.to : t \in {u \in {Walk(page)} : u.us}} \ {NoPage}
  BY <1>2 DEF UserSees
<1>5. UserSees(ProgramPage) = {Frame(pid - 1)}
  <2>1. Walk(ProgramPage).us = TRUE /\ Walk(ProgramPage).to = Frame(pid - 1)
    BY <1>3
  <2> QED
    BY <1>3, <1>4, <2>1, PagesDiffer, Zenon
<1>6. UserSees(UserVideo) \subseteq {to \in {VGA} : user_vid_table[0].present}
  <2>1. CASE user_vid_table[0].present
    <3>1. Walk(UserVideo).to = VGA
      BY <1>1, <2>1, WalkIs
    <3> QED
      BY <1>4, <2>1, <3>1, PagesDiffer, Zenon
  <2>2. CASE ~user_vid_table[0].present
    <3>1. Walk(UserVideo).us = FALSE
      BY <1>1, <2>2, WalkIs
    <3>2. {u \in {Walk(UserVideo)} : u.us} = {}
      BY <3>1, Zenon
    <3>3. UserVideo \in Pages
      BY PagesDiffer
    <3>4. UserSees(UserVideo) = {t.to : t \in {}} \ {NoPage}
      BY <1>4, <3>2, <3>3, Zenon
    <3> QED
      BY <3>4, Zenon
  <2> QED
    BY <2>1, <2>2
<1>7. \A page \in Pages \ {ProgramPage, UserVideo} : UserSees(page) = {}
  <2>1. \A page \in Pages \ {ProgramPage, UserVideo} : Walk(page).us = FALSE
    BY <1>1, WalkIs, PagesDiffer
  <2> QED
    BY <1>4, <2>1, Zenon
<1> QED
  BY <1>5, <1>6, <1>7

\* A program's own frame, or the screen, which is no program's.
LEMMA StoreInv ==
    ASSUME Placed, IInv, NEW page \in Pages, Store(page)
    PROVE  IInv'
<1>1. /\ TablesInv /\ ProgramInv /\ VideoInv /\ TlbInv /\ ImagesInv /\ EntryInv
      /\ step = "user"
      /\ UNCHANGED <<step, entries, paging, tables, tlb, processes>>
  BY DEF IInv, Store
<1>2. PICK to \in UserSees(page) :
        image' = [p \in DOMAIN image |-> IF Frame(p) = to THEN pid - 1 ELSE image[p]]
  BY DEF Store
<1>3. pid \in Nat /\ pid >= 1
  BY <1>1 DEF ProgramInv
<1>4. to \in {Frame(pid - 1), VGA}
  BY <1>1, <1>2, UserSeesIs
<1>5. ImagesInv'
  <2>1. DOMAIN image' = 0 .. MaxProcess - 1 /\ pid' = pid /\ pid <= MaxProcess
    BY <1>1, <1>2 DEF ImagesInv, ProgramInv, processes
  <2>2. ASSUME NEW p \in 0 .. pid - 1
        PROVE  image'[p] = p
    <3>1. p \in DOMAIN image /\ image[p] = p /\ p \in Nat
      BY <1>1, <1>3, <2>1 DEF ImagesInv, ImagesKept, Placed
    <3>2. Frame(p) = to => p = pid - 1
      BY <1>3, <1>4, <3>1, FramesDiffer
    <3> QED
      BY <1>2, <3>1, <3>2
  <2> QED
    BY <2>1, <2>2 DEF ImagesInv, ImagesKept
<1>6. TablesInv' /\ EntryInv'
  BY <1>1 DEF TablesInv, EntryInv, tables, entries
<1>7. ProgramInv'
  BY <1>1 DEF ProgramInv, Mapped, tables, processes
<1>8. VideoInv'
  BY <1>1 DEF VideoInv, LastViewer, tables, processes
<1>9. TlbInv'
  BY <1>1, WalkKept, TlbKept DEF Stale
<1> QED
  BY <1>5, <1>6, <1>7, <1>8, <1>9 DEF IInv

\* The invariant is inductive.
LEMMA StepInv ==
    ASSUME Placed, IInv, [Next]_vars
    PROVE  IInv'
<1>1. CASE UNCHANGED vars
  <2>1. UNCHANGED <<step, entries, paging, tables, tlb, processes, image>>
    BY <1>1 DEF vars
  <2>2. TablesInv' /\ EntryInv' /\ ImagesInv'
    BY <2>1 DEF IInv, TablesInv, EntryInv, ImagesInv, ImagesKept, tables, entries, processes
  <2>3. ProgramInv'
    BY <2>1 DEF IInv, ProgramInv, Mapped, tables, processes
  <2>4. VideoInv'
    BY <2>1 DEF IInv, VideoInv, LastViewer, tables, processes
  <2>5. TlbInv'
    BY <2>1, WalkKept, TlbKept DEF IInv, Stale
  <2> QED
    BY <2>2, <2>3, <2>4, <2>5 DEF IInv
<1>2. CASE BootSteps
  BY <1>2, EarlyInv, PagingInv, PicInv, StartsInv DEF BootSteps
<1>3. CASE Flushes
  BY <1>3, FlushInv
<1>4. CASE Execute \/ HaltRoot
  BY <1>4, StartsInv
<1>5. CASE Load \/ Halt \/ Parent \/ Back \/ vidmap
  BY <1>5, LoadInv, HaltInv, ParentInv, BackInv, VidmapInv
<1>6. CASE \E page \in Pages : Fetch(page) \/ Store(page)
  BY <1>6, FetchInv, StoreInv
<1> QED
  BY <1>1, <1>2, <1>3, <1>4, <1>5, <1>6 DEF Next

-----------------------------------------------------------------------------
(* What follows from the invariant.                                        *)

LEMMA SeesKernel ==
    ASSUME IInv
    PROVE  KernelMapped
<1> SUFFICES ASSUME paging
             PROVE  /\ KernelSees(KernelPage) = {Kernel}
                    /\ KernelSees(VideoPage) = {VGA}
                    /\ KernelSees(<<VGA_PD, 0>>) = {NoPage}
                    /\ KernelSees(<<VGA_PD, TEST_PT_IDX>>) = {NoPage}
  BY DEF KernelMapped
<1>1. TablesInv /\ TlbInv
  BY DEF IInv
<1>2. ASSUME NEW page \in Pages, page \notin {ProgramPage, UserVideo}
      PROVE  KernelSees(page) = {Walk(page).to}
  <2>1. page \in DOMAIN tlb => tlb[page] = Walk(page)
    BY <1>1, <1>2 DEF TlbInv, Stale
  <2> QED
    BY <2>1, Zenon DEF KernelSees, Seen
<1>3. /\ Walk(KernelPage).to = Kernel /\ Walk(VideoPage).to = VGA
      /\ Walk(<<VGA_PD, 0>>).to = NoPage /\ Walk(<<VGA_PD, TEST_PT_IDX>>).to = NoPage
  BY <1>1, WalkIs
<1>4. \A page \in {KernelPage, VideoPage, <<VGA_PD, 0>>, <<VGA_PD, TEST_PT_IDX>>} :
        page \in Pages /\ page \notin {ProgramPage, UserVideo}
  BY PagesDiffer
<1> QED
  BY <1>2, <1>3, <1>4

\* A running program sees its own frame, and the screen if it asked for it.
LEMMA SeesOwn ==
    ASSUME IInv
    PROVE  OwnMemory
<1> SUFFICES ASSUME step = "user"
             PROVE  /\ UserSees(ProgramPage) = {Frame(pid - 1)}
                    /\ \A page \in Pages \ {ProgramPage} :
                        UserSees(page) \subseteq
                            {to \in {VGA} : page = UserVideo /\ \E p \in 0 .. pid - 1 : vidmapped[p]}
  BY DEF OwnMemory
<1>1. user_vid_table[0].present => \E p \in 0 .. pid - 1 : vidmapped[p]
  BY DEF IInv, VideoInv, LastViewer, Starting, Ending
<1> QED
  BY <1>1, UserSeesIs

(* The parts of a descriptor's base make it whole again.                   *)
LEMMA BaseIs ==
    ASSUME NEW kind, NEW dpl, NEW base \in Nat, NEW limit
    PROVE  Base(Descriptor(kind, dpl, base, limit)) = base
<1>1. 2^16 = 65536 /\ 2^8 = 256 /\ 2^24 = 16777216
  OBVIOUS
<1>2. Base(Descriptor(kind, dpl, base, limit)) =
        (base \div 16777216) * 16777216 + ((base \div 65536) % 256) * 65536 + (base % 65536)
  BY <1>1 DEF Base, Descriptor
<1> QED
  BY <1>2

\* What stands in the descriptor table, entry by entry.
LEMMA LoadedIs ==
    /\ DOMAIN Loaded = 1 .. 8
    /\ Loaded[3] = Descriptor("code", 0, 0, 2^20 - 1) /\ Loaded[4] = Descriptor("data", 0, 0, 2^20 - 1)
    /\ Loaded[5] = Descriptor("code", 3, 0, 2^20 - 1) /\ Loaded[6] = Descriptor("data", 3, 0, 2^20 - 1)
    /\ Loaded[7] = TssDescriptor /\ Loaded[8] = LdtDescriptor
<1> DEFINE code == Descriptor("code", 0, 0, 2^20 - 1)
           data == Descriptor("data", 0, 0, 2^20 - 1)
           user_code == Descriptor("code", 3, 0, 2^20 - 1)
           user_data == Descriptor("data", 3, 0, 2^20 - 1)
           flat == <<Null, Null, code, data, user_code, user_data, Null, Null>>
<1>1. Loaded = [flat EXCEPT ![8] = LdtDescriptor, ![7] = TssDescriptor]
  <2>1. KERNEL_LDT \div 8 + 1 = 8 /\ KERNEL_TSS \div 8 + 1 = 7
    BY DEF KERNEL_LDT, KERNEL_TSS
  <2> QED
    BY <2>1 DEF Loaded, Flat
<1> HIDE DEF code, data, user_code, user_data
<1>2. /\ DOMAIN Loaded = 1 .. 8
      /\ Loaded[3] = code /\ Loaded[4] = data /\ Loaded[5] = user_code /\ Loaded[6] = user_data
      /\ Loaded[7] = TssDescriptor /\ Loaded[8] = LdtDescriptor
  BY <1>1
<1> QED
  BY <1>2 DEF code, data, user_code, user_data

\* The gates that are set: the user's is that of system calls alone.
LEMMA GatesAre ==
    /\ DOMAIN Gates = (0 .. 19) \cup Devices \cup {SYSCALL_VEC}
    /\ Gates[SYSCALL_VEC] = 3
    /\ \A n \in (0 .. 19) \cup Devices : Gates[n] = 0
<1> DEFINE exceptions == With(<< >>, add_exception)
           devices == With(exceptions, add_interrupt)
<1>1. DOMAIN exceptions = 0 .. 19 /\ \A n \in 0 .. 19 : exceptions[n] = 0
  BY DEF With, add_exception
<1>2. Gates = With(devices, add_sys_call)
  BY DEF Gates
<1>3. DOMAIN add_interrupt = Devices /\ \A n \in Devices : add_interrupt[n] = 0
  BY DEF add_interrupt
<1>4. DOMAIN add_sys_call = {SYSCALL_VEC} /\ add_sys_call[SYSCALL_VEC] = 3
  BY DEF add_sys_call
<1> HIDE DEF exceptions
<1>5. /\ DOMAIN devices = (0 .. 19) \cup Devices
      /\ \A n \in (0 .. 19) \cup Devices : devices[n] = 0
  BY <1>1, <1>3 DEF With
<1> HIDE DEF devices
<1>6. SYSCALL_VEC \notin (0 .. 19) \cup Devices
  BY DEF SYSCALL_VEC, Devices
<1> QED
  BY <1>2, <1>4, <1>5, <1>6 DEF With

\* Selectors name what they should once tables are loaded.
LEMMA Ready ==
    ASSUME Placed, IInv
    PROVE  EntryReady
<1>1. EntryInv
  BY DEF IInv
<1>2. \A selector \in {KERNEL_CS, KERNEL_DS, USER_CS, USER_DS, KERNEL_TSS, KERNEL_LDT} :
        gdt = Loaded => Named(selector) = Loaded[selector \div 8 + 1]
  BY DEF Named
<1>3. /\ KERNEL_CS \div 8 + 1 = 3 /\ KERNEL_DS \div 8 + 1 = 4 /\ USER_CS \div 8 + 1 = 5
      /\ USER_DS \div 8 + 1 = 6 /\ KERNEL_TSS \div 8 + 1 = 7 /\ KERNEL_LDT \div 8 + 1 = 8
      /\ KERNEL_CS % 4 = 0 /\ KERNEL_DS % 4 = 0 /\ USER_CS % 4 = 3 /\ USER_DS % 4 = 3 /\ KERNEL_TSS % 4 = 0
  BY DEF KERNEL_CS, KERNEL_DS, USER_CS, USER_DS, KERNEL_TSS, KERNEL_LDT
<1>4. gdt = Loaded =>
        /\ Usable(KERNEL_CS, "code", 0) /\ Usable(KERNEL_DS, "data", 0)
        /\ Usable(USER_CS, "code", 3) /\ Usable(USER_DS, "data", 3)
        /\ Usable(KERNEL_TSS, "tss", 0) /\ Base(Named(KERNEL_TSS)) = Tss /\ Named(KERNEL_TSS).limit + 1 = TSS_SIZE
        /\ Base(Named(KERNEL_LDT)) = Ldt
  <2> SUFFICES ASSUME gdt = Loaded
               PROVE  /\ Usable(KERNEL_CS, "code", 0) /\ Usable(KERNEL_DS, "data", 0)
                      /\ Usable(USER_CS, "code", 3) /\ Usable(USER_DS, "data", 3)
                      /\ Usable(KERNEL_TSS, "tss", 0) /\ Base(Named(KERNEL_TSS)) = Tss
                      /\ Named(KERNEL_TSS).limit + 1 = TSS_SIZE /\ Base(Named(KERNEL_LDT)) = Ldt
    OBVIOUS
  <2>1. /\ Named(KERNEL_CS) = Loaded[3] /\ Named(KERNEL_DS) = Loaded[4]
        /\ Named(USER_CS) = Loaded[5] /\ Named(USER_DS) = Loaded[6]
        /\ Named(KERNEL_TSS) = Loaded[7] /\ Named(KERNEL_LDT) = Loaded[8]
    BY <1>2, <1>3
  <2>2. \A kind, dpl, base, limit :
            LET d == Descriptor(kind, dpl, base, limit) IN d.kind = kind /\ d.dpl = dpl /\ d.limit = limit
    BY DEF Descriptor
  <2>3. /\ Usable(KERNEL_CS, "code", 0) /\ Usable(KERNEL_DS, "data", 0)
        /\ Usable(USER_CS, "code", 3) /\ Usable(USER_DS, "data", 3)
    BY <1>3, <2>1, <2>2, LoadedIs DEF Usable
  <2>4. Named(KERNEL_TSS) = Descriptor("tss", 0, Tss, TSS_SIZE - 1)
    BY <2>1, LoadedIs DEF TssDescriptor
  <2>5. Usable(KERNEL_TSS, "tss", 0) /\ Named(KERNEL_TSS).limit + 1 = TSS_SIZE
    BY <1>3, <2>2, <2>4 DEF Usable, TSS_SIZE
  <2>6. Base(Named(KERNEL_TSS)) = Tss
    BY <2>4, BaseIs DEF Placed
  <2>7. Base(Named(KERNEL_LDT)) = Ldt
    BY <2>1, LoadedIs, BaseIs DEF LdtDescriptor, Placed
  <2> QED
    BY <2>3, <2>5, <2>6, <2>7
<1>5. interrupts => idtr /\ Devices \subseteq DOMAIN idt /\ Usable(KERNEL_CS, "code", 0)
  <2> SUFFICES ASSUME interrupts
               PROVE  idtr /\ Devices \subseteq DOMAIN idt /\ Usable(KERNEL_CS, "code", 0)
    OBVIOUS
  <2>1. gdt = Loaded /\ idt = Gates /\ idtr
    BY <1>1 DEF EntryInv, Unpaged
  <2> QED
    BY <1>4, <2>1, GatesAre
<1>6. step = "user" => gdt = Loaded /\ idt = Gates /\ tr = KERNEL_TSS
  BY <1>1 DEF EntryInv
<1>7. {n \in DOMAIN Gates : Gates[n] = 3} = {SYSCALL_VEC}
  <2>1. \A n \in DOMAIN Gates : n \in (0 .. 19) \cup Devices \/ n = SYSCALL_VEC
    BY GatesAre, Zenon
  <2>2. \A n \in (0 .. 19) \cup Devices : Gates[n] # 3
    <3>1. 0 # 3
      OBVIOUS
    <3> QED
      BY <3>1, GatesAre, Zenon
  <2>3. SYSCALL_VEC \in DOMAIN Gates /\ Gates[SYSCALL_VEC] = 3
    BY GatesAre, Zenon
  <2> QED
    BY <2>1, <2>2, <2>3, Zenon
<1> QED
  BY <1>4, <1>5, <1>6, <1>7, GatesAre DEF EntryReady

(***************************************************************************)
(* Whatever system calls follow whatever boot, wherever the processor      *)
(* fetches a translation and however many processes there are, no program  *)
(* sees another's memory or overwrites it, the kernel stays mapped, and    *)
(* each way into it is there before it can be taken.                       *)
(***************************************************************************)
THEOREM MemorySafetyHolds ==
    ASSUME Placed
    PROVE  Spec => []MemorySafety
<1>1. Init => IInv
  BY InitInv
<1>2. IInv /\ [Next]_vars => IInv'
  BY StepInv
<1>3. IInv => MemorySafety
  BY SeesKernel, SeesOwn, Ready DEF MemorySafety, IInv, ImagesInv
<1> QED
  BY <1>1, <1>2, <1>3, PTL DEF Spec

=============================================================================
