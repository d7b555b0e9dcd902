# SaarthOS: a TLA+ verification project

The repository holds three programs under `src/ece391_share/work/ece391git`
and earlier copies of two of them under `originals`:

- **the kernel** (`mp3_group_49/student-distrib`): one processor, no scheduler,
  no threads. A stack of processes, each started by `execute` of the one below;
  pages, files, a clock, a keyboard with line editing, a text screen;
- **the maze game and its tux controller driver** (`mp2_ssbonde2`), and three
  earlier ones (`originals/mp2_ssbonde2`, `originals/ECE_391_MP2`,
  `originals/ECE391-MP2-Device-Drivers`) that differ in threads, drawing and driver;
- **the blink module** (`mp1_ssbonde2`) and the programs that use it.

## 1. Inventory

| part | state | operations | hard behaviour | what makes it correct |
|---|---|---|---|---|
| processes (`syscall/process.c`, `syscalls.c`) | `pid`, the PCBs, the frame at 128 MB, `tss.esp0`, the video page | the ten system calls | returning through the parent's kernel stack; slots and descriptors used again | the processes are a stack; nobody touches a suspended process |
| memory (`paging.c`, `boot.S`, `kernel.c`) | page directory and table, what the processor still has of old entries, the images | boot, mapping, execute, halt, fault | an entry changed and its old translation still in use | a program sees its own image only; the kernel is always there |
| file system (`drivers/fs.c`) | the image (constant), inode and position of each descriptor | open, read, close, `read_data` | partial and whole blocks, descriptors used again | a descriptor is a stream over its file |
| clock (`drivers/rtc.c`) | `vfreq`, `icounter`, `interrupted` | interrupt, open, read, write | one virtual clock for all processes, written while it counts | bounded count, exact rate, reads return |
| keyboard (`drivers/keyboard.c`) | modifier flags, `last_key`, `key_flag` | interrupt, `keyboard_get_key` | a process takes the key while the interrupt stores one | nothing made up, nothing lost that was not overwritten |
| terminal (`drivers/terminal.c`, the shell, command parsing) | `terminal_buf` | `terminal_read`; the shell's loop; `create_process`'s parser | backspaces, full lines, what an earlier line left behind | the line run is the line typed |
| screen (`lib.c`) | cursor, video memory | `putc`, `backspace`, `clear`, scrolling | the corners; ctrl+L's `clear` inside a `putc` | the cursor stays on the screen |
| library (`lib.c`) | the words a routine works on | the memory and string routines, `printf`, `itoa` | alignment, overlap, most negative numbers, lengths | bytes move once, and no others |
| interrupts (`interrupts/*`) | interrupt flag, `irq_vector`, the PICs | stubs, handlers, `sys_call` | a word shared by all stubs; exceptions that never return | numbers arrive, interrupts come back on |
| user programs (`syscalls/`) | a buffer, a place in it; a list of tests | their calls, on the kernel and on Linux (`ece391emulate.c`) | lines across two reads; descriptors left open by an earlier test; two systems that cut a command apart differently | matching lines and whole files printed; errors refused |
| tux line discipline (`module/tuxctl-ld.c`) | two rings, saved bytes | receive, callback, put, wakeup | chunks, lost bytes, a stale count of room | packets are found once; bytes go out in order |
| tux drivers (three `tuxctl-ioctl.c`) | buttons, LEDs, an acknowledge or poll in flight | ioctls, packet handler | commands lost in a reset, answers that come late | what is told of buttons and LEDs is what was said of them |
| mazes and the game (`maze.c`, `mazegame.c`) | the maze; position, direction, flags | `make_maze`; three threads | a mutex around some of the state; reads that do not block | mazes can be won; wins are earned; everybody ends |
| mode X (`modex.c`, `text.c`) | the build buffer, the view, two pages, the adapter's registers | drawing, scrolling, page flips, mode changes | a window that moves through a buffer slightly larger than itself | the buffer is a picture of the view; the display never shows a mixture |
| input (`input.c`) | the saved terminal, a pushed command | `init_input`, `get_command`, `shutdown_input` | escape sequences in pieces | turns are those typed; the terminal is given back |
| earlier games | as the game, with captions, a bar with the time, colour fades | three threads, one with a condition variable | a press between poll and wait; what is drawn over and put back | the newest press is kept; the screen is explained by what happened |
| blink module (`mp1.S`) | a linked list | tasklet, four ioctls | failures halfway through, the tasklet in between | nodes are linked once and live; phases keep time |
| blink programs (`mp1.c`, `fish.c`) | two files' characters at places | add, sync, remove, draw | files of different length and shape | what is drawn is the two files, blinking as one |

How they meet. In the kernel a system call enters through `sys_call` and is
dispatched by the descriptor (`read`, `write`, `close`) or the file's type
(`open`). The device handlers run with interrupts off and talk to calls by
flags: `interrupted`, `key_flag`. `create_process` reads the program through
`read_data` into the page `paging.c` maps, and its command is what the shell
read through `terminal_read`, which takes keys from `keyboard_get_key` and
echoes through `putc`. An exception ends its program through `halt`. In the game
the keyboard and tux threads leave a direction for the clock thread, which
moves the player, draws through mode X and sets the flags the others end by;
the tux thread's ioctls put bytes into the line discipline's ring, and its
interrupt handler hands packets back to the driver. In the blink module the
tasklet walks the list that the ioctls of a program change.

## 2. Modules

Specifications first, the abstract one before what implements it. Proofs stand at
the end of `Process` and `Memory`, and of the `MC` module that composes what they are about.

| module | models |
|---|---|
| `ProcessStack`, `Process` | abstract: a stack of programs with arguments and descriptors and a status returned; and the processes and their system calls with PCB slots, mapping and stack pointers, which implement it |
| `Memory` | boot, the page tables with the translations the processor may keep, and what execute, halt, faults and vidmap do to them |
| `FileStreams`, `FileSystem` | abstract: descriptors as streams; and `fs.c`, which implements it |
| `Rtc`, `Keyboard`, `Screen` | the three drivers |
| `Terminal` | line editing, the shell's loop, the command parser |
| `Interrupts` | stubs, flag, PICs, nesting of programs, calls, exceptions |
| `Library` | the routines of `lib.c` over every small input |
| `Grep`, `UserPrograms` | grep; and cat, ls, hello, counter, pingpong, sigtest, testprint and the error tests, on the kernel's calls or on Linux's |
| `TuxRing`, `TuxReceive`, `TuxTransmit` | the ring and the two halves of the line discipline |
| `TuxController`, `TuxCurrent`, `TuxPoll`, `TuxAck` | the device, and the three drivers of it: the one in use, one that reads LEDs back, one that waits for acknowledgements |
| `BlinkNode`, `Blinkers`, `BlinkList`, `FishBlink`, `FrameProgram` | a node; what is common to both lists; `mp1.S`; the same in `fish`; the two programs |
| `MazeLattice`, `MakeMaze`, `MazeGame` | coordinates; making a maze; the three threads and `main` |
| `Picture`, `ViewWindow`, `VgaRegisters`, `TextBar` | abstract: pictures one after the other; the build buffer and all drawing into it, which implements it; the adapter; the status bar's text |
| `MazeWalk`, `CaptionGame`, `ClockedGame`, `FirstGame` | the player's walk the earlier games share, and what each draws around it |
| `GameButtons`, `GameThreads`, `InputCommands` | the button thread with its condition variable; the threads and ends of two earlier games, with a controller and colour fades and without; both versions of `get_command` |
| `MCConsole` (with `MCTextMode`, which adds what blinks), `MCServices`, `MCSleepers`, `MCTux`, `MCMazeGame`, `MCViewWindow` | instances for TLC; each behaviour runs one part, chosen at `Init`, and the parts share no variable that is not idle in the others |

How state corresponds to code:

- `Process`: `pcb` is the array of control blocks by slot, `pid` the counter,
  `page` the frame mapped at the program address, `esp0` the stack pointer of
  the task state in units of frames, `vidPresent` the video page's entry. Each
  action is one system call from its entry to its return, failures included,
  since one processor without a scheduler runs them whole and no handler
  changes any of this. `CurSlot` is the PCB that `get_pcb_ptr` finds by
  masking the stack pointer. A quirk the model keeps: `get_ret_addr` runs when
  the counter has already moved on, so a process finds its return address only
  because its predecessor left it there; the root finds none and is started
  again when it halts. `FileType` follows the constants of `open`, which calls
  directories files and files directories, twice, so that the right functions
  are reached.
- `Memory`: the processor may load a translation at any time and keep it until
  a flush; a translation of an entry that has changed since is what the
  properties look for. `CR4.PGE` is never set, so the global bit of
  `paging.c:47` has no effect and every load of `CR3` drops everything.
- `FileSystem`: a byte is named by its block and place, so a wrong block shows
  in what was read. `Clip`, `HeadBytes`, `MiddleBytes`, `TailBytes` and `Data`
  are the parts of `read_data` in order.
- `Rtc`: `handle_rtc` is one action (interrupts are off in it); `rtc_read` is
  split at every point an interrupt can come between: arming the flag, `hlt`,
  the test. Other interrupts end `hlt` too.
- `Keyboard`: the handler is one action; `keyboard_get_key` is a step per
  access to the shared variables. `Terminal`: one action per key taken and
  edited, and per line parsed. `Screen`: `putc` is split at its uses of
  `screen_y`, where ctrl+L's `clear` can come between.
- `Interrupts`: `frames` is what the processor is in, innermost last, each with
  the flag its gate saved. Exception gates leave the flag alone, the others
  clear it. The two uses of `irq_vector` are steps of their own. Calls are told
  apart by what they do to control: wait, run a program, end one, fail.
- `TuxReceive`: one action per chunk the serial driver delivers.
  `TuxTransmit`: the steps of `put`, of `write_wakeup` and of the ioctls and
  the reset are actors between which interrupts fall; the room read before the
  lock is a value carried into the locked part. In the drivers the controller
  is an actor that takes commands in order, loses those that arrive in a reset
  and reports buttons whenever they change. Its packets arrive in order.
- `BlinkList`: an ioctl is a step per access to the list that the tasklet can
  fall between, `RTC_SYNC` one per load and per store of a field; a node is its fields. `FrameProgram`: a step per call a program
  makes; a file is its characters, row by row.
- `MakeMaze`: a step per call of `random()`, any answer. `MazeGame`: a step per
  section between mutex operations and per unlocked access; the build is
  without optimisation on one processor, so their order is the program's.
- `ViewWindow`: a step per function that draws; the buffer is a function of
  its addresses per plane, so what a move of the window leaves behind is there
  until it is drawn over. The bytes outside the view are
  canonicalised (`Forgotten`), since each is drawn before it is seen again.
- `VgaRegisters`: a step per register written, index and value together;
  both orders of the screen's retrace and the program's writes.
- `GameButtons`: a step per mutex operation, `wait` with spurious wakeups.

## 3. Runs

Twelve questions, each a run of its own; a property that joins several is named
with its parts.

| run | shows | bounds, and why they are enough |
|---|---|---|
| `process_stack` | `WellFormed` (types; dispatch never meets a NULL or a free descriptor), `RunningContext`, `ReturnPath`, `VidPageOwned`, `SuspendedFrozen`: counter, PCB and frame name the same process, return paths are whole, suspended processes are frozen; and all of it implements `ProcessStack` | 3 slots: a process with a parent and a child; 3 descriptors: two standard ones and one to open and to run out of; one execute per process and instance |
| `process_stack_leak` (violation) | `tss.esp0` sinks by one frame per program run, until the kernel stack reaches the PCB below it | as many executes as frames |
| `process_open_full` (violation) | `rtc_open` with a full table takes over a descriptor or writes outside the table | as `process_stack` with one program |
| `process_vidmap_lost` (violation) | a child that used `vidmap` takes the page away from its parent when it halts | a parent and a child |
| `text_mode` | keyboard: `ModifiersFollowKeys`, `TypedAsHeld`, `TwiceAtMost`, `LastKeyDelivered`; terminal: `LineSafety` (the line is what editing leaves, it is returned whole, at most two bytes past the count asked for, names and arguments come out of it as typed; a key is stored after `terminal_buf` only for a count that is negative or its very size); screen: `TextSafety` (cursor on the screen, blank behind the last line); blinking: `BlinkSafety` (`ListSound`, `ShowsStatus`, `InStep`), `FishSafety` (its own list shows its statuses, and implements `Blinkers`), `ProgramSafety` (`DrawsFiles`, `BlinkTogether`, `LeavesNone`), `InTime`: phases last as long as they were asked to and follow each other however often nodes are synced (`BlinksInTime`), and the programs end (`Ends`) | 4 presses: one being fetched, one overwriting it, one after each; modifiers unbounded. A buffer of 5, counts of -1 and below, at and above it, 6 keys: past the full line. A screen of 3 by 3: corners, edges, an inner place. For blinking two nodes, three places, one off the screen: every list with a first, a last and a stranger; texts of up to four characters: longer, shorter and of fewer rows than each other |
| `terminal_stale_args` (violation) | a name without a space is run with what follows it in the shell's buffer as arguments | as above |
| `services` | files: `FilePosInFile`, `NextReadExact` (where exactly the next read of any size would be wrong), `ImplementsStreams`; `ProgramsServed` (grep's `PrintsMatches`; what each other program prints and returns is what its command asks for, and the error tests pass); `MemorySafety`; `LibrarySafety`; `DisplaySafety` (`NeverMixed`, `ScreenSplit`, `PagesApart`, `PaletteRight`) | blocks of 2 bytes, files that end inside a block, at its end, and empty, two descriptors, counts of -1, 0, 1 and 2 around a word of 32, of which 1 is a name of the directory and 2 steps over one, as `cat .` does; texts of six bytes in grep's buffer of three, so lines span two reads; files of 7, 8 and 17 bytes in the other programs' buffer of 8: less than it, as much, and two and a bit; commands with blanks before, between and behind, and too long, on both systems; a pingpong screen of six columns; three processes; moves within twelve bytes: every alignment and overlap of words of four; the adapter's registers as in the tables |
| `filesystem_middle_blocks` (violation) | a read behind the first block that spans a whole block copies the wrong one | reads of 1 and 3 bytes |
| `sleepers` | `CounterBounded`, `SteadyRate`; `HandedOver` (`EntrySafety`: numbers arrive, interrupts are on wherever something waits, no pin stays in service; and for `device_not_available` perhaps an interrupt's; and `NewestKept`: the newest press is marked until it is obeyed); `AllWake`: every read of the clock returns, every request is accepted, the game goes on and ends | device rate 16, requests valid and invalid on both sides, a backlog of 12; 3 nested programs, two devices, four exceptions (an ordinary one, the one that raises another, the one without `cli`, a page fault); two levels |
| `tux` | `SendSafety`: bytes leave in the order put unless one wakeup overtook another, commands whole, and none stays in the ring that nobody will send; `ReceivedWhole`: every packet is handled once, in order, however it was cut; `LossesKnown` (`LossBounded`, `NoneDropped`); `DriverSafety` (`CurrentSafety`, `PollSafety`, `AckSafety`: buttons reported, LEDs and times shown in whole, commands acknowledged); `Answered`: who waits for a byte, a poll or an acknowledgement gets it | ring of 4 before a driver of 2: full, empty and split at the end; up to six bytes received: two packets through a buffer that wraps and overflows, or five with the line closed and opened again anywhere between; one reset and two calls: one before and one after it or in it; two times of different digits (754 and 83 seconds) and one other word, so that parts of two can be told apart |
| `maze_game` | `PlayerSafety` (`OnPath`, `StopIsStill`, `InView`), `WinsEarned` (`WinEarned`, `FruitsCounted`), `MazeSafety` (`RemainingCounts`, `MadeGood`: every maze has a way to its exit), `EndsSafely` (`GameThreads`' `ThreadsSafety`: nothing is taken from running threads, the outcome told was earned; `InputCommands`' `InputSafety`: turns are those told, a saved terminal is restored; not what `main` leaves after a failed call), `AllEnds` | two levels of different size and two ticks after a win or quit could come; mazes of two by three points: with an inner wall in both directions; five characters: two escape sequences' worth |
| `view` | `DrawnRight` (`ViewSafety`: no byte beyond the buffer is written, and it is a picture of the view until a caption or two ticks at once leave their marks; `TextShown`), `FramesTrue` (`CaptionGame`, `ClockedGame`, `FirstGame`: every pixel that is not the maze's is explained), `KeepsPicture`: `ViewWindow` implements `Picture` | a view of 8 by 4 pixels, two spare bytes: panning in all directions, recentring at both ends of the buffer; a maze that is wider than the view |

Names of bounds: `MaxProcess`, `FdMax`, `StackFrames`, `MaxDepth`, `MaxBacklog`,
`MaxPresses`, `MaxKeys`, `MaxPrograms`, `MaxChunk`, `MaxBytes`, `MaxReceived`,
`MaxOpens`, `MaxResets`, `MaxChanges`, `MaxCalls`, `Sizes`, `MaxTicks`, `MaxTrials`, `MaxRead`,
`MaxSeen`, `MaxAfter`, `GameTicks`, `Seconds`, `MaxMinutes`, `MaxText`. Where a run
says `CHECK_DEADLOCK FALSE` the system ends (a game, a program, a routine) or the
model stops at one of these bounds.

### Fairness

- `Rtc`: the device interrupts for ever, and a process in `rtc_read` gets on
  between interrupts. The chip is periodic and there is nothing else to run.
- `Keyboard`: the process in `keyboard_get_key` gets on; keys owe nothing.
- `Interrupts`: the processor never stops in the kernel; it takes an interrupt
  that is deliverable again and again (the hardware takes it at the next
  instruction boundary); `kernel_main` is not starved while it boots. For the
  clock the property assumes a keyboard that pauses: pin 1 comes before the slave's.
- `TuxTransmit`: an ioctl's steps and the serial driver's interrupt. The drivers:
  the handler takes packets that came, the controller answers, a program goes on.
- `FrameProgram`: the program's steps and the clock. `BlinkList` asks for none: that
  its nodes go on is counted in ticks.
- `MazeGame`, `GameThreads`: weak fairness of each thread, which the operating
  system's scheduler gives. Keys and buttons owe nothing.
- `GameButtons`: strong fairness of the two threads that take the mutex again and
  again, since either may find it taken whenever it is scheduled; weak of the others.
- `MakeMaze`: the second phase ends whatever `random()` says; the worms of the first end
  only with probability one and are not asked to.
- Everything else is safety.

### What the violations say

1. `process.c:224`: `tss.esp0` is set to the parent's stack pointer as it was
   inside `create_process`, so each program run costs its parent a part of its
   kernel stack for good.
2. `process.c:217`: `is_vidmapped` belongs to a slot and is never cleared, and
   the page has one entry, so a halting child unmaps its parent's.
3. `fs.c:355`: the loop index already counts from the first block, which is
   added once more.
4. `rtc.c:163`: with a full table the number of the descriptor is what the stack holds.
5. The shell cuts its line at the newline, and the parser skips one place after
   the name whether or not that is the terminator.

### Met while modelling, and stated exactly in passing properties or hazards

Kernel:

- `rtc.c:113`: the count carries a backlog over a change of rate; it stays
  bounded (`CounterBounded`), and `SteadyRate` holds at an unchanged rate.
- `keyboard.c:154`: a press between the clearing of the flag and the fetch is
  returned twice; `TwiceAtMost` says never a third time.
- `handlers.S:73`: `device_not_available` lacks the `cli` of its neighbours, so
  its number may be replaced; `ExceptionNumber` says it is the only one. Its
  program is ended all the same, without the message.
- `rtc.c:163`: `fd` is read uninitialised when no descriptor is free, and may be any
  int. -1 fails the open, a number of the table takes that descriptor over, and any other
  (`UninitFd` has one) is a write outside the table: `outside` is set and the behaviour
  ends, so what `Process` and its theorems say holds until then.
- `is_vidmapped` is a slot's: a shell that is started again in the root's slot has the
  screen mapped though it never called `vidmap`. `VidPageOwned` and `OwnMemory` speak of
  slots that are flagged and not of programs that called.
- `fs.c:331`: `offset+length` is a `uint32_t`. A negative count wraps: if it comes out
  before the offset the check for the end lets it through, and `file_read` copies two parts
  of the file and moves the position by both, past the end too, or one `memcpy` runs until
  it faults and the program is ended. `lost` holds the descriptors this has happened to, and
  `FilePosInFile` and `NextReadExact` speak of the others.
- `process.c:24`: a status from 128 on comes back negative. `fs.c:237`:
  `directory_close` frees the descriptor and reports failure.
- `lib.c:584`, `lib.c:590`: backspace at the origin, and beside the interrupt's echo.
- `memmove` leaves the direction flag set going down (nobody calls it);
  `memcpy` is right when areas are disjoint or the destination comes first;
  `getargs` writes one byte more than asked when arguments are as long;
  a format that ends in `%` is read past its end and is no input of the model.
- Without a multiboot module the file system's address is 0 and the first shell
  faults and starts again for ever.
- `fs.c:167`: `directory_read` moves on by as many bytes as its caller asked for, so
  `cat .` (1024) shows one name of 32, and a count below 32 gives a name again.
  `ImplementsStreams` promises every name in turn to those who read by a name's size, as
  `ls` and `grep` do; from the first read by another count on the stream is `Lost`.
- `UserPrograms`: `set_handler` always fails, so `sigtest` ends by its
  own fault, and `exceptions.c:117` halts it with 0: the shell's message for a program that
  was ended by an exception (`ece391shell.c:30`, for 256) never comes. The kernel hands a program everything behind the first blank, Linux its
  words joined by one; there a newline where an argument should begin ends the command, and
  `ece391_getargs` refuses arguments that fill the buffer without room for the NUL.
- `lib.c:335` says that `memset_word` sets `n` bytes; it sets `n` words.
- `grep` reads `data[BUFSIZE]` uninitialised: `PrintsMatches` is stated for stacks
  without a newline there. Lines longer than the buffer are searched in pieces.

Game and driver:

- A wakeup takes one byte more than the driver has room for (`n <= room`), and
  the room is read before the lock: `LossBounded` says one byte per wakeup, no more.
- `saved[]` survives the closing of the line, so bytes from before and behind it may make a
  packet; `ReceiveSafety` asks for packets of bytes that came, in order, while it was open.
- `tux_led_load` calls minutes what its callers give as seconds, and the other way round, so
  the time is right (`TimeShown`).
- After a reset the driver in use turns the display on and leaves it dark, though its comment says
  "start the machine and LED again" (`tuxctl-ioctl.c:89-92`): `LedsShown` allows dark then,
  and only the game's next call shows the time again. It holds for words whose LEDs are the lowest.
- ioctls "should return immediately with success if their parameters are valid"
  (`tuxctl-ioctl.c:189-199` of `ECE_391_MP2`); that driver returns `-EINVAL` while a command is
  out, and when the ring had no room, with `ack` set all the same (`Fitting`). After a reset it puts
  nothing more if the first put fails. `AckSafety` says when it refuses, not that it shows the last word.
- `keyboard_thread` tests `winner` without the lock; stdin does not block, so it
  still ends. An escape sequence cut in two by a poll is taken as other keys.
- `CaptionGame`: a fruit at the first block leaves a ghost at the start
  (`TracesCovered` names exactly this one), and its caption is of a text that was never written.
  A caption whose three seconds are over when it is first taken off stays on the screen until the
  player's next step (`overdue` in `ScreenTrue`).
- `ClockedGame`: "every 32 interrupts" (`mazegame.c:539`) is 33 reads of the clock, and a read that
  tells of several interrupts counts once, so the time falls behind; `StatusTrue` asserts the reads.
  The bar's fruits are stale while the player stands.
- `FirstGame`: the player's trail is never removed, columns are not drawn.
- `ViewWindow`: the caption's bar is never taken off; blocks unveiled in the last
  move show with the next; two ticks at once leave a trail. The page copy moves more
  bytes than are displayed, and no two pages overlap.
- `VgaRegisters`: no wait for the retrace in `show_screen`: `PagesApart` holds once
  a retrace has come since the flip. Text mode is left with the font's `seq[4]`.
- `GameButtons`: a press is lost when the next poll, of a released button or another, replaces it
  before the thread runs; `NewestKept` claims the newest only. `GameThreads`: when the mode cannot be
  set `main` returns with the terminal raw (`mazegame.c:911-914`); "you lose" is never printed.
- `InputCommands`: `shutdown_input` "restores original terminal settings" (`input.c:186-192`), but
  restores zeros when `init_input` had failed, a result `main` does not look at. In both programs
  stdin never blocks again. `EndsSafely` claims neither.

Blink:

- `mp1.S:223`: the failing path of `RTC_FIND` runs on into `RTC_SYNC` with a frame that is
  not its own, and in the kernel every find fails, since `mp1_copy_from_user` is given the
  kernel's node to copy from; an add outside the screen frees a node it linked. Both are
  undefined from there on: the model ends such a behaviour. Remove tests 16 bits of the
  node's address for NULL.
- `mp1.S:267`: a tick between the loads and stores of `RTC_SYNC` leaves the two nodes out of
  step for good. `InStep` and `BlinkTogether` claim it of those that no tick came into.
- `blink.S:282`: after `RTC_SYNC` the cell shows the node's character for off, on or
  not, until its next phase; `FishShows` says so.
- `add_frames` closes an ended file again for every later row. A line longer than the
  screen meets the next row and is no input of the model.

## 4. Proofs

`tlapm` proves the following for every value of the constants, under the
assumptions named in the modules. Each safety proof has the same shape: an
invariant that says why the property holds, that the initial states satisfy it, one
lemma per action that keeps it, and that it implies the property.

| module | of | theorem | hypothesis |
|---|---|---|---|
| `Process` | `Process` | `RunningContext`, `ReturnPath`, `SuspendedFrozen`, `VidPageOwned`, `WellFormed`, `ImplementsStack` | `StackFits` |
| `Memory`, `MCServices` | `Memory` | `MemorySafety` | `Placed` |
| `MCServices` | `FileSystem` | `FilePosInFile` | |
| | | `NextReadExact` | `OtherBlocks` |
| | | `ImplementsStreams` | `ReadsByBlock` |
| `MCConsole` | `Keyboard` | types, `ModifiersFollowKeys`, `FlagMeansKey`, `TypedAsHeld`, `TwiceAtMost` | |
| | `Terminal` | `LineSafety` | `LineAssumption` |
| | `Screen` | `CursorInBounds`, `TextSafety` | `HasSize` |
| `MCSleepers` | `Rtc` | `CounterBounded`, `SteadyRate` | |
| | `Interrupts`, `GameButtons` | `HandedOver` (`EntrySafety`, `NewestKept`) | `ExceptionsExist` |
| `MCTux` | `TuxTransmit` | `SendSafety`, `LossBounded` | |
| | `TuxCurrent`, `TuxPoll`, `TuxAck` | `DriverSafety` | `TimesAssumption` |
| `MCMazeGame` | `MazeGame` | `PlayerSafety`, `WinsEarned` | `Proportions`, `MazesGood` |
| | `GameThreads`, `InputCommands` | `EndsSafely` | `Counted` |
| `MCViewWindow` | `ViewWindow`, `TextBar` | `DrawnRight` (`ViewSafety`, `TextShown`) | `ViewAssumption`, `TextAssumption` |
| | `ViewWindow` | `KeepsPicture` | `ViewAssumption` |

- **`Process`**. That the stack pointer finds the running process's PCB needs
  the frames each process was entered with, that each live slot has a return
  address needs that the slot *above* the running one was written, and both need
  the types. `StackFits` (`MaxDepth + 1 < StackFrames`) says that a process runs
  fewer programs than its kernel stack has frames; without it the theorems are
  false, which is what `process_stack_leak` shows. `WellFormed` adds that the
  operations table of a used descriptor has every entry that can be called.
  `ImplementsStack` goes action by action: execute is a push, halt and the
  faults that end a program are pops, `open` and `close` change the top's
  descriptors, and whatever fails changes nothing.
- **`FileSystem`**. `CopiedIsLength`: whatever blocks a range begins and ends
  in, the three parts of `read_data` add up to the length asked for after the
  cut. It is nonlinear in the block size and rests on the division theorem for
  both ends. `NextReadExact` says which reads return the file's own bytes, and
  that all others do not: `OtherBlocks` (where `read_data` looks for a middle block
  it finds another one) is only there so that a wrong block is a wrong byte.
  Every one of them holds for counts that wrap, of the descriptors that are not `lost`:
  `ClipStays` and `NoWrap` say that what does not wrap is arithmetic on naturals, and
  `NoMiddle` that a count of at least minus a block that wraps all the way starts in the first block.
  `ImplementsStreams` holds for counts of at most a block (`ReadsByBlock`); beyond them it is
  false, as `filesystem_middle_blocks` shows.
- **`Memory`**. `IInv` is what the tables are once made, which frame is mapped
  at every step of execute, halt and a fault, which process's `vidmap` the video
  page answers to, that each translation kept is the table's unless the step
  is one between a write to a table and the load of `CR3` behind it, whose
  image each frame holds, and how far the descriptors and gates have been
  written. `Placed` says where the linker and the boot code put the two tables.
- **`Interrupts`**. The invariant is over the stack of frames: which may stand
  on which, what flag each saved and will restore, what `irq_vector` holds
  between its two uses, which pin is in service. `ExceptionsExist` says that
  the exceptions named are vectors of the table.
- **`Rtc`**. An invariant ties the count to the interrupts since the last hit.
  Periods are hidden behind an operator so that arithmetic stays linear.
- **`Keyboard`**. `TwiceAtMost` needs the reader's place and how often each
  press was returned.
- **`Screen`**. Between two uses of `screen_y` in `putc` the screen may be cleared;
  `TextBefore` says what is blank at each of its steps.
- **`TuxTransmit`**. `SendInv` accounts for every byte that was put: it is on the wire, in the
  driver, in the hands of a wakeup, in the ring, or lost, and in this order unless one wakeup
  overtook another. A ring that
  is not empty is one that somebody will look at (`TakerInv`): a step of `put` that is still to
  come, or an interrupt of the driver. Wherever a wakeup stands, the room it was
  told bounds what it takes (`WriteInv`), which gives `LossBounded`.
- **The drivers**. Each invariant says what may be on the line in both directions and
  what holds once it has been taken. `CurrentInv`: the last event on its way
  says what was reported, the last LED command is that of the word saved, and a controller
  that was reset has told so or is about to be set up. `PollInv` adds where the two packets of an
  answer stand among the others (`AnswerAt`), and what the program has read when the first or both
  were taken. `AckInv` counts: commands, acknowledgements and what a told reset will
  put are no more than two for each start and three for each reset, and one for a
  call; so a call whose flag says no waits for something that comes. That the LEDs show
  a time takes the base of times (`TimesAssumption`: seconds are naturals).
- **`MazeGame`**. Where the player is relative to the block lattice at each step of
  the timer thread's loop, with the move it has chosen and not yet made, what
  has been unveiled around it, and that the view follows it. `Proportions` are
  facts that the real numbers have (blocks of 12 pixels, a view of 320 by 182, of
  which mazes are no smaller); `MazesGood` is what `make_maze`
  promises, which `MazeSafety` checks of `MakeMaze`.
- **`GameThreads`**, **`InputCommands`**. `ThreadsInv` says what `main` has done before it creates
  a thread, what a thread that is over leaves, and which level the clock's thread was in when it left
  its loop; `InputInv` says what the part of an escape sequence already read stands for.
- **`ViewWindow`**. The lemmas come first: which byte of the four planes is which pixel's, that two
  pixels of a view never share one, that the view's place in the buffer moves with its corner or is in
  the middle again, and that a line, a block and a copied view write the bytes of their pixels and no
  others. `ViewInv` is then about pixels only: the view fits into the buffer, the player is in it, and as long
  as no tick was missed the picture is the map, but for the player, whose ground is kept. `ViewAssumption`
  are the proportions of 320 by 182 pixels and blocks of 12, and captions that leave the player's rows.
  `KeepsPicture` needs `PictureInv`, which no longer asks what a pixel shows but that it is at its place
  (`PlacesOwn`, also of the ground kept), whatever ticks were missed, and that the hidden page has the
  planes copied so far (`PlanesCopied`). That the planes come out in order, though which plane of the buffer
  holds column 0 depends on the view, is `PlaneStartIs`. Each drawing action is a `Draw`, `Move` a `Scroll` or
  nothing, `NewLevel` a `Jump`, `Flip` the `Show`; copying a plane changes nothing that is seen.
- **`Terminal`**. The line as its typist sees it is a history variable, edited key by key beside the
  buffer, so that the invariant compares the two place by place. `LineSafety` is nearly inductive: it lacks
  only that the next place is at most one past the count, when that is not negative, and in `terminal_buf`
  or just after it (`InCount`), so that the parser stops. A count is compared as unsigned: a negative one is
  no bound, and with it, or with exactly 128, the next key of a full line is stored outside; the state
  `outside` is the end of what is promised. `CommandIs` says what the shell leaves in the buffer, the line and
  a NUL; behind that NUL lies what the finding `terminal_stale_args` is about, and `ArgsAfterSpace` holds
  because with a space the parser never reaches it. `LineAssumption`: a name is shorter than the buffer
  (32 and 128 bytes), the shell asks for more than the buffer holds, and no letter is a key with a meaning.
- **`TextBar`**. A byte's number is taken apart into plane, row and column (`DigitsAre`), so that each
  bit is written to one pixel's byte (`ByteIs`). `TextAssumption`: a text leaves a column of the bar free.

The hypotheses are no more than instances meet: TLC evaluates `OtherBlocks`,
`Placed`, `HasSize`, `LineAssumption`, `TimesAssumption`, `Proportions`, `MazesGood`, `Counted`, `ViewAssumption` and
`TextAssumption` as assumptions of the `MC` modules.

Only model-checked, and why:

- everything under fairness (`AllWake`, `LastKeyDelivered`, `Answered`, `InTime`,
  `AllEnds`), which is out of the prover's reach;
- what is computed by recursion over data: `LibrarySafety`,
  `ReceivedWhole` and `NoneDropped` (the callback's loop in `TuxReceive`), `MazeSafety` (`MakeMaze`'s
  reachability), `ProgramsServed` and `ProgramSafety` (texts, line by line); what these
  compute for every input takes induction;
- the rest, for which no proof has been written: `BlinkSafety` and `FishSafety` (the list is a path
  through pointers), `DisplaySafety` (it is about fixed tables of registers, of which TLC
  sees every write) and `FramesTrue` (three games, pixel by pixel).

## 5. Not modelled

- Code without state or control of its own: fonts, images and the text-mode
  contents kept over a game; formatting outside `printf`; the multiboot facts that are only printed.
- Code that nobody calls or that is compiled out: `tests.c` and debug code,
  `unmap_large`, `disable_irq`, the cleanups of `assert.c`.
- Of `ece391emulate` (the system calls on Linux, for trying programs), `vidmap`, `write` and
  `close`; its copy under `fish`; setup scripts, emulator files.
- Within modelled parts: the non-maskable interrupt and exceptions inside
  handlers (`Interrupts`); an ioctl on a line that is closed (`TuxTransmit`); a second processor
  beside a driver's spin lock, and a multi-byte command that a full ring cuts (`TuxAck`); a full ring
  under the other two drivers; NUL bytes in grep's files; what a text of an unwritten array that is longer than
  a caption writes behind it (`CaptionGame`); the right
  boundary's redraw that `maze.c:587` calls a bug (`ViewWindow`); the display adapter's
  protect bit for one overflow bit.

`PROJECT.json` lists each component with its reason.

## 6. Plan

1. Proofs: `BlinkList`'s `ListSound` (its list as a finite path), `Screen`'s order of
   lines.
2. `Kernel`: `Process` over `Interrupts`, so that a killed program's parent and
   the flag are one state; `Terminal` over `Keyboard`.
3. `MazeGame` over `TuxCurrent`, so that a press goes from the controller to the player.

The twelve runs are all in use; a new question joins the run of its component.
