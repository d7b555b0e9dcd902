---- MODULE MCSleepers ----
(* Who sleeps must be woken: every interrupt on its way in and out of the  *)
(* kernel, the clock's interrupts as rtc.c counts them for a process in    *)
(* hlt, or the game's thread that sleeps until buttons are pressed; one of *)
(* the three in each behaviour.  The clock is a device of 16 Hz, so that   *)
(* the periods are 8, 4, 2 and 1 interrupts, and the requests are on both  *)
(* sides of every test.                                                    *)
EXTENDS Rtc, Sequences, SequenceTheorems, TLAPS

CONSTANTS Exceptions, MaxPrograms, MaxTicks, MAX_LEVEL, Reads

VARIABLES
    part,
    frames, flag, irq_vector, booted, mask, request, service,
    buttons, buttons_pressed, next_dir, mtx, quit_flag, winner, level, ticks, rtc,
    keyboard, tux, taken, ended

Entry == INSTANCE Interrupts
Buttons == INSTANCE GameButtons

entryVars == <<frames, flag, irq_vector, booted, mask, request, service>>
gameVars == <<buttons, buttons_pressed, next_dir, mtx, quit_flag, winner, level, ticks, rtc,
              keyboard, tux, taken, ended>>
all == <<part, vars, entryVars, gameVars>>

SomeRequests == 0 .. 17 \cup {32}

\* The instance is one that the theorems are about.
ASSUME Entry!ExceptionsExist

MCInit ==
    /\ part \in {"clock", "entry", "game"}
    /\ Init /\ Entry!Init /\ Buttons!Init

Clock(A) == part = "clock" /\ A /\ UNCHANGED <<part, entryVars, gameVars>>
Kernel(A) == part = "entry" /\ A /\ UNCHANGED <<part, vars, gameVars>>
Game(A) == part = "game" /\ A /\ UNCHANGED <<part, vars, entryVars>>

\* A process that has ended stays so.
Stays ==
    /\ part = "game" /\ ended
    /\ UNCHANGED all

MCNext == Clock(Next) \/ Kernel(Entry!Next) \/ Game(Buttons!Next) \/ Stays

\* The fairness of Rtc, of Interrupts and of GameButtons.
MCSpec ==
    /\ MCInit /\ [][MCNext]_all
    /\ WF_all(Clock(RtcInterrupt)) /\ WF_all(Clock(OpenCount))
    /\ WF_all(Clock(Hlt)) /\ WF_all(Clock(Check))
    /\ WF_all(Kernel(Entry!Kernel)) /\ SF_all(Kernel(Entry!BootSteps))
    /\ \A irq_num \in Entry!Devices : SF_all(Kernel(Entry!Interrupt(irq_num)))
    /\ SF_all(Game(Buttons!RtcThread)) /\ SF_all(Game(Buttons!KeyboardThread))
    /\ WF_all(Game(Buttons!TuxThread)) /\ WF_all(Game(Buttons!End))

(* An interrupt comes in and goes out as it should, and a press that no    *)
(* later poll has replaced is kept for the thread that sleeps: Interrupts' *)
(* EntrySafety, which excepts what device_not_available is called for, and *)
(* GameButtons' NewestKept (handlers.S:54-198, mazegame.c:401-434).        *)
HandedOver == Entry!EntrySafety /\ Buttons!NewestKept

(* Whoever sleeps is woken: a read of the clock returns, every request of  *)
(* a device is accepted, and the game goes on and ends (rtc.c:189,         *)
(* handlers.S:240, mazegame.c:401 and 825 of originals/ECE_391_MP2).       *)
AllWake ==
    /\ ReadReturns
    /\ part = "entry" => Entry!NoneLost
    /\ Buttons!GameGoesOn

-----------------------------------------------------------------------------
(* Proofs: the way in and out of the kernel, with the invariant of         *)
(* Interrupts.                                                             *)

(* The processor is in some frame, and what is not at the bottom stands on *)
(* another.                                                                *)
LEMMA TopIs ==
    ASSUME Entry!IInv
    PROVE  /\ Len(frames) \in Nat \ {0}
           /\ Entry!Top = frames[Len(frames)]
           /\ Entry!Top \in Entry!Frames /\ Entry!FrameOK(Entry!Top)
           /\ \A k \in 1 .. Len(frames) : frames[k] \in Entry!Frames
           /\ Entry!Top.kind \notin {"kernel", "program"} => Len(frames) > 1
           /\ Entry!Top.kind = "kernel" => Len(frames) = 1
           /\ Len(frames) > 1 => Entry!StandsOn(frames[Len(frames) - 1], Entry!Top)
<1>1. frames \in Seq(Entry!Frames) /\ Len(frames) \in Nat \ {0}
    BY DEF Entry!IInv, Entry!TypeOK, Entry!Stacked
<1>2. \A k \in 1 .. Len(frames) : frames[k] \in Entry!Frames
    BY <1>1, ElementOfSeq
<1>3. Entry!Top = frames[Len(frames)] /\ Len(frames) \in 1 .. Len(frames)
    BY <1>1 DEF Entry!Top, Entry!Last
<1>4. Len(frames) > 1 => Entry!StandsOn(frames[Len(frames) - 1], Entry!Top)
    BY <1>1, <1>3 DEF Entry!IInv, Entry!Stacked
<1>5. Entry!Top.kind = "kernel" => ~(Len(frames) > 1)
    BY <1>4 DEF Entry!StandsOn
<1>6. Len(frames) = 1 => Entry!Top.kind \in {"kernel", "program"}
    BY <1>3 DEF Entry!IInv, Entry!Stacked
<1>7. Entry!FrameOK(Entry!Top) /\ Entry!Top \in Entry!Frames
    BY <1>2, <1>3 DEF Entry!IInv, Entry!Stacked
<1> DEFINE n == Len(frames)
<1>8. n \in Nat \ {0} /\ (Entry!Top.kind = "kernel" => ~(n > 1))
   /\ (n = 1 => Entry!Top.kind \in {"kernel", "program"})
    BY <1>1, <1>5, <1>6
<1> HIDE DEF n
<1>9. /\ Entry!Top.kind \notin {"kernel", "program"} => n > 1
      /\ Entry!Top.kind = "kernel" => n = 1
    BY <1>8
<1> QED
    BY <1>1, <1>2, <1>3, <1>4, <1>7, <1>9 DEF n

(* The frames below the innermost one.                                     *)
LEMMA BelowIs ==
    ASSUME Entry!IInv
    PROVE  /\ Entry!Below \in Seq(Entry!Frames)
           /\ Len(Entry!Below) = Len(frames) - 1
           /\ \A k \in 1 .. Len(frames) - 1 : Entry!Below[k] = frames[k]
<1>1. Len(frames) \in Nat \ {0} /\ \A k \in 1 .. Len(frames) - 1 : frames[k] \in Entry!Frames
    BY TopIs
<1>2. /\ Entry!Below \in Seq(Entry!Frames)
      /\ Len(Entry!Below) = IF 1 <= Len(frames) - 1 THEN (Len(frames) - 1) - 1 + 1 ELSE 0
      /\ \A k \in 1 .. (Len(frames) - 1) - 1 + 1 : Entry!Below[k] = frames[1 + k - 1]
    BY <1>1, SubSeqProperties DEF Entry!Below, Entry!Front
<1> DEFINE n == Len(frames) - 1
<1>3. /\ n \in Nat
      /\ Len(Entry!Below) = IF 1 <= n THEN n - 1 + 1 ELSE 0
      /\ \A k \in 1 .. n - 1 + 1 : Entry!Below[k] = frames[1 + k - 1]
    BY <1>1, <1>2
<1> HIDE DEF n
<1>4. Len(Entry!Below) = n /\ \A k \in 1 .. n : Entry!Below[k] = frames[k]
    BY <1>3
<1> QED
    BY <1>2, <1>4 DEF n

(* The invariant, read off a stack: what each action has to show.          *)
LEMMA Restacked ==
    ASSUME frames' \in Seq(Entry!Frames), Entry!RegistersOK',
           NEW n, n = Len(frames'), n > 0,
           \A k \in 1 .. n : Entry!FrameOK(frames'[k]) /\ Entry!VectorOK(irq_vector', frames'[k]),
           \A k \in 2 .. n : Entry!StandsOn(frames'[k - 1], frames'[k]),
           frames'[1].kind \in {"kernel", "program"},
           Entry!FlagOK(flag', frames'[n]), Entry!ServiceOK(service', frames'[n])
    PROVE  Entry!IInv'
<1>1. Entry!Top' = frames'[n]
    BY DEF Entry!Top, Entry!Last
<1> QED
    BY <1>1 DEF Entry!IInv, Entry!TypeOK, Entry!Stacked

(* The innermost frame goes on, or gives way to another.                   *)
LEMMA Replaced ==
    ASSUME Entry!IInv, NEW f \in Entry!Frames, frames' = Append(Entry!Below, f), Entry!RegistersOK',
           Entry!FrameOK(f), Entry!VectorOK(irq_vector', f),
           Entry!FlagOK(flag', f), Entry!ServiceOK(service', f),
           Len(frames) = 1 => f.kind \in {"kernel", "program"},
           Len(frames) > 1 => Entry!StandsOn(frames[Len(frames) - 1], f),
           \A k \in 1 .. Len(frames) - 1 : Entry!VectorOK(irq_vector', frames[k])
    PROVE  Entry!IInv'
<1> DEFINE n == Len(frames)
<1>1. n \in Nat \ {0}
    BY TopIs
<1>2. /\ frames' \in Seq(Entry!Frames) /\ Len(frames') = n
      /\ \A k \in 1 .. n - 1 : frames'[k] = frames[k]
      /\ frames'[n] = f
    BY <1>1, BelowIs, AppendProperties
<1>3. \A k \in 1 .. n : Entry!FrameOK(frames[k])
    BY DEF Entry!IInv, Entry!Stacked
<1>4. \A k \in 2 .. n : Entry!StandsOn(frames[k - 1], frames[k])
    BY DEF Entry!IInv, Entry!Stacked
<1>5. frames[1].kind \in {"kernel", "program"}
    BY DEF Entry!IInv, Entry!Stacked
<1> HIDE DEF n
<1>6. \A k \in 1 .. n : Entry!FrameOK(frames'[k]) /\ Entry!VectorOK(irq_vector', frames'[k])
    BY <1>1, <1>2, <1>3 DEF n
<1>7. \A k \in 2 .. n : Entry!StandsOn(frames'[k - 1], frames'[k])
    <2> SUFFICES ASSUME NEW k \in 2 .. n PROVE Entry!StandsOn(frames'[k - 1], frames'[k])
        OBVIOUS
    <2>1. CASE k = n
        BY <2>1, <1>1, <1>2 DEF n
    <2>2. CASE k < n
        BY <2>2, <1>1, <1>2, <1>4
    <2>3. k = n \/ k < n
        BY <1>1
    <2> QED
        BY <2>1, <2>2, <2>3
<1>8. frames'[1].kind \in {"kernel", "program"}
    <2>1. CASE n = 1
        BY <2>1, <1>2 DEF n
    <2>2. CASE n > 1
        BY <2>2, <1>1, <1>2, <1>5
    <2> QED
        BY <2>1, <2>2, <1>1
<1> QED
    BY <1>1, <1>2, <1>6, <1>7, <1>8, Restacked

(* Another frame is entered from the innermost one, which may have moved.  *)
LEMMA Pushed ==
    ASSUME Entry!IInv, NEW g \in Entry!Frames, NEW f \in Entry!Frames,
           \/ frames' = Append(Append(Entry!Below, g), f)
           \/ frames' = Append(frames, f) /\ g = Entry!Top,
           Entry!RegistersOK', g.kind = Entry!Top.kind,
           Entry!FrameOK(g), Entry!VectorOK(irq_vector', g),
           Entry!FrameOK(f), Entry!VectorOK(irq_vector', f),
           Entry!FlagOK(flag', f), Entry!ServiceOK(service', f),
           Len(frames) > 1 => Entry!StandsOn(frames[Len(frames) - 1], g),
           Entry!StandsOn(g, f), irq_vector' = irq_vector
    PROVE  Entry!IInv'
<1> DEFINE n == Len(frames)
<1>1. n \in Nat \ {0} /\ Entry!Top = frames[n] /\ frames \in Seq(Entry!Frames)
    BY TopIs DEF Entry!IInv, Entry!TypeOK
<1>2. /\ frames' \in Seq(Entry!Frames) /\ Len(frames') = n + 1
      /\ \A k \in 1 .. n - 1 : frames'[k] = frames[k]
      /\ frames'[n] = g /\ frames'[n + 1] = f
    <2>1. CASE frames' = Append(Append(Entry!Below, g), f)
        <3> DEFINE s == Append(Entry!Below, g)
        <3>1. /\ s \in Seq(Entry!Frames) /\ Len(s) = n
              /\ \A k \in 1 .. n - 1 : s[k] = frames[k]
              /\ s[n] = g
            BY <1>1, BelowIs, AppendProperties
        <3> HIDE DEF s, n
        <3>2. /\ frames' \in Seq(Entry!Frames) /\ Len(frames') = n + 1
              /\ \A k \in 1 .. n : frames'[k] = s[k]
              /\ frames'[n + 1] = f
            BY <2>1, <3>1, AppendProperties DEF s
        <3> QED
            BY <1>1, <3>1, <3>2
    <2>2. CASE frames' = Append(frames, f) /\ g = Entry!Top
        <3>1. /\ frames' \in Seq(Entry!Frames) /\ Len(frames') = n + 1
              /\ \A k \in 1 .. n : frames'[k] = frames[k]
              /\ frames'[n + 1] = f
            BY <2>2, <1>1, AppendProperties
        <3> QED
            BY <1>1, <2>2, <3>1
    <2> QED
        BY <2>1, <2>2
<1>3. \A k \in 1 .. n : Entry!FrameOK(frames[k]) /\ Entry!VectorOK(irq_vector', frames[k])
    BY DEF Entry!IInv, Entry!Stacked
<1>4. \A k \in 2 .. n : Entry!StandsOn(frames[k - 1], frames[k])
    BY DEF Entry!IInv, Entry!Stacked
<1>5. frames[1].kind \in {"kernel", "program"}
    BY DEF Entry!IInv, Entry!Stacked
<1>6. n > 1 => Entry!StandsOn(frames[n - 1], g)
    OBVIOUS
<1> HIDE DEF n
<1>7. \A k \in 1 .. n + 1 : Entry!FrameOK(frames'[k]) /\ Entry!VectorOK(irq_vector', frames'[k])
    <2> SUFFICES ASSUME NEW k \in 1 .. n + 1
                 PROVE  Entry!FrameOK(frames'[k]) /\ Entry!VectorOK(irq_vector', frames'[k])
        OBVIOUS
    <2>1. k \in 1 .. n - 1 \/ k = n \/ k = n + 1
        BY <1>1
    <2> QED
        BY <2>1, <1>1, <1>2, <1>3
<1>8. \A k \in 2 .. n + 1 : Entry!StandsOn(frames'[k - 1], frames'[k])
    <2> SUFFICES ASSUME NEW k \in 2 .. n + 1 PROVE Entry!StandsOn(frames'[k - 1], frames'[k])
        OBVIOUS
    <2>1. CASE k = n + 1
        BY <2>1, <1>1, <1>2
    <2>2. CASE k = n
        BY <2>2, <1>1, <1>2, <1>6
    <2>3. CASE k < n
        BY <2>3, <1>1, <1>2, <1>4
    <2> QED
        BY <2>1, <2>2, <2>3, <1>1
<1>9. frames'[1].kind \in {"kernel", "program"}
    <2>1. CASE n = 1
        BY <2>1, <1>1, <1>2, <1>5
    <2>2. CASE n > 1
        BY <2>2, <1>1, <1>2, <1>5
    <2> QED
        BY <2>1, <2>2, <1>1
<1> QED
    BY <1>1, <1>2, <1>7, <1>8, <1>9, Restacked

(* Frames are left, down to frame n.                                       *)
LEMMA Left ==
    ASSUME Entry!IInv, NEW n \in 1 .. Len(frames), frames' = SubSeq(frames, 1, n), Entry!RegistersOK',
           irq_vector' = irq_vector,
           Entry!FlagOK(flag', frames[n]), Entry!ServiceOK(service', frames[n])
    PROVE  Entry!IInv'
<1>1. n \in Nat \ {0} /\ \A k \in 1 .. n : frames[k] \in Entry!Frames
    BY TopIs
<1>2. /\ frames' \in Seq(Entry!Frames)
      /\ Len(frames') = IF 1 <= n THEN n - 1 + 1 ELSE 0
      /\ \A k \in 1 .. n - 1 + 1 : frames'[k] = frames[1 + k - 1]
    BY <1>1, SubSeqProperties
<1>3. Len(frames') = n /\ \A k \in 1 .. n : frames'[k] = frames[k]
    BY <1>1, <1>2
<1>4. \A k \in 1 .. n : Entry!FrameOK(frames[k]) /\ Entry!VectorOK(irq_vector', frames[k])
    BY DEF Entry!IInv, Entry!Stacked
<1>5. \A k \in 2 .. n : Entry!StandsOn(frames[k - 1], frames[k])
    BY DEF Entry!IInv, Entry!Stacked
<1>6. frames[1].kind \in {"kernel", "program"}
    BY DEF Entry!IInv, Entry!Stacked
<1> QED
    BY <1>1, <1>2, <1>3, <1>4, <1>5, <1>6, Restacked

(* What the invariant says of the innermost frame.                         *)
LEMMA TopInv ==
    ASSUME Entry!IInv
    PROVE  /\ Entry!Top \in Entry!Frames /\ Entry!FrameOK(Entry!Top)
           /\ Entry!FlagOK(flag, Entry!Top) /\ Entry!VectorOK(irq_vector, Entry!Top)
              /\ Entry!ServiceOK(service, Entry!Top)
           /\ Entry!Top.kind # "irq" => service = {}
           /\ Entry!RegistersOK
<1>1. Len(frames) \in 1 .. Len(frames)
    BY TopIs
<1>2. Entry!VectorOK(irq_vector, Entry!Top)
    BY <1>1, TopIs DEF Entry!IInv
<1> QED
    BY <1>2, TopIs DEF Entry!IInv, Entry!TypeOK, Entry!ServiceOK

(* The frames stay, and so does what the stubs find.                       *)
LEMMA Rests ==
    ASSUME Entry!IInv, UNCHANGED <<frames, irq_vector>>, Entry!RegistersOK',
           Entry!FlagOK(flag', Entry!Top), Entry!ServiceOK(service', Entry!Top)
    PROVE  Entry!IInv'
BY DEF Entry!IInv, Entry!TypeOK, Entry!Stacked, Entry!Top

(* The innermost frame goes on with its next step.                         *)
LEMMA GoesOn ==
    ASSUME Entry!IInv, NEW f \in Entry!Frames, frames' = Append(Entry!Below, f), Entry!RegistersOK',
           f.kind = Entry!Top.kind, irq_vector' = irq_vector,
           Entry!FrameOK(f), Entry!VectorOK(irq_vector', f),
           Entry!FlagOK(flag', f), Entry!ServiceOK(service', f)
    PROVE  Entry!IInv'
<1>1. Len(frames) = 1 => f.kind \in {"kernel", "program"}
    BY TopIs DEF Entry!IInv, Entry!Stacked
<1>2. Len(frames) > 1 => Entry!StandsOn(frames[Len(frames) - 1], f)
    BY TopIs DEF Entry!StandsOn
<1>3. \A k \in 1 .. Len(frames) - 1 : Entry!VectorOK(irq_vector', frames[k])
    BY TopIs DEF Entry!IInv
<1> QED
    BY <1>1, <1>2, <1>3, Replaced

(* The frame below the innermost one is the one that is left to.           *)
LEMMA Leaves ==
    ASSUME Entry!IInv, frames' = Entry!Below, Entry!Top.kind \notin {"kernel", "program"}, Entry!RegistersOK',
           irq_vector' = irq_vector, service' = {},
           Entry!FlagOK(flag', frames[Len(frames) - 1])
    PROVE  Entry!IInv'
<1>1. Len(frames) - 1 \in 1 .. Len(frames)
    BY TopIs
<1>2. Entry!ServiceOK(service', frames[Len(frames) - 1])
    BY DEF Entry!ServiceOK
<1> QED
    BY <1>1, <1>2, Left DEF Entry!Below, Entry!Front

(* A program ends, whatever runs in it: what goes on is the call that      *)
(* executed it, which waits for nothing more, or a new shell.              *)
LEMMA EndedInv ==
    ASSUME Entry!IInv, Entry!Top.kind # "irq", Entry!Ended, UNCHANGED <<irq_vector, booted, Entry!pics>>
    PROVE  Entry!IInv'
<1>1. PICK own \in Entry!Programs :
        IF own = 1 THEN Entry!Entered(<< >>) ELSE frames' = SubSeq(frames, 1, own - 1) /\ UNCHANGED flag
    BY DEF Entry!Ended
<1>2. own \in 1 .. Len(frames) /\ frames[own].kind = "program" /\ Len(frames) \in Nat
    BY TopIs DEF Entry!Programs, Entry!IInv, Entry!TypeOK
<1>3. service' = {} /\ service' = service
    BY TopInv DEF Entry!pics
<1>4. CASE own = 1
    <2>1. frames' = Append(<< >>, Entry!Program) /\ flag' = 1
        BY <1>1, <1>4 DEF Entry!Entered
    <2>2. Entry!Program \in Entry!Frames /\ Entry!FrameOK(Entry!Program)
       /\ Entry!VectorOK(irq_vector', Entry!Program)
          /\ Entry!FlagOK(flag', Entry!Program) /\ Entry!ServiceOK(service', Entry!Program)
             /\ Entry!Program.kind = "program"
        BY <2>1, <1>3 DEF Entry!Program, Entry!Frames, Entry!FrameOK, Entry!VectorOK, Entry!FlagOK,
           Entry!ServiceOK, Entry!RTC
    <2> HIDE DEF Entry!Program
    <2>3. frames' \in Seq(Entry!Frames) /\ Len(frames') = 1 /\ frames'[1] = Entry!Program
        <3>1. << >> \in Seq(Entry!Frames) /\ Len(<< >>) = 0
            OBVIOUS
        <3> QED
            BY <2>1, <2>2, <3>1, AppendProperties
    <2>4. Entry!RegistersOK'
        BY <2>1, TopInv DEF Entry!RegistersOK, Entry!pics
    <2>5. \A k \in 1 .. 1 : Entry!FrameOK(frames'[k]) /\ Entry!VectorOK(irq_vector', frames'[k])
        BY <2>2, <2>3
    <2> QED
        BY <2>2, <2>3, <2>4, <2>5, Restacked
<1>5. CASE own # 1
    <2> DEFINE n == own - 1
    <2>1. frames' = SubSeq(frames, 1, n) /\ flag' = flag
        BY <1>1, <1>5
    <2>2. n \in 1 .. Len(frames) /\ own \in 2 .. Len(frames)
        BY <1>2, <1>5
    <2>3. Entry!StandsOn(frames[n], frames[own])
        BY <2>2 DEF Entry!IInv, Entry!Stacked
    <2>4. frames[n].kind = "call" /\ frames[n].step = "done"
        BY <1>2, <2>3 DEF Entry!StandsOn
    <2>5. Entry!FlagOK(flag', frames[n]) /\ Entry!ServiceOK(service', frames[n])
        BY <1>3, <2>4 DEF Entry!FlagOK, Entry!ServiceOK
    <2>6. Entry!RegistersOK' /\ irq_vector' = irq_vector
        BY <2>1, TopInv DEF Entry!RegistersOK, Entry!pics
    <2> HIDE DEF n
    <2> QED
        BY <2>1, <2>2, <2>5, <2>6, Left
<1> QED
    BY <1>4, <1>5

(* A stub's number goes through irq_vector: only the stub of               *)
(* device_not_available can be overtaken between its two uses of it.       *)
LEMMA SaveVectorInv ==
    ASSUME Entry!IInv, Entry!SaveVector
    PROVE  Entry!IInv'
<1> DEFINE f == [Entry!Top EXCEPT !.step = "load"]
           n == Len(frames)
<1>1. /\ frames' = Append(Entry!Below, f) /\ irq_vector' = Entry!Code /\ UNCHANGED <<flag, booted, Entry!pics>>
      /\ Entry!Top.step = "save"
    BY DEF Entry!SaveVector, Entry!Goto
<1>2. Entry!Top \in Entry!Frames /\ Entry!FrameOK(Entry!Top) /\ Entry!Top.kind \in {"exception", "irq"}
    BY <1>1, TopInv DEF Entry!FrameOK, Entry!Frames
<1>3. f \in Entry!Frames /\ f.kind = Entry!Top.kind /\ f.n = Entry!Top.n /\ f.step = "load"
   /\ f.flags = Entry!Top.flags
    BY <1>2 DEF Entry!Frames
<1> HIDE DEF f
<1>4. Entry!Code \in -Entry!RTC .. 19 /\ (Entry!Top.kind = "irq" => Entry!Code = -Entry!Top.n
   /\ -Entry!Code \in Entry!Devices)
        /\ (Entry!Top.kind = "exception" => Entry!Code = Entry!Top.n)
    BY <1>2 DEF Entry!Code, Entry!Frames, Entry!FrameOK, Entry!Devices, Entry!RTC, Entry!KEYB
<1>5. Entry!RegistersOK'
    BY <1>1, <1>4, TopInv DEF Entry!RegistersOK, Entry!pics
<1>6. Entry!FrameOK(f) /\ Entry!VectorOK(irq_vector', f)
    BY <1>1, <1>2, <1>3, <1>4 DEF Entry!FrameOK, Entry!VectorOK, Entry!Finds
<1>7. Entry!FlagOK(flag', f) /\ Entry!ServiceOK(service', f)
    BY <1>1, <1>2, <1>3, TopInv DEF Entry!FlagOK, Entry!ServiceOK, Entry!pics
<1>8. n \in Nat /\ n > 1 /\ Entry!Top = frames[n] /\ Entry!StandsOn(frames[n - 1], Entry!Top)
    BY <1>2, TopIs
<1>9. Entry!StandsOn(frames[n - 1], f)
    BY <1>3, <1>8 DEF Entry!StandsOn
<1>10. \A k \in 1 .. n - 1 : Entry!VectorOK(irq_vector', frames[k])
    <2> SUFFICES ASSUME NEW k \in 1 .. n - 1 PROVE Entry!VectorOK(irq_vector', frames[k])
        OBVIOUS
    <2> DEFINE g == frames[k + 1]
    <2>1. Entry!StandsOn(frames[k], g)
        <3>1. k + 1 \in 2 .. n /\ (k + 1) - 1 = k
            BY <1>8
        <3> QED
            BY <3>1 DEF Entry!IInv, Entry!Stacked
    <2>2. g.kind \in {"kernel", "program", "call", "exception", "irq"}
        <3>1. k + 1 \in 1 .. n
            BY <1>8
        <3>2. g \in Entry!Frames
            BY <3>1, TopIs
        <3> QED
            BY <3>2 DEF Entry!Frames
    <2>3. CASE frames[k].kind = "exception" /\ frames[k].step = "load"
        <3>1. g.kind = "irq" /\ frames[k].n = Entry!DEVICE_NA
            BY <2>1, <2>2, <2>3 DEF Entry!StandsOn
        <3>2. k + 1 = n
            <4> SUFFICES ASSUME k + 1 # n PROVE FALSE
                OBVIOUS
            <4>1. k + 2 \in 2 .. n /\ (k + 2) - 1 = k + 1
                BY <1>8
            <4>2. Entry!StandsOn(g, frames[k + 2])
                BY <4>1 DEF Entry!IInv, Entry!Stacked
            <4> QED
                BY <3>1, <4>2 DEF Entry!StandsOn
        <3>3. -irq_vector' \in Entry!Devices
            BY <1>1, <1>4, <1>8, <3>1, <3>2
        <3> QED
            BY <2>3, <3>1, <3>3 DEF Entry!VectorOK, Entry!Finds
    <2>4. frames[k].kind # "irq"
        BY <2>1 DEF Entry!StandsOn
    <2> QED
        BY <2>3, <2>4 DEF Entry!VectorOK
<1>11. Len(frames) = 1 => f.kind \in {"kernel", "program"}
    BY <1>8
<1> QED
    BY <1>1, <1>3, <1>5, <1>6, <1>7, <1>8, <1>9, <1>10, <1>11, Replaced

(* An interrupt is accepted with the flag set, and clears it: so it is     *)
(* never on another one, nor on the stub of an exception that cleared it.  *)
LEMMA AcceptInv ==
    ASSUME Entry!IInv, NEW irq_num \in Entry!Devices, Entry!Interrupt(irq_num)
    PROVE  Entry!IInv'
<1> DEFINE woken == IF Entry!Top.step = "wait" THEN [Entry!Top EXCEPT !.step = "body"] ELSE Entry!Top
           f == Entry!Frame("irq", irq_num, "save")
<1>1. /\ frames' = Append(Append(Entry!Below, woken), f) /\ flag = 1 /\ flag' = 0
      /\ request' = request \ {irq_num} /\ service' = service \cup Entry!Pins(irq_num)
      /\ UNCHANGED <<irq_vector, booted, mask>>
    BY DEF Entry!Interrupt, Entry!Gate
<1>2. /\ Entry!Top \in Entry!Frames /\ Entry!FrameOK(Entry!Top) /\ Entry!FlagOK(flag, Entry!Top)
         /\ Entry!VectorOK(irq_vector, Entry!Top)
      /\ Entry!RegistersOK
    BY TopInv
<1>3. Entry!Top.kind # "irq" /\ service = {}
    BY <1>1, <1>2, TopInv DEF Entry!FlagOK
<1>4. irq_num \in 0 .. 19 /\ Entry!Pins(irq_num) \subseteq 0 .. 15
    BY DEF Entry!Devices, Entry!KEYB, Entry!RTC, Entry!Pins, Entry!NUM_IRQS, Entry!SLAVE_PIN
<1>5. /\ f \in Entry!Frames /\ f.kind = "irq" /\ f.n = irq_num /\ f.step = "save" /\ f.flags = 1
    BY <1>1, <1>4 DEF Entry!Frame, Entry!Frames, Entry!RTC
<1>6. /\ woken \in Entry!Frames /\ woken.kind = Entry!Top.kind /\ woken.n = Entry!Top.n
         /\ woken.flags = Entry!Top.flags
      /\ woken.number = Entry!Top.number
      /\ IF Entry!Top.step = "wait" THEN woken.step = "body" ELSE woken.step = Entry!Top.step
    BY <1>2 DEF Entry!Frames
<1> HIDE DEF woken, f
<1>7. Entry!FrameOK(woken) /\ Entry!VectorOK(irq_vector', woken) /\ woken.step # "wait"
    <2>1. Entry!Top.step = "wait" => Entry!Top.kind = "call"
        BY <1>2 DEF Entry!FrameOK, Entry!Frames
    <2> QED
        BY <1>1, <1>2, <1>6, <2>1 DEF Entry!FrameOK, Entry!VectorOK
<1>8. Entry!FrameOK(f) /\ Entry!VectorOK(irq_vector', f) /\ Entry!FlagOK(flag', f) /\ Entry!ServiceOK(service', f)
    BY <1>1, <1>3, <1>5 DEF Entry!FrameOK, Entry!VectorOK, Entry!FlagOK, Entry!ServiceOK
<1>9. Entry!StandsOn(woken, f)
    BY <1>1, <1>2, <1>3, <1>5, <1>6, <1>7 DEF Entry!StandsOn, Entry!FlagOK
<1>10. Len(frames) > 1 => Entry!StandsOn(frames[Len(frames) - 1], woken)
    BY <1>6, TopIs DEF Entry!StandsOn
<1>11. Entry!RegistersOK'
    BY <1>1, <1>2, <1>3, <1>4 DEF Entry!RegistersOK
<1> QED
    BY <1>1, <1>5, <1>6, <1>7, <1>8, <1>9, <1>10, <1>11, Pushed

(* System calls: the gate and the stub, the wait, the programs they start, *)
(* and their return to a program, whose flag was set.                      *)
LEMMA CallInv ==
    ASSUME Entry!IInv, Entry!SysCall \/ Entry!SysCallBody \/ Entry!SysCallInvalid \/ Entry!Hlt \/ Entry!Return
       \/ Entry!Execute \/ Entry!Halt
    PROVE  Entry!IInv'
<1>1. /\ Entry!Top \in Entry!Frames /\ Entry!FrameOK(Entry!Top) /\ Entry!FlagOK(flag, Entry!Top)
         /\ Entry!VectorOK(irq_vector, Entry!Top)
      /\ Entry!ServiceOK(service, Entry!Top) /\ Entry!RegistersOK /\ (Entry!Top.kind # "irq" => service = {})
    BY TopInv
<1>2. CASE Entry!SysCall
    <2> DEFINE f == Entry!Frame("call", 0, "enter")
    <2>1. /\ frames' = Append(frames, f) /\ flag' = 0 /\ Entry!Top.kind = "program"
          /\ UNCHANGED <<irq_vector, booted, Entry!pics>>
        BY <1>2 DEF Entry!SysCall
    <2>2. flag = 1 /\ service' = {}
        BY <1>1, <2>1 DEF Entry!FlagOK, Entry!pics
    <2>3. f \in Entry!Frames /\ f.kind = "call" /\ f.step = "enter" /\ f.flags = 1
        BY <2>2 DEF Entry!Frame, Entry!Frames, Entry!RTC
    <2> HIDE DEF f
    <2>4. /\ Entry!FrameOK(f) /\ Entry!VectorOK(irq_vector', f) /\ Entry!FlagOK(flag', f)
             /\ Entry!ServiceOK(service', f)
          /\ Entry!StandsOn(Entry!Top, f) /\ Entry!RegistersOK' /\ Entry!VectorOK(irq_vector', Entry!Top)
        BY <1>1, <2>1, <2>2, <2>3
           DEF Entry!FrameOK, Entry!VectorOK, Entry!FlagOK, Entry!ServiceOK, Entry!StandsOn, Entry!RegistersOK,
              Entry!pics
    <2> QED
        BY <1>1, <2>1, <2>3, <2>4, TopIs, Pushed
<1>3. CASE Entry!SysCallBody
    <2> DEFINE f == [Entry!Top EXCEPT !.step = "body"]
    <2>1. /\ frames' = Append(Entry!Below, f) /\ flag' = 1 /\ Entry!Top.kind = "call"
          /\ UNCHANGED <<irq_vector, booted, Entry!pics>>
        BY <1>3 DEF Entry!SysCallBody, Entry!Called, Entry!Goto, Entry!At
    <2>2. f \in Entry!Frames /\ f.kind = "call" /\ f.step = "body" /\ f.flags = Entry!Top.flags
        BY <1>1, <2>1 DEF Entry!Frames
    <2> HIDE DEF f
    <2>3. /\ Entry!FrameOK(f) /\ Entry!VectorOK(irq_vector', f) /\ Entry!FlagOK(flag', f)
             /\ Entry!ServiceOK(service', f)
          /\ Entry!RegistersOK'
        BY <1>1, <2>1, <2>2 DEF Entry!FrameOK, Entry!VectorOK, Entry!FlagOK, Entry!ServiceOK, Entry!RegistersOK,
           Entry!pics
    <2> QED
        BY <2>1, <2>2, <2>3, GoesOn
<1>4. CASE Entry!Hlt
    <2> DEFINE f == [Entry!Top EXCEPT !.step = "wait"]
    <2>1. /\ frames' = Append(Entry!Below, f) /\ flag' = flag /\ Entry!Top.kind = "call"
             /\ Entry!Top.step = "body"
          /\ UNCHANGED <<irq_vector, booted, Entry!pics>>
        BY <1>4 DEF Entry!Hlt, Entry!Goto, Entry!At
    <2>2. f \in Entry!Frames /\ f.kind = "call" /\ f.step = "wait" /\ f.flags = Entry!Top.flags
        BY <1>1, <2>1 DEF Entry!Frames
    <2> HIDE DEF f
    <2>3. /\ Entry!FrameOK(f) /\ Entry!VectorOK(irq_vector', f) /\ Entry!FlagOK(flag', f)
             /\ Entry!ServiceOK(service', f)
          /\ Entry!RegistersOK'
        BY <1>1, <2>1, <2>2 DEF Entry!FrameOK, Entry!VectorOK, Entry!FlagOK, Entry!ServiceOK, Entry!RegistersOK,
           Entry!pics
    <2> QED
        BY <2>1, <2>2, <2>3, GoesOn
<1>5. CASE Entry!Execute
    <2> DEFINE f == [Entry!Top EXCEPT !.step = "done"]
    <2>1. /\ frames' = Append(Append(Entry!Below, f), Entry!Program) /\ flag' = 1 /\ Entry!Top.kind = "call"
          /\ UNCHANGED <<irq_vector, booted, Entry!pics>>
        BY <1>5 DEF Entry!Execute, Entry!Entered, Entry!At
    <2>2. f \in Entry!Frames /\ f.kind = "call" /\ f.step = "done" /\ f.flags = Entry!Top.flags
        BY <1>1, <2>1 DEF Entry!Frames
    <2>3. Entry!Program \in Entry!Frames /\ Entry!Program.kind = "program" /\ Entry!Program.step = "run"
        BY DEF Entry!Program, Entry!Frames, Entry!RTC
    <2> HIDE DEF f, Entry!Program
    <2>4. /\ Entry!FrameOK(f) /\ Entry!VectorOK(irq_vector', f)
          /\ Entry!FrameOK(Entry!Program) /\ Entry!VectorOK(irq_vector', Entry!Program)
             /\ Entry!FlagOK(flag', Entry!Program)
          /\ Entry!ServiceOK(service', Entry!Program) /\ Entry!StandsOn(f, Entry!Program) /\ Entry!RegistersOK'
        BY <1>1, <2>1, <2>2, <2>3
           DEF Entry!FrameOK, Entry!VectorOK, Entry!FlagOK, Entry!ServiceOK, Entry!StandsOn, Entry!RegistersOK,
              Entry!pics
    <2>5. Len(frames) > 1 => Entry!StandsOn(frames[Len(frames) - 1], f)
        BY <2>1, <2>2, TopIs DEF Entry!StandsOn
    <2> QED
        BY <2>1, <2>2, <2>3, <2>4, <2>5, Pushed
<1>6. CASE Entry!SysCallInvalid \/ Entry!Return
    <2> DEFINE f == frames[Len(frames) - 1]
    <2>1. /\ frames' = Entry!Below /\ flag' = Entry!Top.flags /\ Entry!Top.kind = "call"
          /\ UNCHANGED <<irq_vector, booted, Entry!pics>>
        BY <1>6 DEF Entry!SysCallInvalid, Entry!Return, Entry!At
    <2>2. flag' = 1 /\ service' = {} /\ Entry!RegistersOK'
        BY <1>1, <2>1 DEF Entry!FrameOK, Entry!RegistersOK, Entry!pics
    <2>3. Entry!StandsOn(f, Entry!Top)
        BY <2>1, TopIs
    <2>4. f.kind = "program"
        BY <2>1, <2>3 DEF Entry!StandsOn
    <2> HIDE DEF f
    <2>5. Entry!FlagOK(flag', f)
        BY <2>2, <2>4 DEF Entry!FlagOK
    <2> QED
        BY <2>1, <2>2, <2>5, Leaves DEF f
<1>7. CASE Entry!Halt
    BY <1>7, EndedInv DEF Entry!Halt, Entry!At
<1> QED
    BY <1>2, <1>3, <1>4, <1>5, <1>6, <1>7

(* Exceptions: in a program or a call, and with the flag cleared by all    *)
(* stubs but one before their number is in irq_vector.                     *)
LEMMA ExceptionInv ==
    ASSUME Entry!ExceptionsExist, Entry!IInv, Entry!Raise \/ Entry!EnterException \/ Entry!DoException
    PROVE  Entry!IInv'
<1>1. /\ Entry!Top \in Entry!Frames /\ Entry!FrameOK(Entry!Top) /\ Entry!FlagOK(flag, Entry!Top)
         /\ Entry!VectorOK(irq_vector, Entry!Top)
      /\ Entry!ServiceOK(service, Entry!Top) /\ Entry!RegistersOK /\ (Entry!Top.kind # "irq" => service = {})
    BY TopInv
<1>2. ASSUME NEW n \in 0 .. 19, Entry!Raised(n), UNCHANGED <<flag, irq_vector, booted, Entry!pics>>,
             \/ Entry!Top.kind = "program"
             \/ Entry!Top.kind = "call" /\ Entry!Top.step = "body"
             \/ Entry!Top.kind = "exception" /\ Entry!Top.step = "handle"
      PROVE  Entry!IInv'
    <2> DEFINE f == Entry!Frame("exception", n, "enter")
    <2>1. frames' = Append(frames, f)
        BY <1>2 DEF Entry!Raised
    <2>2. f \in Entry!Frames /\ f.kind = "exception" /\ f.step = "enter" /\ f.n = n
        BY <1>1 DEF Entry!Frame, Entry!Frames, Entry!RTC, Entry!RegistersOK
    <2> HIDE DEF f
    <2>3. /\ Entry!FrameOK(f) /\ Entry!VectorOK(irq_vector', f) /\ Entry!FlagOK(flag', f)
             /\ Entry!ServiceOK(service', f)
          /\ Entry!StandsOn(Entry!Top, f) /\ Entry!RegistersOK' /\ Entry!VectorOK(irq_vector', Entry!Top)
        BY <1>1, <1>2, <2>2
           DEF Entry!FrameOK, Entry!VectorOK, Entry!FlagOK, Entry!ServiceOK, Entry!StandsOn, Entry!RegistersOK,
              Entry!pics
    <2> QED
        BY <1>1, <1>2, <2>1, <2>2, <2>3, TopIs, Pushed
<1>3. CASE Entry!Raise
    BY <1>2, <1>3 DEF Entry!Raise, Entry!ExceptionsExist, Entry!At
<1>4. CASE Entry!EnterException
    <2> DEFINE f == [Entry!Top EXCEPT !.step = "save"]
    <2>1. /\ frames' = Append(Entry!Below, f) /\ Entry!Top.kind = "exception"
          /\ flag' = IF Entry!Top.n \in Entry!Clearing THEN 0 ELSE flag
          /\ UNCHANGED <<irq_vector, booted, Entry!pics>>
        BY <1>4 DEF Entry!EnterException, Entry!Goto, Entry!At
    <2>2. f \in Entry!Frames /\ f.kind = "exception" /\ f.step = "save" /\ f.n = Entry!Top.n /\ f.n \in 0 .. 19
        BY <1>1, <2>1 DEF Entry!Frames
    <2>3. f.n # Entry!DEVICE_NA => flag' = 0
        BY <2>1, <2>2 DEF Entry!Clearing
    <2>4. Entry!RegistersOK'
        BY <1>1, <2>1 DEF Entry!RegistersOK, Entry!pics
    <2> HIDE DEF f
    <2>5. Entry!FrameOK(f) /\ Entry!VectorOK(irq_vector', f) /\ Entry!FlagOK(flag', f)
       /\ Entry!ServiceOK(service', f)
        BY <1>1, <2>1, <2>2, <2>3 DEF Entry!FrameOK, Entry!VectorOK, Entry!FlagOK, Entry!ServiceOK, Entry!pics
    <2> QED
        BY <2>1, <2>2, <2>4, <2>5, GoesOn
<1>5. CASE Entry!DoException
    <2>1. Entry!Top.kind = "exception" /\ Entry!Top.step = "handle"
       /\ UNCHANGED <<irq_vector, booted, Entry!pics>>
        BY <1>5 DEF Entry!DoException, Entry!At
    <2>2. CASE Entry!Top.number = Entry!OVERFLOW
        <3>1. Entry!Raised(Entry!SEG_NA) /\ UNCHANGED flag
            BY <1>5, <2>2 DEF Entry!DoException
        <3>2. Entry!SEG_NA \in 0 .. 19
            BY DEF Entry!SEG_NA
        <3> QED
            BY <1>2, <2>1, <3>1, <3>2
    <2>3. CASE Entry!Top.number # Entry!OVERFLOW
        BY <1>5, <2>1, <2>3, EndedInv DEF Entry!DoException
    <2> QED
        BY <2>2, <2>3
<1> QED
    BY <1>3, <1>4, <1>5

(* The second half of both common handlers, and the way out of an          *)
(* interrupt, which acknowledges the pins it was accepted on.              *)
LEMMA HandlerInv ==
    ASSUME Entry!IInv, Entry!LoadVector \/ Entry!DoIRQ \/ Entry!Iret
    PROVE  Entry!IInv'
<1>1. /\ Entry!Top \in Entry!Frames /\ Entry!FrameOK(Entry!Top) /\ Entry!FlagOK(flag, Entry!Top)
         /\ Entry!VectorOK(irq_vector, Entry!Top)
      /\ Entry!ServiceOK(service, Entry!Top) /\ Entry!RegistersOK /\ (Entry!Top.kind # "irq" => service = {})
    BY TopInv
<1>2. CASE Entry!LoadVector
    <2> DEFINE f == [Entry!Top EXCEPT !.number = irq_vector, !.step = "handle"]
    <2>1. /\ frames' = Append(Entry!Below, f) /\ Entry!Top.step = "load"
          /\ UNCHANGED <<flag, irq_vector, booted, Entry!pics>>
        BY <1>2 DEF Entry!LoadVector
    <2>2. Entry!Top.kind \in {"exception", "irq"}
        BY <1>1, <2>1 DEF Entry!FrameOK, Entry!Frames
    <2>3. /\ f \in Entry!Frames /\ f.kind = Entry!Top.kind /\ f.step = "handle" /\ f.n = Entry!Top.n
          /\ f.number = irq_vector /\ f.flags = Entry!Top.flags
        BY <1>1 DEF Entry!Frames, Entry!RegistersOK
    <2> HIDE DEF f
    <2>4. Entry!FrameOK(f)
        BY <1>1, <2>1, <2>2, <2>3 DEF Entry!FrameOK, Entry!VectorOK
    <2>5. Entry!VectorOK(irq_vector', f) /\ Entry!FlagOK(flag', f) /\ Entry!ServiceOK(service', f)
       /\ Entry!RegistersOK'
        BY <1>1, <2>1, <2>2, <2>3 DEF Entry!VectorOK, Entry!FlagOK, Entry!ServiceOK, Entry!RegistersOK, Entry!pics
    <2> QED
        BY <2>1, <2>3, <2>4, <2>5, GoesOn
<1>3. CASE Entry!DoIRQ
    <2> DEFINE f == [Entry!Top EXCEPT !.step = "done"]
    <2>1. /\ frames' = Append(Entry!Below, f) /\ Entry!Top.kind = "irq" /\ Entry!Top.step = "handle"
          /\ service' = service \ (IF -Entry!Top.number \in Entry!Devices THEN Entry!Acknowledged(-Entry!Top.number) ELSE {})
          /\ UNCHANGED <<flag, irq_vector, booted, mask, request>>
        BY <1>3 DEF Entry!DoIRQ, Entry!Goto, Entry!At
    <2>2. f \in Entry!Frames /\ f.kind = "irq" /\ f.step = "done" /\ f.n = Entry!Top.n
       /\ f.flags = Entry!Top.flags
        BY <1>1, <2>1 DEF Entry!Frames
    <2> HIDE DEF f
    <2>3. -Entry!Top.number = Entry!Top.n /\ Entry!Top.n \in Entry!Devices
        <3>1. Entry!Top.number = -Entry!Top.n /\ Entry!Top.n \in Entry!Devices
            BY <1>1, <2>1 DEF Entry!FrameOK
        <3>2. Entry!Top.n \in Int
            BY <3>1 DEF Entry!Devices, Entry!KEYB, Entry!RTC
        <3> QED
            BY <3>1, <3>2
    <2>4. Entry!Acknowledged(Entry!Top.n) = Entry!Pins(Entry!Top.n)
        BY <2>3 DEF Entry!Acknowledged, Entry!Devices, Entry!KEYB, Entry!RTC
    <2>5. service \subseteq Entry!Pins(Entry!Top.n)
        BY <1>1, <2>1 DEF Entry!ServiceOK
    <2>6. service' = {}
        BY <2>1, <2>3, <2>4, <2>5, Zenon
    <2>7. /\ Entry!FrameOK(f) /\ Entry!VectorOK(irq_vector', f) /\ Entry!FlagOK(flag', f)
             /\ Entry!ServiceOK(service', f)
          /\ Entry!RegistersOK'
        BY <1>1, <2>1, <2>2, <2>6
           DEF Entry!FrameOK, Entry!VectorOK, Entry!FlagOK, Entry!ServiceOK, Entry!RegistersOK
    <2> QED
        BY <2>1, <2>2, <2>7, GoesOn
<1>4. CASE Entry!Iret
    <2> DEFINE f == frames[Len(frames) - 1]
    <2>1. /\ frames' = Entry!Below /\ flag' = Entry!Top.flags /\ Entry!Top.kind = "irq" /\ Entry!Top.step = "done"
          /\ UNCHANGED <<irq_vector, booted, Entry!pics>>
        BY <1>4 DEF Entry!Iret, Entry!At
    <2>2. flag' = 1 /\ service' = {} /\ Entry!RegistersOK'
        BY <1>1, <2>1 DEF Entry!FrameOK, Entry!ServiceOK, Entry!RegistersOK, Entry!pics
    <2>3. Entry!StandsOn(f, Entry!Top)
        BY <2>1, TopIs
    <2> HIDE DEF f
    <2>4. Entry!FlagOK(flag', f)
        BY <2>1, <2>2, <2>3 DEF Entry!FlagOK, Entry!StandsOn
    <2> QED
        BY <2>1, <2>2, <2>4, Leaves DEF f
<1> QED
    BY <1>2, <1>3, <1>4

(* kernel_main, which runs at the bottom and ends as the first shell.      *)
LEMMA BootInv ==
    ASSUME Entry!IInv, Entry!BootSteps \/ Entry!FirstShell
    PROVE  Entry!IInv'
<1>1. Entry!Top.kind = "kernel" /\ Len(frames) = 1 /\ Entry!RegistersOK /\ service = {}
    BY TopInv, TopIs DEF Entry!BootSteps, Entry!i8259_init, Entry!init_keyboard, Entry!init_rtc, Entry!Boot,
       Entry!FirstShell, Entry!At
<1>2. ASSUME NEW step \in 0 .. 2, NEW irq_num \in 0 .. 15, Entry!Boot(step, irq_num) PROVE Entry!IInv'
    <2>1. Entry!RegistersOK' /\ UNCHANGED <<frames, irq_vector, service>>
        BY <1>1, <1>2 DEF Entry!Boot, Entry!enable_irq, Entry!RegistersOK
    <2>2. Entry!FlagOK(flag', Entry!Top) /\ Entry!ServiceOK(service', Entry!Top)
        BY <1>1, <2>1 DEF Entry!FlagOK, Entry!ServiceOK
    <2> QED
        BY <2>1, <2>2, Rests
<1>3. CASE Entry!BootSteps
    <2>1. Entry!SLAVE_PIN \in 0 .. 15 /\ Entry!KEYB \in 0 .. 15 /\ Entry!RTC \in 0 .. 15
        BY DEF Entry!SLAVE_PIN, Entry!KEYB, Entry!RTC
    <2> QED
        BY <1>2, <1>3, <2>1 DEF Entry!BootSteps, Entry!i8259_init, Entry!init_keyboard, Entry!init_rtc
<1>4. CASE Entry!FirstShell
    <2>1. /\ frames' = Append(Entry!Below, Entry!Program) /\ flag' = 1
          /\ UNCHANGED <<irq_vector, booted, Entry!pics>>
        BY <1>4 DEF Entry!FirstShell, Entry!Entered
    <2>2. Entry!Program \in Entry!Frames /\ Entry!Program.kind = "program" /\ Entry!Program.step = "run"
        BY DEF Entry!Program, Entry!Frames, Entry!RTC
    <2> HIDE DEF Entry!Program
    <2>3. /\ Entry!FrameOK(Entry!Program) /\ Entry!VectorOK(irq_vector', Entry!Program)
             /\ Entry!FlagOK(flag', Entry!Program)
          /\ Entry!ServiceOK(service', Entry!Program) /\ Entry!RegistersOK'
        BY <1>1, <2>1, <2>2 DEF Entry!FrameOK, Entry!VectorOK, Entry!FlagOK, Entry!ServiceOK, Entry!RegistersOK,
           Entry!pics
    <2>4. ~(Len(frames) > 1) /\ \A k \in 1 .. Len(frames) - 1 : Entry!VectorOK(irq_vector', frames[k])
        BY <1>1
    <2> QED
        BY <1>1, <2>1, <2>2, <2>3, <2>4, Replaced
<1> QED
    BY <1>3, <1>4

(* The kernel begins in one frame, with nothing in service.                *)
LEMMA EntryInitInv == Entry!Init => Entry!IInv
<1> SUFFICES ASSUME Entry!Init PROVE Entry!IInv
    OBVIOUS
<1> DEFINE f == Entry!Frame("kernel", 0, "run")
<1>1. f \in Entry!Frames /\ f.kind = "kernel" /\ f.step = "run"
    BY DEF Entry!Init, Entry!Frame, Entry!Frames, Entry!RTC
<1> HIDE DEF f
<1>2. frames = <<f>>
    BY DEF Entry!Init, f
<1>3. frames \in Seq(Entry!Frames) /\ Len(frames) = 1 /\ frames[1] = f
    BY <1>1, <1>2
<1>4. Entry!Top = f
    BY <1>3 DEF Entry!Top, Entry!Last
<1>5. Entry!RegistersOK
    BY DEF Entry!Init, Entry!RegistersOK, Entry!RTC
<1>6. Entry!FrameOK(f) /\ Entry!VectorOK(irq_vector, f) /\ Entry!FlagOK(flag, f) /\ Entry!ServiceOK(service, f)
    BY <1>1 DEF Entry!Init, Entry!FrameOK, Entry!VectorOK, Entry!FlagOK, Entry!ServiceOK
<1>7. Entry!Stacked
    BY <1>1, <1>3, <1>6 DEF Entry!Stacked
<1> QED
    BY <1>3, <1>4, <1>5, <1>6, <1>7 DEF Entry!IInv, Entry!TypeOK

(* Every step into, within and out of the kernel preserves the invariant.  *)
LEMMA EntryStepInv == Entry!ExceptionsExist /\ Entry!IInv /\ [Entry!Next]_(Entry!vars) => Entry!IInv'
<1> SUFFICES ASSUME Entry!ExceptionsExist, Entry!IInv, [Entry!Next]_(Entry!vars) PROVE Entry!IInv'
    OBVIOUS
<1>1. CASE Entry!BootSteps \/ Entry!FirstShell
    BY <1>1, BootInv
<1>2. CASE Entry!SysCall \/ Entry!SysCallBody \/ Entry!SysCallInvalid \/ Entry!Hlt \/ Entry!Return
   \/ Entry!Execute \/ Entry!Halt
    BY <1>2, CallInv
<1>3. CASE Entry!Raise \/ Entry!EnterException \/ Entry!DoException
    BY <1>3, ExceptionInv
<1>4. CASE Entry!SaveVector
    BY <1>4, SaveVectorInv
<1>5. CASE Entry!LoadVector \/ Entry!DoIRQ \/ Entry!Iret
    BY <1>5, HandlerInv
<1>6. ASSUME NEW irq_num \in Entry!Devices, Entry!Request(irq_num) PROVE Entry!IInv'
    <2>1. Entry!RegistersOK' /\ UNCHANGED <<frames, flag, irq_vector, service>>
        BY <1>6, TopInv DEF Entry!Request, Entry!RegistersOK
    <2> QED
        BY <2>1, TopInv, Rests
<1>7. ASSUME NEW irq_num \in Entry!Devices, Entry!Interrupt(irq_num) PROVE Entry!IInv'
    BY <1>7, AcceptInv
<1>8. CASE UNCHANGED Entry!vars
    <2>1. Entry!RegistersOK' /\ UNCHANGED <<frames, flag, irq_vector, service>>
        BY <1>8, TopInv DEF Entry!vars, Entry!pics, Entry!RegistersOK
    <2> QED
        BY <2>1, TopInv, Rests
<1> QED
    BY <1>1, <1>2, <1>3, <1>4, <1>5, <1>6, <1>7, <1>8 DEF Entry!Next, Entry!Kernel, Entry!Stub

(* The invariant implies what is checked.                                  *)
LEMMA EntrySafe == Entry!IInv => Entry!EntrySafety
<1> SUFFICES ASSUME Entry!IInv PROVE Entry!EntrySafety
    OBVIOUS
<1>1. /\ Entry!Top \in Entry!Frames /\ Entry!FrameOK(Entry!Top) /\ Entry!FlagOK(flag, Entry!Top)
         /\ Entry!ServiceOK(service, Entry!Top)
    BY TopInv
<1>2. Entry!InterruptNumber
    BY <1>1 DEF Entry!InterruptNumber, Entry!At, Entry!FrameOK
<1>3. Entry!ExceptionNumber
    BY <1>1 DEF Entry!ExceptionNumber, Entry!At, Entry!FrameOK, Entry!Finds
<1>4. Entry!InterruptsOn
    BY <1>1 DEF Entry!InterruptsOn, Entry!FlagOK, Entry!FrameOK, Entry!Frames
<1>5. Entry!NoneInService
    BY <1>1 DEF Entry!NoneInService, Entry!ServiceOK
<1> QED
    BY <1>2, <1>3, <1>4, <1>5 DEF Entry!EntrySafety

-----------------------------------------------------------------------------
(* The game's threads, and both together.                                  *)

(* No step of any thread loses the newest press.                           *)
LEMMA PressInv == Buttons!NewestKept /\ [Buttons!Next]_(Buttons!vars) => Buttons!NewestKept'
<1> SUFFICES ASSUME Buttons!NewestKept, [Buttons!Next]_(Buttons!vars) PROVE Buttons!NewestKept'
    OBVIOUS
<1> USE DEF Buttons!NewestKept
<1>1. CASE Buttons!Level \/ Buttons!Frame \/ Buttons!Tick \/ Buttons!Over
    BY <1>1 DEF Buttons!Level, Buttons!Frame, Buttons!Tick, Buttons!Over
<1>2. CASE Buttons!Poll \/ Buttons!Signal
    BY <1>2 DEF Buttons!Poll, Buttons!Signal
<1>3. CASE Buttons!Flag
    BY <1>3 DEF Buttons!Flag, Buttons!Pressed
<1>4. CASE Buttons!KeyboardThread
    BY <1>4 DEF Buttons!KeyboardThread, Buttons!rtcVars
<1>5. CASE Buttons!TuxThread
    <2>1. UNCHANGED <<buttons, rtc>>
        BY <1>5 DEF Buttons!TuxThread, Buttons!rtcVars
    <2>2. CASE Buttons!TestWinner \/ Buttons!Lock \/ Buttons!CheckOrWait
        BY <2>1, <2>2 DEF Buttons!TestWinner, Buttons!Lock, Buttons!CheckOrWait
    <2>3. CASE Buttons!TakePress
        BY <2>1, <2>3 DEF Buttons!TakePress, Buttons!Obey, Buttons!Order
    <2> QED
        BY <1>5, <2>2, <2>3 DEF Buttons!TuxThread
<1>6. CASE Buttons!WakeUnasked \/ Buttons!End \/ UNCHANGED Buttons!vars
    BY <1>6 DEF Buttons!WakeUnasked, Buttons!End, Buttons!vars, Buttons!rtcVars
<1> QED
    BY <1>1, <1>2, <1>3, <1>4, <1>5, <1>6 DEF Buttons!Next, Buttons!RtcThread

(* What the composition leaves alone: each part keeps its invariant while  *)
(* another runs.                                                           *)
LEMMA PartsRest ==
    /\ MCInit => Entry!Init /\ Buttons!Init
    /\ [MCNext]_all => [Entry!Next]_(Entry!vars) /\ [Buttons!Next]_(Buttons!vars)
<1>1. UNCHANGED entryVars => UNCHANGED Entry!vars
    BY DEF entryVars, Entry!vars, Entry!pics
<1>2. UNCHANGED gameVars => UNCHANGED Buttons!vars
    BY DEF gameVars, Buttons!vars, Buttons!rtcVars
<1>3. ASSUME [MCNext]_all PROVE [Entry!Next]_(Entry!vars) /\ [Buttons!Next]_(Buttons!vars)
    <2>1. CASE Clock(Next)
        BY <1>1, <1>2, <2>1 DEF Clock
    <2>2. CASE Kernel(Entry!Next)
        BY <1>2, <2>2 DEF Kernel
    <2>3. CASE Game(Buttons!Next)
        BY <1>1, <2>3 DEF Game
    <2>4. CASE Stays \/ UNCHANGED all
        BY <1>1, <1>2, <2>4 DEF Stays, all
    <2> QED
        BY <1>3, <2>1, <2>2, <2>3, <2>4 DEF MCNext
<1> QED
    BY <1>3 DEF MCInit

(* However deep programs execute each other, whatever they raise, and      *)
(* whenever the devices interrupt, each C handler is called for what       *)
(* entered the kernel, but for device_not_available's, nobody waits with   *)
(* interrupts off and no pin stays in service (handlers.S:54-198); and     *)
(* whatever the controller reports and whenever the thread that sleeps is  *)
(* woken, the newest press is kept until it is obeyed (mazegame.c:401-434).*)
THEOREM HandedOverHolds == ASSUME Entry!ExceptionsExist PROVE MCSpec => []HandedOver
<1>1. MCInit => Entry!IInv /\ Buttons!NewestKept
    BY EntryInitInv, PartsRest DEF Buttons!Init, Buttons!NewestKept
<1>2. Entry!IInv /\ [MCNext]_all => Entry!IInv'
    BY EntryStepInv, PartsRest
<1>3. Buttons!NewestKept /\ [MCNext]_all => Buttons!NewestKept'
    BY PressInv, PartsRest
<1> QED
    BY <1>1, <1>2, <1>3, EntrySafe, PTL DEF MCSpec, HandedOver

-----------------------------------------------------------------------------
(* The clock, for every rate of the device and every set of requests.      *)

USE RtcAssumption DEF RTC_OPEN_FREQ, None

\* The period of a rate is a number of interrupts from 1 to the longest one.
LEMMA Period ==
    ASSUME NEW f \in Nat, RateSet(f)
    PROVE  /\ FREQ_MAX \div f \in Nat /\ LongestPeriod \in Nat
           /\ FREQ_MAX \div f \in 1 .. LongestPeriod
           /\ f * (FREQ_MAX \div f) = FREQ_MAX
<1> USE DEF RateSet, LongestPeriod
<1>1. f * (FREQ_MAX \div f) = FREQ_MAX /\ FREQ_MAX \div f \in Nat
  OBVIOUS
<1>2. FREQ_MAX \div f >= 1
  BY <1>1
<1>3. FREQ_MIN * (FREQ_MAX \div FREQ_MIN) = FREQ_MAX /\ FREQ_MAX \div FREQ_MIN \in Nat
  BY PeriodAssumption
<1>4. FREQ_MIN * (FREQ_MAX \div f) <= FREQ_MAX
  BY <1>1
<1>5. FREQ_MAX \div f <= FREQ_MAX \div FREQ_MIN
  BY <1>1, <1>3, <1>4
<1> QED
  BY <1>1, <1>2, <1>5

\* A count whose product with the rate is below FREQ_MAX is below a period.
LEMMA BelowPeriod ==
    ASSUME NEW f \in Nat, RateSet(f), NEW n \in Nat
    PROVE  Below(f, n) <=> n < FREQ_MAX \div f
<1>1. PICK p \in Nat : p = FREQ_MAX \div f /\ f * p = FREQ_MAX
  BY Period
<1>2. f > 0
  BY DEF RateSet
<1>3. f * n < f * p <=> n < p
  BY <1>2
<1> QED
  BY <1>1, <1>3 DEF Below

\* A count of zero is below any period.
LEMMA BelowZero == ASSUME NEW f \in Nat PROVE Below(f, 0)
BY DEF Below

\* rtc_write accepts only rates whose period is exact.
LEMMA ValidRate == ASSUME NEW f \in Requests, Valid(f) PROVE RateSet(f)
BY PeriodAssumption DEF Valid, RateSet

\* The rate rtc_open sets.
LEMMA OpenRateSet == RateSet(RTC_OPEN_FREQ)
BY PeriodAssumption DEF RateSet

(* Before the first open the clock has no rate and no history.             *)
LEMMA InitInv == Init => IInv
BY DEF Init, IInv, TypeOK, Calls, CounterBounded

\* The handler keeps the count within its bound and, at an unchanged rate, equal
\* to the interrupts since the last hit.
LEMMA InterruptInv == IInv /\ RtcInterrupt => IInv'
<1> SUFFICES ASSUME IInv, RtcInterrupt PROVE IInv'
  OBVIOUS
<1>1. /\ UNCHANGED <<vfreq, opened>>
      /\ icounter' = Count
      /\ icounter' \in Int /\ since' \in Nat \cup {None}
      /\ since = None => since' = None
      /\ interrupted' \in {"waiting", "hit"} /\ call' \in Calls
  <2>1. vfreq # 0 => FREQ_MAX \div vfreq \in Nat
    BY Period DEF IInv, TypeOK
  <2>2. Count \in Int
    BY <2>1 DEF IInv, TypeOK, Count, Hit
  <2>3. since' \in Nat \cup {None} /\ (since = None => since' = None)
    BY DEF IInv, TypeOK, RtcInterrupt
  <2>4. interrupted' \in {"waiting", "hit"} /\ call' \in Calls
    BY DEF IInv, TypeOK, RtcInterrupt, Wake, Calls
  <2> QED
    BY <2>2, <2>3, <2>4 DEF RtcInterrupt
<1>2. call' = "opening" <=> call = "opening"
  BY DEF RtcInterrupt, Wake, IInv, TypeOK, Calls
<1>3. CASE vfreq = 0
  BY <1>1, <1>2, <1>3 DEF IInv, TypeOK, CounterBounded
<1>4. CASE vfreq # 0
  <2> DEFINE p == FREQ_MAX \div vfreq
  <2>1. RateSet(vfreq) /\ vfreq \in Nat
    BY <1>4 DEF IInv, TypeOK
  <2>2. p \in Nat /\ p \in 1 .. LongestPeriod /\ LongestPeriod \in Nat
    BY <2>1, Period
  <2>3. call # "opening" => icounter \in 0 .. LongestPeriod - 1
    BY <1>4 DEF IInv, CounterBounded
  <2>4. ASSUME icounter \in Nat
        PROVE  Hit <=> icounter + 1 >= p
    <3>1. Hit <=> ~Below(vfreq, icounter + 1)
      BY <2>1, <2>4 DEF Hit, Below
    <3> QED
      BY <2>1, <2>2, <2>4, <3>1, BelowPeriod, icounter + 1 \in Nat
  <2>5. call # "opening" => icounter' \in 0 .. LongestPeriod - 1
    BY <1>1, <2>2, <2>3, <2>4 DEF Count
  <2>6. since' # None => icounter' = since' /\ Below(vfreq, since')
    <3> SUFFICES ASSUME since' # None
                 PROVE  icounter' = since' /\ Below(vfreq, since')
      OBVIOUS
    <3>0. since # None /\ icounter = since /\ since \in Nat /\ Below(vfreq, since)
      BY <1>1 DEF IInv, TypeOK
    <3>1. since < p
      BY <2>1, <3>0, BelowPeriod
    <3>2. Hit <=> since + 1 = p
      BY <2>2, <2>4, <3>0, <3>1
    <3>3. CASE Hit
      <4>1. icounter' = 0 /\ since' = 0
        BY <1>1, <2>2, <3>0, <3>1, <3>2, <3>3 DEF Count, RtcInterrupt
      <4> QED
        BY <2>1, <4>1, BelowZero
    <3>4. CASE ~Hit
      <4>1. icounter' = since + 1 /\ since' = since + 1 /\ since + 1 < p
        BY <1>1, <2>2, <3>0, <3>1, <3>2, <3>4 DEF Count, RtcInterrupt
      <4> QED
        BY <2>1, <3>0, <4>1, BelowPeriod
    <3> QED
      BY <3>3, <3>4
  <2> QED
    BY <1>1, <1>2, <1>4, <2>5, <2>6 DEF IInv, TypeOK, CounterBounded
<1> QED
  BY <1>3, <1>4

\* Every step preserves the invariant.
LEMMA NextInv == IInv /\ [Next]_vars => IInv'
<1> SUFFICES ASSUME IInv, [Next]_vars PROVE IInv'
  OBVIOUS
<1> USE DEF IInv, TypeOK, Calls, CounterBounded
<1>1. CASE RtcInterrupt
  BY <1>1, InterruptInv
<1>2. CASE OtherInterrupt
  BY <1>2 DEF OtherInterrupt, Wake
<1>3. CASE OpenRate
  BY <1>3, OpenRateSet DEF OpenRate
<1>4. CASE OpenCount
  <2>1. LongestPeriod \in 1 .. LongestPeriod
    BY Period, PeriodAssumption DEF RateSet, LongestPeriod
  <2>2. icounter' \in 0 .. LongestPeriod - 1
    BY <1>4, <2>1 DEF OpenCount
  <2>3. Below(vfreq, since')
    BY <1>4, BelowZero DEF OpenCount
  <2> QED
    BY <1>4, <2>2, <2>3 DEF OpenCount
<1>5. CASE Arm
  BY <1>5 DEF Arm
<1>6. CASE Hlt
  BY <1>6 DEF Hlt
<1>7. CASE Check
  BY <1>7 DEF Check
<1>8. ASSUME NEW f \in Requests, Write(f) PROVE IInv'
  <2>1. RateSet(f) /\ f \in Nat
    BY <1>8, ValidRate DEF Write
  <2>2. f # 0 /\ vfreq' = f /\ f \in 0 .. FREQ_MAX
    BY <1>8, <2>1 DEF Write, RateSet
  <2>3. since' # None => Below(f, since')
    BY <1>8, <2>1, BelowZero DEF Write
  <2> QED
    BY <1>8, <2>1, <2>2, <2>3 DEF Write
<1>9. CASE Switch
  BY <1>9 DEF Switch
<1>10. CASE UNCHANGED vars
  BY <1>10 DEF vars
<1> QED
  BY <1>1, <1>2, <1>3, <1>4, <1>5, <1>6, <1>7, <1>8, <1>9, <1>10 DEF Next

\* The invariant holds throughout.
LEMMA Invariance == Spec => []IInv
BY InitInv, NextInv, PTL DEF Spec

\* handle_rtc's count stays in bounds at every device rate, whatever rates
\* programs write and whenever they open the device.
THEOREM CounterBoundedHolds == Spec => []CounterBounded
<1>1. IInv => CounterBounded
  BY DEF IInv
<1> QED
  BY <1>1, Invariance, PTL

\* At an unchanged rate the hits of handle_rtc are exactly a period apart.
THEOREM SteadyRateHolds == Spec => SteadyRate
<1>1. IInv /\ [Next]_vars =>
        [RtcInterrupt /\ since # None /\ Hit => since + 1 = FREQ_MAX \div vfreq]_vars
  <2> SUFFICES ASSUME IInv, since # None, Hit
               PROVE  since + 1 = FREQ_MAX \div vfreq
    OBVIOUS
  <2>1. RateSet(vfreq) /\ vfreq \in Nat /\ since \in Nat /\ icounter = since
    BY DEF IInv, TypeOK
  <2>2. since < FREQ_MAX \div vfreq /\ FREQ_MAX \div vfreq \in Nat
    BY <2>1, BelowPeriod, Period DEF IInv
  <2>3. ~(since + 1 < FREQ_MAX \div vfreq)
    <3>1. ~Below(vfreq, since + 1)
      BY <2>1 DEF Hit, Below
    <3> QED
      BY <2>1, <3>1, BelowPeriod, since + 1 \in Nat
  <2> QED
    BY <2>1, <2>2, <2>3
<1> QED
  BY <1>1, Invariance, PTL DEF Spec, SteadyRate
====
