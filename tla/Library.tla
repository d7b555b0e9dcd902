------------------------------ MODULE Library ------------------------------
(***************************************************************************)
(* The routines of lib.c that the kernel is built from.  Those that move   *)
(* memory are modelled step by step, because they go by bytes and by words *)
(* as addresses come, in memory where source and destination may overlap.  *)
(* Strings are sequences of bytes, and the NUL after them is not shown;    *)
(* printf gets a format, given as its directives, and what lies behind it  *)
(* on the stack.                                                           *)
(***************************************************************************)
EXTENDS Integers, SequencesExt

CONSTANTS
    MEM,        \* bytes of memory
    WORD,       \* bytes that movsl and stosl take at a time
    BITS,       \* width of an integer
    Values,     \* numbers that are printed
    Formats,    \* sequences of directives and other characters
    Strings,    \* sequences of bytes, none of them 0
    MaxLength   \* BOUND: lengths n that strings are cut to

Addr == 0 .. MEM - 1
FILL == 0

VARIABLES
    fn, arg,    \* the routine and what it was called with
    mem,        \* memory
    esi, edi, ecx, edx, df,     \* registers, and the direction flag
    pc,
    result      \* of a routine that returns or prints something

registers == <<esi, edi, ecx, edx, df>>
vars == <<fn, arg, mem, registers, pc, result>>

Movers == {"memset", "memcpy", "memmove"}

\* Bytes of a unit of the routines that store n units.
Fillers == {"memset_word", "memset_dword"}
Unit == IF fn = "memset_word" THEN 2 ELSE WORD

\* Every byte of memory is different; the flag is as some memmove left it.
Init ==
    /\ mem = [a \in Addr |-> a + 1]
    /\ df \in {0, 1} /\ edx = 0 /\ result = << >>
    /\ \/ /\ fn \in Movers
          /\ \E s, d \in Addr, n \in 0 .. MEM :
                /\ s + n <= MEM /\ d + n <= MEM
                /\ arg = [src |-> s, dest |-> d, n |-> n]
                /\ esi = s /\ edi = d /\ ecx = n
          /\ pc = IF fn = "memmove" THEN "direction" ELSE "top"
       \/ /\ fn \in Fillers
          /\ \E d \in Addr, n \in 0 .. MEM \div Unit :
                /\ d + n * Unit <= MEM
                /\ arg = [src |-> 0, dest |-> d, n |-> n * Unit]
                /\ esi = 0 /\ edi = d /\ ecx = n
          /\ pc = "stos"
       \/ /\ fn = "printf"
          /\ \E f \in Formats, a, b \in Values : arg = [directives |-> f, stack |-> <<a, b, a>>]
          /\ esi = 0 /\ edi = 0 /\ ecx = 0 /\ pc = "call"
       \/ /\ fn = "strings"
          /\ \E s1, s2 \in Strings, n \in 0 .. MaxLength : arg = [s1 |-> s1, s2 |-> s2, n |-> n]
          /\ esi = 0 /\ edi = 0 /\ ecx = 0 /\ pc = "call"

-----------------------------------------------------------------------------
(* memset and memcpy.                                                      *)

Source(k) == IF fn = "memset" \/ fn \in Fillers THEN FILL ELSE mem[esi + k]

Put(n) == mem' = [a \in Addr |-> IF a \in edi .. edi + n - 1 THEN Source(a - edi) ELSE mem[a]]

Advance(n) == edi' = edi + n /\ esi' = IF fn = "memset" \/ fn \in Fillers THEN esi ELSE esi + n

\* Bytes up to the first word of the destination.
ToWord ==
    /\ pc = "top" /\ ecx > 0 /\ edi % WORD # 0
    /\ Put(1) /\ Advance(1)
    /\ ecx' = ecx - 1
    /\ UNCHANGED <<fn, arg, edx, df, pc, result>>

\* Variant: a last word that is whole is not counted.
WordsBefore(n) == (n - 1) \div WORD

Words(n) == n \div WORD

Aligned ==
    /\ pc = "top" /\ ecx > 0 /\ edi % WORD = 0
    /\ edx' = ecx % WORD /\ ecx' = Words(ecx)
    /\ df' = 0
    /\ pc' = "words"
    /\ UNCHANGED <<fn, arg, mem, esi, edi, result>>

MoveWord ==
    /\ pc = "words" /\ ecx > 0
    /\ Put(WORD) /\ Advance(WORD)
    /\ ecx' = ecx - 1
    /\ UNCHANGED <<fn, arg, edx, df, pc, result>>

Bottom ==
    /\ pc = "words" /\ ecx = 0 /\ edx > 0
    /\ Put(1) /\ Advance(1)
    /\ edx' = edx - 1
    /\ UNCHANGED <<fn, arg, ecx, df, pc, result>>

Done ==
    /\ (pc = "top" /\ ecx = 0) \/ (pc = "words" /\ ecx = 0 /\ edx = 0) \/ (pc \in {"movsb", "stos"} /\ ecx = 0)
    /\ pc' = "done"
    /\ UNCHANGED <<fn, arg, mem, registers, result>>

-----------------------------------------------------------------------------
(* memmove: from the end when the destination is behind the source.        *)

Down == esi < edi

Direction ==
    /\ pc = "direction"
    /\ IF Down
       THEN esi' = esi + ecx - 1 /\ edi' = edi + ecx - 1 /\ df' = 1
       ELSE df' = 0 /\ UNCHANGED <<esi, edi>>
    /\ pc' = "movsb"
    /\ UNCHANGED <<fn, arg, mem, ecx, edx, result>>

MoveByte ==
    /\ pc = "movsb" /\ ecx > 0
    /\ mem' = [mem EXCEPT ![edi] = mem[esi]]
    /\ LET by == IF df = 1 THEN -1 ELSE 1 IN esi' = esi + by /\ edi' = edi + by
    /\ ecx' = ecx - 1
    /\ UNCHANGED <<fn, arg, edx, df, pc, result>>

\* memset_word and memset_dword: n of them, whatever the alignment.
memset_word ==
    /\ fn = "memset_word" /\ pc = "stos" /\ ecx > 0
    /\ Put(2) /\ Advance(2)
    /\ ecx' = ecx - 1 /\ df' = 0
    /\ UNCHANGED <<fn, arg, edx, pc, result>>

memset_dword ==
    /\ fn = "memset_dword" /\ pc = "stos" /\ ecx > 0
    /\ Put(WORD) /\ Advance(WORD)
    /\ ecx' = ecx - 1 /\ df' = 0
    /\ UNCHANGED <<fn, arg, edx, pc, result>>

-----------------------------------------------------------------------------
(* Numbers and strings.  Characters are their codes.                       *)

PERCENT == 37
HASH == 35
MINUS == 45

lookup(digit) == IF digit < 10 THEN 48 + digit ELSE 55 + digit

\* One place at a time, the lowest first, and the string is turned round.
strrev(s) == [k \in DOMAIN s |-> s[Len(s) + 1 - k]]

itoa(value, radix) ==
    LET places[v \in 0 .. value] ==
            IF v = 0 THEN << >> ELSE <<lookup(v % radix)>> \o places[v \div radix]
    IN  IF value = 0 THEN <<lookup(0)>> ELSE strrev(places[value])

Unsigned(v) == v % 2^BITS

\* Variant: a number that has digits already gets as many zeros again.
AlternateAll(v) == [k \in 1 .. BITS \div 4 |-> lookup(0)] \o itoa(Unsigned(v), 16)

\* %#x: zeros in the places from the number of digits on.
Alternate(v) ==
    LET digits == itoa(Unsigned(v), 16)
    IN  [k \in 1 .. BITS \div 4 - Len(digits) |-> lookup(0)] \o digits

\* -value of the smallest is itself, and is printed as unsigned.
Decimal(v) == IF v < 0 THEN <<MINUS>> \o itoa(Unsigned(-v), 10) ELSE itoa(v, 10)

\* x, u, d, c and s; a string is shown by its address.
Conversions == {120, 117, 100, 99, 115}

Conversion(c, alternate, v) ==
    CASE c = 120 -> IF alternate THEN Alternate(v) ELSE itoa(Unsigned(v), 16)
      [] c = 117 -> itoa(Unsigned(v), 10)
      [] c = 100 -> Decimal(v)
      [] c = 99 -> <<Unsigned(v) % 256>>
      [] c = 115 -> <<v>>

\* Variant: every directive takes an argument.
TakesEvery(c) == 1

Takes(c) == IF c \in Conversions THEN 1 ELSE 0

\* The NUL is found at the places between directives only: in a format that
\* ends within one what lies behind it would be read.
printf ==
    LET buf == FlattenSeq(arg.directives)
        rest[at \in 1 .. Len(buf) + 1, top \in 1 .. Len(buf) + 1] ==
            LET flagged == SelectInSubSeq(buf, at + 1, Len(buf), LAMBDA ch : ch # HASH)
                c == buf[flagged]
            IN  IF at > Len(buf) THEN << >>
                ELSE IF buf[at] # PERCENT THEN <<buf[at]>> \o rest[at + 1, top]
                ELSE (IF c \in Conversions THEN Conversion(c, flagged > at + 1, arg.stack[top])
                      ELSE IF c = PERCENT THEN <<PERCENT>> ELSE << >>)
                     \o rest[flagged + 1, top + Takes(c)]
    IN  /\ fn = "printf" /\ pc = "call"
        /\ result' = rest[1, 1]
        /\ pc' = "done"
        /\ UNCHANGED <<fn, arg, mem, registers>>

\* A string with its NUL, as signed bytes.
Byte(s, i) == IF i > Len(s) THEN 0 ELSE IF s[i] < 128 THEN s[i] ELSE s[i] - 256

\* The difference at the first place where it stops.
strncmp(s1, s2, n) ==
    LET stops == {i \in 1 .. n : Byte(s1, i) # Byte(s2, i) \/ Byte(s1, i) = 0}
        first == CHOOSE i \in stops : \A j \in stops : i <= j
    IN  IF stops = {} THEN 0 ELSE Byte(s1, first) - Byte(s2, first)

\* What n bytes of the destination become.
strncpy(s, n) == [k \in 1 .. n |-> IF k <= Len(s) THEN s[k] ELSE 0]

\* Up to the NUL, and the NUL.
strcpy(s) == Append(s, 0)

\* The characters put out.
puts(s) == Len(s)

\* The NUL comes behind what was asked for.
getargs(args, n) ==
    LET length == IF Len(args) > n THEN n ELSE Len(args)
    IN  Append(strncpy(args, length), 0)

StringCalls ==
    /\ fn = "strings" /\ pc = "call"
    /\ result' = [compared |-> strncmp(arg.s1, arg.s2, arg.n),
                  first |-> strncpy(arg.s1, arg.n), second |-> strncpy(arg.s2, arg.n),
                  copied |-> strcpy(arg.s1), put |-> puts(arg.s1),
                  args |-> getargs(arg.s1, arg.n)]
    /\ pc' = "done"
    /\ UNCHANGED <<fn, arg, mem, registers>>

Next ==
    \/ ToWord \/ Aligned \/ MoveWord \/ Bottom \/ Done \/ Direction \/ MoveByte
    \/ memset_word \/ memset_dword \/ printf \/ StringCalls

Spec == Init /\ [][Next]_vars

-----------------------------------------------------------------------------
(***************************************************************************)
(* Properties.                                                             *)
(***************************************************************************)

\* The bytes of a routine's destination, and what it is to put there.
Within(a) == a \in arg.dest .. arg.dest + arg.n - 1
Wanted(a) == IF fn = "memset" \/ fn \in Fillers THEN FILL ELSE arg.src + (a - arg.dest) + 1
Disjoint == arg.src + arg.n <= arg.dest \/ arg.dest + arg.n <= arg.src

(***************************************************************************)
(* memset, its kin and memmove, and memcpy to a place before its source or one that *)
(* does not overlap it, change the bytes they are to change as asked and   *)
(* no other, at every alignment and for every length, though the words are *)
(* cut off at both ends and whatever direction was left behind.            *)
(***************************************************************************)
MovesExactly ==
    pc = "done" /\ fn \in Movers \union Fillers /\ (fn = "memcpy" => Disjoint \/ arg.dest <= arg.src) =>
        \A a \in Addr : mem[a] = IF Within(a) THEN Wanted(a) ELSE a + 1

(***************************************************************************)
(* What printf puts out is its directives one after the other, each with   *)
(* the argument that is its own: other characters, flags and directives it *)
(* does not know take none.  And what it puts out for a number means that  *)
(* number: hexadecimal, aligned hexadecimal, unsigned, and signed.         *)
(***************************************************************************)
Meant(d, v) ==
    IF d[1] # PERCENT THEN d
    ELSE IF Last(d) \in Conversions THEN Conversion(Last(d), Len(d) > 2, v)
    ELSE IF d = <<PERCENT, PERCENT>> THEN <<PERCENT>> ELSE << >>

Number(s, radix) ==
    FoldLeft(LAMBDA sum, ch : radix * sum + (CHOOSE digit \in 0 .. radix - 1 : lookup(digit) = ch), 0, s)

Shortest(s) == Len(s) > 1 => s[1] # lookup(0)

PrintsMeaning ==
    pc = "done" /\ fn = "printf" =>
        /\ LET taking(k) == Cardinality({j \in 1 .. k : Len(arg.directives[j]) > 1
                                                        /\ Last(arg.directives[j]) \in Conversions})
           IN  result = FlattenSeq([k \in DOMAIN arg.directives |->
                                        Meant(arg.directives[k], arg.stack[IF taking(k) = 0 THEN 1 ELSE taking(k)])])
        /\ \A v \in {arg.stack[1], arg.stack[2]} :
            /\ Number(itoa(Unsigned(v), 10), 10) = Unsigned(v) /\ Shortest(itoa(Unsigned(v), 10))
            /\ Number(itoa(Unsigned(v), 16), 16) = Unsigned(v) /\ Shortest(itoa(Unsigned(v), 16))
            /\ Number(Alternate(v), 16) = Unsigned(v) /\ 4 * Len(Alternate(v)) = BITS
            /\ IF v < 0 THEN Decimal(v)[1] = MINUS /\ Number(Tail(Decimal(v)), 10) = -v
               ELSE Number(Decimal(v), 10) = v

(***************************************************************************)
(* Two strings are equal to strncmp just when strncpy makes the same bytes *)
(* of both; and a program that has room for n bytes gets a string that     *)
(* begins its arguments, which takes one byte more than it asked for when  *)
(* they are as long.  strcpy makes what strncpy does with room for all.    *)
(***************************************************************************)
StringsAgree ==
    pc = "done" /\ fn = "strings" =>
        /\ result.compared = 0 <=> result.first = result.second
        /\ result.copied = strncpy(arg.s1, result.put + 1)
        /\ Last(result.args) = 0 /\ IsPrefix(Front(result.args), arg.s1)
        /\ Len(result.args) = arg.n + 1 <=> Len(arg.s1) >= arg.n

(* The routines do to memory, the screen and strings what their callers    *)
(* take for granted (lib.c:54-503).                                        *)
LibrarySafety == MovesExactly /\ PrintsMeaning /\ StringsAgree

=============================================================================
