---------------------------- MODULE ProcessStack ----------------------------
(***************************************************************************)
(* What the process layer of the kernel promises.  Programs form a stack:  *)
(* execute puts a program on top and suspends its caller, halt takes it    *)
(* off and resumes the caller exactly as it was left, and the machine      *)
(* always runs the program on top.  When the bottom program halts, the     *)
(* kernel starts a fresh shell in its place.                               *)
(***************************************************************************)
EXTENDS Naturals, Sequences

CONSTANTS
    MaxProcess,     \* how many programs may be on the stack
    Programs,       \* the executable files
    Shell,          \* the program the kernel starts by itself
    Args,           \* argument strings
    Fds,            \* descriptor numbers
    Ops,            \* what a descriptor can be, "free" included
    FreshTable,     \* the descriptors of a program that has just started
    Idle            \* what runs before the first program does

VARIABLES
    stack,      \* the programs started and not halted, oldest first
    running     \* what the machine runs: program, arguments, descriptors

vars == <<stack, running>>

Fresh(prog, args) == [prog |-> prog, args |-> args, fds |-> FreshTable]

Top(s) == IF s = << >> THEN Idle ELSE s[Len(s)]

TypeOK ==
    /\ \A i \in DOMAIN stack :
           /\ stack[i].prog \in Programs
           /\ stack[i].args \in Args
           /\ stack[i].fds \in [Fds -> Ops]
    /\ Len(stack) <= MaxProcess

Init ==
    /\ stack = << >>
    /\ running = Idle

Push(prog, args) ==
    /\ Len(stack) < MaxProcess
    /\ stack' = Append(stack, Fresh(prog, args))

Pop ==
    /\ Len(stack) > 1
    /\ stack' = SubSeq(stack, 1, Len(stack) - 1)

Restart(args) ==
    /\ Len(stack) = 1
    /\ stack' = <<Fresh(Shell, args)>>

\* The running program opens or closes one descriptor of its own.
Redescribe(fd, ops) ==
    /\ stack # << >>
    /\ stack' = [stack EXCEPT ![Len(stack)].fds[fd] = ops]

Step ==
    \/ \E prog \in Programs, args \in Args : Push(prog, args)
    \/ Pop
    \/ \E args \in Args : Restart(args)
    \/ \E fd \in Fds, ops \in Ops : Redescribe(fd, ops)

Next == Step /\ running' = Top(stack')

Spec == Init /\ [][Next]_vars

=============================================================================
