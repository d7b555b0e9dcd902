---------------------------- MODULE FileStreams ----------------------------
(***************************************************************************)
(* What the file system promises a process: each descriptor is a stream    *)
(* over the contents of one file, read in order from its beginning.  The   *)
(* items of a file are its bytes, those of the directory its names.  How   *)
(* many a read takes is up to what it asks for (FileSystem's NextReadExact *)
(* says how many).  A stream that is read by a wrong count is lost.        *)
(***************************************************************************)
EXTENDS Integers, Sequences

CONSTANTS
    Fds,            \* descriptors
    Closed,         \* what a descriptor that is not in use stands for
    Lost,           \* what one stands for whose position means nothing
    Contents        \* function from files to their sequences of items

VARIABLES
    stream,         \* for each descriptor, Closed or its file and position
    got             \* items the last call returned

vars == <<stream, got>>

Streams == {Closed, Lost} \cup [file : DOMAIN Contents, pos : Nat]

Init ==
    /\ stream = [fd \in Fds |-> Closed]
    /\ got = << >>

Open(fd, file) ==
    /\ stream[fd] = Closed
    /\ stream' = [stream EXCEPT ![fd] = [file |-> file, pos |-> 0]]
    /\ got' = << >>

Read(fd) ==
    LET items == Contents[stream[fd].file]
        pos   == stream[fd].pos
    IN  \E n \in 0 .. Len(items) - pos :
            /\ stream' = [stream EXCEPT ![fd].pos = pos + n]
            /\ got' = SubSeq(items, pos + 1, pos + n)

\* A read by a wrong count, and the reads after it: they give anything.
Lose(fd) == stream' = [stream EXCEPT ![fd] = Lost]

Close(fd) ==
    /\ stream[fd] # Closed
    /\ stream' = [stream EXCEPT ![fd] = Closed]
    /\ got' = << >>

\* The program ends by a fault.
End ==
    /\ stream' = [fd \in Fds |-> Closed]
    /\ got' = << >>

\* A call that fails, and execute's reading of a whole file.
Fail == got' = << >> /\ UNCHANGED stream
Load(file) == got' = Contents[file] /\ UNCHANGED stream

Next ==
    \/ \E fd \in Fds :
        \/ \E file \in DOMAIN Contents : Open(fd, file)
        \/ stream[fd] \notin {Closed, Lost} /\ Read(fd)
        \/ stream[fd] # Closed /\ Lose(fd)
        \/ Close(fd)
    \/ End \/ Fail
    \/ \E file \in DOMAIN Contents : Load(file)

Spec == Init /\ [][Next]_vars

=============================================================================
