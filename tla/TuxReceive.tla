----------------------------- MODULE TuxReceive -----------------------------
(***************************************************************************)
(* What the line discipline of the tux controller does with the bytes the  *)
(* controller sends (mp2_ssbonde2/module): the serial driver's interrupt   *)
(* gives it chunks of bytes, rcv_buf puts them in a ring, and the callback *)
(* takes them out again, finds the packets of three bytes by their framing *)
(* bits and hands them to tuxctl_handle_packet.  Interrupts are served one *)
(* at a time.  The line is opened and closed at any time: the ring comes   *)
(* and goes with it, the bytes saved are the module's and stay.            *)
(*                                                                         *)
(* A byte is its kind and its place among those that came.  Of the kinds,  *)
(* "data" has the framing bit set; the others are first bytes of packets.  *)
(***************************************************************************)
EXTENDS TuxRing, SequencesExt

CONSTANTS
    PACKET_SIZE,        \* size of the callback's packet[]
    MaxChunk,           \* bound: bytes that come at a time
    MaxBytes,           \* bound: bytes that come and openings of the line
    MaxOpens            \* bound: how often the line is opened

FirstBytes == {"event", "reset", "other"}
Kinds == FirstBytes \cup {"data"}

VARIABLES
    disc_data,                  \* whether the line is open
    rx_buf, rx_start, rx_end,   \* the ring
    saved,                      \* bytes kept from one callback to the next
    buttons,                    \* the packet that buttons was last set from
    resets,                     \* packets that made the controller start again
    opens,                      \* history: how often the line was opened
    came,                       \* history: bytes that came while it was open
    kept                        \* history: those of them that were put in a ring, and not freed with it

ringVars == <<rx_buf, rx_start, rx_end>>
found == <<saved, buttons, resets>>
vars == <<disc_data, ringVars, found, opens, came, kept>>

Byte == [kind : Kinds, place : Nat]
NoByte == [kind |-> "data", place |-> 0]
NoPacket == << >>

Init ==
    /\ disc_data = FALSE /\ opens = 0
    /\ rx_buf = [k \in 0 .. TUXCTL_BUFSIZE - 1 |-> NoByte]
    /\ rx_start = 0 /\ rx_end = 0
    /\ saved = << >>
    /\ buttons = NoPacket
    /\ resets = << >>
    /\ came = 0
    /\ kept = << >>

-----------------------------------------------------------------------------
(* The callback.                                                           *)

Framed(p) == p[1].kind \in FirstBytes /\ p[2].kind = "data" /\ p[3].kind = "data"

\* Variant: bytes that begin no packet are skipped three at a time.
SkippedThree(p) == 3

\* By how much the loop goes on from a place where there is no packet.
Skipped(p) == 1

\* The loop from index i on: the packets it finds, and where it ends.
Loop(packet) ==
    LET n == Len(packet)
        from[i \in 0 .. n] ==
            LET p == SubSeq(packet, i + 1, i + 3)
            IN  IF i >= n - 2 THEN [packets |-> << >>, end |-> i]
                ELSE IF Framed(p) THEN [from[i + 3] EXCEPT !.packets = <<p>> \o @]
                ELSE from[Smaller(i + Skipped(p), n)]
    IN  from[0]

Events(packets) == SelectSeq(packets, LAMBDA p : p[1].kind = "event")

\* Variant: nothing is saved.
LeftoverNone(packet) == << >>

Leftover(packet) == SubSeq(packet, Loop(packet).end + 1, Len(packet))

\* data_callback with the ring as rcv_buf left it, and all the packets it
\* hands to tuxctl_handle_packet.
Callback(buf, end) ==
    LET n       == Smaller(buf_used(rx_start, end), PACKET_SIZE - Len(saved))
        packet  == saved \o Taken(buf, rx_start, n)
        packets == Loop(packet).packets
    IN  /\ rx_start' = Moved(rx_start, n)
        /\ saved' = Leftover(packet)
        /\ buttons' = IF Events(packets) = << >> THEN buttons ELSE Last(Events(packets))
        /\ resets' = resets \o SelectSeq(packets, LAMBDA p : p[1].kind = "reset")

\* tuxctl_ldisc_rcv_buf: what the ring has no room for is dropped, and all of
\* it when the line is closed.
Receive(kinds) ==
    LET bytes == [k \in DOMAIN kinds |-> [kind |-> kinds[k], place |-> came + k]]
        put   == SubSeq(bytes, 1, Smaller(Len(bytes), Room(rx_start, rx_end)))
    IN  /\ disc_data
        /\ came + opens + Len(kinds) <= MaxBytes
        /\ rx_buf' = Put(rx_buf, rx_end, put)
        /\ rx_end' = Moved(rx_end, Len(put))
        /\ Callback(rx_buf', rx_end')
        /\ came' = came + Len(kinds)
        /\ kept' = kept \o put
        /\ UNCHANGED <<disc_data, opens>>

-----------------------------------------------------------------------------
(* Opening and closing the line.                                           *)

\* The bytes kept that the callback has taken from the ring.
Got == IF disc_data THEN SubSeq(kept, 1, Len(kept) - buf_used(rx_start, rx_end)) ELSE kept

\* Variant: what close leaves, open takes up again.
ReopenAsLeft ==
    /\ ~disc_data /\ opens < MaxOpens
    /\ disc_data' = TRUE
    /\ opens' = opens + 1
    /\ UNCHANGED <<ringVars, found, came, kept>>

tuxctl_ldisc_open ==
    /\ ~disc_data /\ opens < MaxOpens
    /\ disc_data' = TRUE
    /\ rx_start' = 0 /\ rx_end' = 0
    /\ opens' = opens + 1
    /\ UNCHANGED <<rx_buf, found, came, kept>>

\* What is in the ring is freed with it.
tuxctl_ldisc_close ==
    /\ disc_data
    /\ disc_data' = FALSE
    /\ kept' = Got
    /\ UNCHANGED <<ringVars, found, opens, came>>

Next ==
    \/ \E n \in 1 .. MaxChunk : \E kinds \in [1 .. n -> Kinds] : Receive(kinds)
    \/ tuxctl_ldisc_open
    \/ tuxctl_ldisc_close

Spec == Init /\ [][Next]_vars

-----------------------------------------------------------------------------
(***************************************************************************)
(* Properties.                                                             *)
(***************************************************************************)

\* The packets among bytes: three in a row with the right framing bits.
PacketsIn(bytes, kind) ==
    LET at == {k \in 1 .. Len(bytes) - 2 :
                bytes[k].kind = kind /\ bytes[k + 1].kind = "data" /\ bytes[k + 2].kind = "data"}
    IN  {SubSeq(bytes, k, k + 2) : k \in at}

(***************************************************************************)
(* The packets handled are those in the bytes kept, each once and in their *)
(* order, however the bytes are cut into chunks, whatever is dropped or    *)
(* not a packet between them, wherever the ring wraps around, and even     *)
(* when the line was closed and opened within a packet; and the state of   *)
(* the buttons is that of the last.                                        *)
(***************************************************************************)
PacketsFound ==
    /\ ToSet(resets) = PacketsIn(Got, "reset")
    /\ \A j, k \in DOMAIN resets : j < k => resets[j][1].place < resets[k][1].place
    /\ LET events == PacketsIn(Got, "event")
       IN  IF events = {} THEN buttons = NoPacket
           ELSE buttons \in events /\ \A p \in events : p[1].place <= buttons[1].place

(***************************************************************************)
(* The bytes left over are at most the two that saved[] has room for, and  *)
(* are the last of those taken; they are fewer only right behind a packet. *)
(***************************************************************************)
LeftoverFits ==
    /\ Len(saved) <= 2
    /\ IsSuffix(saved, Got)
    /\ Len(saved) < Smaller(2, Len(Got)) => Len(Got) >= 3 /\ Got[Len(Got) - Len(saved)].kind = "data"

(***************************************************************************)
(* A chunk that the ring has room for is kept whole, and one that fits in  *)
(* packet[] beside the bytes saved leaves an empty ring empty.  So bytes   *)
(* are only dropped behind a chunk that was longer: such a chunk leaves a  *)
(* rest in the ring that waits for the next one.                           *)
(***************************************************************************)
NoneDropped ==
    [][disc_data /\ disc_data' =>
       LET n == came' - came
       IN  /\ n <= PACKET_SIZE - 2 /\ rx_start = rx_end => rx_start' = rx_end'
           /\ n <= TUXCTL_BUFSIZE - 1 - buf_used(rx_start, rx_end) => Len(kept') = Len(kept) + n]_vars

(* Each packet of what the ring kept is found once, and what is left of a  *)
(* chunk fits in saved[] (tuxctl-ld.c:285-318).                            *)
ReceiveSafety == PacketsFound /\ LeftoverFits

=============================================================================
