------------------------------ MODULE WsFrames ------------------------------
(***************************************************************************)
(* The bytes of a WebSocket connection: do_read, handle_fragment and       *)
(* build_header of src/src/crowlib/crow/websocket.h.  The module           *)
(* WsConnection has the same connection with whole frames, its lifetime    *)
(* and its threads; here is what a frame is and how it is read from a      *)
(* stream that arrives in pieces.                                          *)
(*                                                                         *)
(* A reader is the connection between two pieces.  The two bytes of the    *)
(* header and the payload are read with async_read_some, which returns     *)
(* what there is; length and mask with async_read, which waits.            *)
(***************************************************************************)
EXTENDS Integers, Sequences, SequencesExt, Bitwise, Text

CONSTANT MaxPayload     \* max_payload_bytes_

Reader ==
    [state |-> "MiniHeader", first |-> 0, second |-> 0, length |-> 0, mask |-> <<>>,
     fragment |-> <<>>, message |-> <<>>, binary |-> FALSE, unread |-> <<>>,
     out |-> <<>>, short |-> FALSE]

HasMask(r) == r.second >= 128
IsFin(r) == r.first >= 128
Opcode(r) == r.first % 16

\* A number in network byte order (ntohs, ntohl).
BigEndian(bytes) == FoldLeft(LAMBDA acc, b : 256 * acc + b, 0, bytes)

\* The mini header.  A read of one byte is taken for two, the second being 0.
ReadMiniHeader(r, bytes) ==
    LET second == IF Len(bytes) = 2 THEN bytes[2] ELSE 0
    IN [r EXCEPT !.first = bytes[1], !.second = second,
                 !.short = @ \/ Len(bytes) = 1,
                 !.length = IF second % 128 < 126 THEN second % 128 ELSE @,
                 !.state = CASE second % 128 = 127 -> "Len64"
                             [] second % 128 = 126 -> "Len16"
                             [] OTHER -> "Mask"]

ReadLength(r, bytes) == [r EXCEPT !.length = BigEndian(bytes), !.state = "Mask"]

Deliver(r, kind, data) == [r EXCEPT !.out = Append(@, <<kind, data>>)]

\* Mutant of HandleFragment: a control frame ends the message it interrupts.
HandleFragmentShared(r) ==
    LET data == IF HasMask(r)
                THEN [i \in DOMAIN r.fragment |-> r.fragment[i] ^^ r.mask[((i - 1) % 4) + 1]]
                ELSE r.fragment
        t == [r EXCEPT !.fragment = <<>>, !.state = "MiniHeader"]
        whole == t.message \o data
    IN CASE Opcode(r) \in {0, 1, 2} ->
              IF IsFin(r) THEN Deliver([t EXCEPT !.message = <<>>], "message", whole)
              ELSE [t EXCEPT !.message = whole]
         [] Opcode(r) = 8 -> Deliver(t, "close", data)
         [] Opcode(r) = 9 -> Deliver([t EXCEPT !.message = <<>>], "pong", data)
         [] OTHER -> t

\* handle_fragment: data frames add to the message, which the last one
\* delivers; control frames are handled on their own.
HandleFragment(r) ==
    LET data == IF HasMask(r)
                THEN [i \in DOMAIN r.fragment |-> r.fragment[i] ^^ r.mask[((i - 1) % 4) + 1]]
                ELSE r.fragment
        kind == IF Opcode(r) = 0 THEN r.binary ELSE Opcode(r) = 2
        t == [r EXCEPT !.fragment = <<>>, !.state = "MiniHeader"]
        whole == t.message \o data
    IN CASE Opcode(r) \in {0, 1, 2} ->
              IF IsFin(r) THEN Deliver([t EXCEPT !.message = <<>>, !.binary = kind], "message", whole)
              ELSE [t EXCEPT !.message = whole, !.binary = kind]
         [] Opcode(r) = 8 -> Deliver(t, "close", data)
         [] Opcode(r) = 9 -> Deliver(t, "pong", data)
         [] OTHER -> t

\* The payload: as much as has arrived, handled when nothing is missing.
ReadPayload(r, bytes) ==
    LET t == [r EXCEPT !.fragment = @ \o bytes, !.length = @ - Len(bytes)]
    IN IF t.length = 0 THEN HandleFragment(t) ELSE t

\* The bytes the pending read wants, and how many it is content with.
Wants(r) == CASE r.state = "MiniHeader" -> 2
              [] r.state = "Len16" -> 2
              [] r.state = "Len64" -> 8
              [] r.state = "Mask" -> IF HasMask(r) THEN 4 ELSE 0
              [] r.state = "Payload" -> r.length
              [] OTHER -> 0
Enough(r) == IF r.state \in {"MiniHeader", "Payload"} THEN 1 ELSE Wants(r)

\* One completion of the pending read.
Complete(r, bytes) ==
    CASE r.state = "MiniHeader" -> ReadMiniHeader(r, bytes)
      [] r.state \in {"Len16", "Len64"} -> ReadLength(r, bytes)
      [] r.state = "Mask" -> IF r.length > MaxPayload THEN [r EXCEPT !.state = "Closed"]
                             ELSE [r EXCEPT !.mask = bytes, !.state = "Payload"]
      [] r.state = "Payload" -> ReadPayload(r, bytes)

RECURSIVE Drain(_)
\* Reads complete one after the other while there is enough to read.
Drain(r) ==
    LET wants == Wants(r)
        n == IF wants < Len(r.unread) THEN wants ELSE Len(r.unread)
    IN IF r.state = "Closed" \/ (wants > 0 /\ n < Enough(r)) THEN r
       ELSE Drain(Complete([r EXCEPT !.unread = SubSeq(@, n + 1, Len(@))], SubSeq(r.unread, 1, n)))

\* A piece of the stream arrives.
Arrive(r, bytes) == Drain([r EXCEPT !.unread = @ \o bytes])

----------------------------------------------------------------------------
(* Writing.                                                                *)

\* build_header: one, two or eight bytes of length.
BuildHeader(opcode, size) ==
    CASE size < 126 -> <<128 + opcode, size>>
      [] size \in 126 .. 65535 -> <<128 + opcode, 126>> \o Bytes(size, 2)
      [] OTHER -> <<128 + opcode, 127>> \o Bytes(size, 8)

\* A client's frame: masked, and perhaps not the last of its message.
ClientFrame(fin, opcode, mask, data) ==
    <<(IF fin THEN 128 ELSE 0) + opcode>>
    \o (IF Len(data) < 126 THEN <<128 + Len(data)>> ELSE <<254>> \o Bytes(Len(data), 2)) \o mask
    \o [i \in DOMAIN data |-> data[i] ^^ mask[((i - 1) % 4) + 1]]

=============================================================================
