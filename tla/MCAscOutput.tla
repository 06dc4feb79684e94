----------------------------- MODULE MCAscOutput ----------------------------
(***************************************************************************)
(* AscOutput with a 16-byte buffer, one checksum character and a stream    *)
(* counter of one bit: one or two frames fit in the buffer.               *)
(***************************************************************************)
EXTENDS AscLink

MCCrc(bytes) ==
  << 48 + (MapThenSumSet(LAMBDA i : i * bytes[i], 1 .. Len(bytes)) % 7) >>

(* A shortest frame, one whose data holds a '>', and data that is too long. *)
MCPuts == {Message(48, 48, 119, <<>>), Message(48, 48, 119, <<Gt>>),
           Message(48, 48, 119, [i \in 1 .. MAXDATALEN + 1 |-> 48])}

(* The longest, and one that is too long.                                  *)
MCPayloads == {[i \in 1 .. n |-> 48] : n \in {MAXSPAYLOADEN, MAXSPAYLOADEN + 1}}

MCErrors == {[command |-> 119, data |-> [i \in 1 .. MAXDATALEN |-> 48], code |-> 16]}

MCGarbage == {<<70>>}

=============================================================================
