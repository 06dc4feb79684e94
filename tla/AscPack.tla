------------------------------ MODULE AscPack -------------------------------
(***************************************************************************)
(* put_message_in_output_buffer of ascii_serial_com.c as an operator: from *)
(* the output buffer and a message to the buffers and exceptions that one  *)
(* call may leave, and the messages that put_s_message_in_output_buffer    *)
(* and put_error_in_output_buffer put.  AscOutput makes them actions;      *)
(* MainLoop calls them in the loops of the programs.                       *)
(*                                                                         *)
(* The output buffer is the content of its ring and the place of its front *)
(* in memory.  What lies in memory outside of the content matters nowhere: *)
(* compute_checksum reads through get_blocks, whose blocks are the content *)
(* if they begin within the memory (UnwrappedBlocksHoldTheElements of      *)
(* CircularBuffer) and run far out of the buffer if they do not.           *)
(***************************************************************************)
EXTENDS AscFrame, ByteQueue, Hex

CONSTANTS
  Garbage,      (* checksums that reading outside of the buffer may yield   *)
  CounterRange, (* 2^8: the stream counter is an uint8_t                    *)
  ErrorCopyLen  (* error_message_max_copy_data_len                          *)

ASSUME OutputAssumption ==
  /\ CounterRange \in 1 .. 256
  /\ ErrorCopyLen \in Nat /\ ErrorCopyLen + 5 <= MAXDATALEN
  /\ Garbage \subseteq Seq(0 .. 255)

MAXSPAYLOADEN == MAXDATALEN - 3

(* The bytes of the buffer, front first, and the index iStart of the front. *)
NoOutput == [bytes |-> <<>>, iStart |-> 0]

(* convert_uint8_to_hex, capital letters.                                  *)
convert_uint8_to_hex(n) == <<hex_digit(n \div 16), hex_digit(n % 16)>>

(* Mutant: there is always room. *)
push_all_CountOn(buf, bytes) ==
  [bytes |-> buf.bytes \o bytes, iStart |-> buf.iStart]

(* As many push_backs as there are bytes; a full ring's front moves on.    *)
push_all(buf, bytes) ==
  LET all == buf.bytes \o bytes
      lost == IF Len(all) > MAXMESSAGELEN THEN Len(all) - MAXMESSAGELEN ELSE 0
  IN  [bytes  |-> KeepLast(all, MAXMESSAGELEN),
       iStart |-> (buf.iStart + lost) % MAXMESSAGELEN]

(* n pop_fronts.                                                           *)
pop_front_n(buf, n) ==
  [bytes |-> Drop(buf.bytes, n), iStart |-> (buf.iStart + n) % MAXMESSAGELEN]

wraps(buf) == buf.iStart + Len(buf.bytes) > MAXMESSAGELEN

----------------------------------------------------------------------------
(***************************************************************************)
(* compute_checksum on the output buffer sums the bytes from the last '>'  *)
(* to the last '.'.  If the '>' lies behind the wrap, the size of the      *)
(* first block is a wrapped size_t and the CRC runs out of the buffer: it  *)
(* crashes, or yields a checksum of whatever lies there.                   *)
(***************************************************************************)
StartOf(buf) == find_last(buf.bytes, Gt)
StopOf(buf)  == find_last(buf.bytes, Dot)
RunsOut(buf) == buf.iStart + StartOf(buf) > MAXMESSAGELEN

(* Mutant: the checksum leaves the '.' out. *)
output_checksums_NoPeriod(buf) ==
  IF RunsOut(buf) THEN Garbage
  ELSE {Crc(SubSeq(buf.bytes, StartOf(buf) + 1, StopOf(buf)))}

output_checksums(buf) ==
  IF RunsOut(buf) THEN Garbage
  ELSE {Crc(SubSeq(buf.bytes, StartOf(buf) + 1, StopOf(buf) + 1))}

Outcome(buf, err) == [buf |-> buf, err |-> err]

put_message(buf, m) ==
  LET packed == push_all(buf, Body(m))
      err == checksum_error(Len(packed.bytes), StartOf(packed), StopOf(packed))
  IN  IF Len(m.data) > MAXDATALEN THEN {Outcome(buf, "DATA_TOO_LONG")}
      ELSE IF err # "none" THEN {Outcome(packed, err)}
      ELSE {Outcome(push_all(packed, checksum \o <<Nl>>), "none") :
              checksum \in output_checksums(packed)}
           \cup IF RunsOut(packed) THEN {Outcome(packed, "crashed")} ELSE {}

StreamMessage(counter, payload) ==
  Message(48, 48, 115, convert_uint8_to_hex(counter) \o <<Comma>> \o payload)

(* The data is cut to ErrorCopyLen.                                        *)
ErrorMessage(e) ==
  Message(48, 48, 101, convert_uint8_to_hex(e.code) \o <<Comma, e.command, Comma>>
    \o SubSeq(e.data, 1, IF Len(e.data) < ErrorCopyLen THEN Len(e.data) ELSE ErrorCopyLen))

=============================================================================
