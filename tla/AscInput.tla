------------------------------ MODULE AscInput ------------------------------
(***************************************************************************)
(* The receiving half of ascii_serial_com.c: the input buffer, filled byte *)
(* by byte from a serial line, and get_message_from_input_buffer.          *)
(*                                                                         *)
(* The input buffer is the content of its ring (CircularBuffer implements  *)
(* BoundedDeque).  Its place in memory could matter only to the blocks the *)
(* checksum is computed over.  Those begin at the first '>', which is the  *)
(* front of the ring when the checksum is computed, and from the front on  *)
(* the blocks are right (UnwrappedBlocksHoldTheElements).                  *)
(*                                                                         *)
(* The host sends frames; the line can lose, alter or add MaxErrors bytes. *)
(***************************************************************************)
EXTENDS AscUnpack

CONSTANTS
  Messages,   (* the messages the host sends                                *)
  NoiseBytes, (* the bytes the line can add, or alter a byte to             *)
  MaxErrors   (* bound on the errors of the line                            *)

ASSUME LineAssumption ==
  /\ \A m \in Messages : Frame(m) \in Seq(0 .. 255) \ {<<>>}
  /\ NoiseBytes \subseteq 0 .. 255
  /\ MaxErrors \in Nat

VARIABLES
  in_buf,            (* content of the input buffer                         *)
  ignoreCRCMismatch,
  got,               (* what the last get_message left: error and message   *)
  line,              (* the rest of the frame being sent                    *)
  errors             (* errors of the line so far                           *)

vars == <<in_buf, ignoreCRCMismatch, got, line, errors>>

----------------------------------------------------------------------------
Init ==
  /\ in_buf = <<>>
  /\ ignoreCRCMismatch = FALSE
  /\ got = [err |-> "none", message |-> NoMessage]
  /\ line = <<>>
  /\ errors = 0

GetMessage ==
  /\ \E result \in get_message_from_input_buffer(in_buf, ignoreCRCMismatch) :
       /\ in_buf' = result.rest
       /\ got' = [err |-> result.err, message |-> result.message]
  /\ UNCHANGED <<ignoreCRCMismatch, line, errors>>

set_ignore_CRC_mismatch ==
  /\ ignoreCRCMismatch' = TRUE
  /\ UNCHANGED <<in_buf, got, line, errors>>

unset_ignore_CRC_mismatch ==
  /\ ignoreCRCMismatch' = FALSE
  /\ UNCHANGED <<in_buf, got, line, errors>>

(* circular_buffer_push_back on the input buffer: the oldest byte makes room. *)

(* Mutant: there is always room. *)
Arrive_CountOn(byte) == in_buf' = Append(in_buf, byte)

Arrive(byte) == in_buf' = KeepLast(Append(in_buf, byte), MAXMESSAGELEN)

(* The host sends the next byte of its frame, or the first of a new one.   *)
Sending == IF line = <<>> THEN {Frame(m) : m \in Messages} ELSE {line}

SendByte ==
  /\ \E frame \in Sending : Arrive(Head(frame)) /\ line' = Tail(frame)
  /\ UNCHANGED <<ignoreCRCMismatch, got, errors>>

LoseByte ==
  /\ errors < MaxErrors
  /\ \E frame \in Sending : line' = Tail(frame)
  /\ errors' = errors + 1
  /\ UNCHANGED <<in_buf, ignoreCRCMismatch, got>>

AlterByte ==
  /\ errors < MaxErrors
  /\ \E frame \in Sending : line' = Tail(frame)
  /\ \E byte \in NoiseBytes : Arrive(byte)
  /\ errors' = errors + 1
  /\ UNCHANGED <<ignoreCRCMismatch, got>>

AddByte ==
  /\ errors < MaxErrors
  /\ \E byte \in NoiseBytes : Arrive(byte)
  /\ errors' = errors + 1
  /\ UNCHANGED <<ignoreCRCMismatch, got, line>>

Next ==
  \/ GetMessage
  \/ set_ignore_CRC_mismatch
  \/ unset_ignore_CRC_mismatch
  \/ SendByte
  \/ LoseByte
  \/ AlterByte
  \/ AddByte

(* The application's loop calls get_message again and again.               *)
Spec == Init /\ [][Next]_vars /\ WF_vars(GetMessage)

----------------------------------------------------------------------------
(* Properties.                                                             *)

Errors == {"none", "INVALID_FRAME", "INVALID_FRAME_PERIOD", "CHECKSUM_PROBLEM",
           "CB_POP_EMPTY"}

(* The buffers and messages have their types, within their sizes. *)
TypeOK ==
  /\ in_buf \in Seq(0 .. 255) /\ Len(in_buf) <= MAXMESSAGELEN
  /\ ignoreCRCMismatch \in BOOLEAN
  /\ got.err \in Errors /\ got.message.data \in Seq(0 .. 255)
  /\ line \in Seq(0 .. 255)
  /\ errors \in 0 .. MaxErrors

Unpacks == GetMessage /\ got'.message # NoMessage

(***************************************************************************)
(* With the checksum in force, get_message_from_input_buffer hands over    *)
(* only what stood in the buffer as one whole frame with the right         *)
(* checksum, however the line tore, joined or altered the frames before,   *)
(* its data fits in MAXDATALEN, and what stood behind it stays.            *)
(***************************************************************************)
UnpackedIsAFrame ==
  [][Unpacks /\ ~ignoreCRCMismatch
       => LET frame == Frame(got'.message)
              front == Len(in_buf) - Len(in_buf') - Len(frame)
          IN  /\ IsFrame(frame)
              /\ front >= 0
              /\ Drop(in_buf, front) = frame \o in_buf']_vars

(***************************************************************************)
(* With the checksum in force, no call of get_message_from_input_buffer    *)
(* removes a whole frame from the buffer except the first, and that one    *)
(* only by handing it over: resynchronising behind a bad frame (the pops   *)
(* before each Throw and after a mismatch) never eats into a good one.     *)
(***************************************************************************)
GoodFramesKept ==
  [][GetMessage /\ ~ignoreCRCMismatch
       => \A f \in FramesIn(in_buf) \ FramesIn(in_buf') :
            /\ Frame(got'.message) = FrameAt(in_buf, f)
            /\ \A g \in FramesIn(in_buf) : g[1] <= f[1]]_vars

(***************************************************************************)
(* Without an error of the line, get_message_from_input_buffer throws      *)
(* nothing and hands over nothing but what the host sent, with the         *)
(* checksum in force or ignored: the frames that circular_buffer_push_back *)
(* tears by overwriting the front of the full input buffer are             *)
(* recognised and dropped, never refused or taken for frames.              *)
(***************************************************************************)
CleanLineIsUnderstood ==
  errors = 0 => got.err = "none" /\ got.message \in Messages \cup {NoMessage}

(***************************************************************************)
(* Without an error of the line, a call of get_message_from_input_buffer   *)
(* that finds whole frames in the input buffer hands over one of them: no  *)
(* call is spent on the bytes in front, so that what FramesAreUnpacked     *)
(* says is true of such a line.                                            *)
(***************************************************************************)
CleanLineIsUnpackedAtOnce ==
  [][GetMessage /\ errors = 0 /\ FramesIn(in_buf) # {} => Unpacks]_vars

(***************************************************************************)
(* A call that finds a whole frame in the input buffer, and no frame in    *)
(* front that compute_checksum refuses, takes bytes from the buffer,       *)
(* whether it throws or not: no bad frame makes get_message_from_input_-   *)
(* buffer stand still before a good one.                                   *)
(***************************************************************************)
CallsMakeProgress ==
  [][GetMessage /\ FramesIn(in_buf) # {} /\ (ignoreCRCMismatch \/ ~Refused(in_buf))
       => Len(in_buf') < Len(in_buf)]_vars

(***************************************************************************)
(* A loop that keeps calling get_message_from_input_buffer keeps handing   *)
(* over frames as long as there are whole ones in the buffer, unless a     *)
(* refused frame stands in front of them.                                  *)
(***************************************************************************)
UnrefusedFramesAreUnpacked ==
  \/ []<>(FramesIn(in_buf) = {} \/ Refused(in_buf))
  \/ []<><<Unpacks>>_vars

(***************************************************************************)
(* "Unpacks the first message found in the input buffer": whole frames do  *)
(* not stay there for ever while get_message_from_input_buffer is called   *)
(* again and again.                                                        *)
(***************************************************************************)
FramesAreUnpacked == []<>(FramesIn(in_buf) = {}) \/ []<><<Unpacks>>_vars

=============================================================================
