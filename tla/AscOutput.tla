----------------------------- MODULE AscOutput ------------------------------
(***************************************************************************)
(* The sending half of ascii_serial_com.c: the output buffer, the three    *)
(* functions that put messages in it, and the serial line that drains it.  *)
(***************************************************************************)
EXTENDS AscPack

CONSTANTS
  Puts,        (* messages given to put_message_in_output_buffer            *)
  Payloads,    (* data given to put_s_message_in_output_buffer              *)
  Errors       (* commands, data and codes given to put_error_...           *)

ASSUME GivenAssumption ==
  /\ \A m \in Puts : /\ {m.ascVersion, m.appVersion, m.command} \subseteq 0 .. 255
                     /\ m.data \in Seq(0 .. 255)
  /\ Payloads \subseteq Seq(0 .. 255)
  /\ \A e \in Errors : {e.code, e.command} \subseteq 0 .. 255 /\ e.data \in Seq(0 .. 255)

VARIABLES
  out_buf,
  send_stream_frame_counter,
  err        (* what the last function called threw                         *)

vars == <<out_buf, send_stream_frame_counter, err>>

Running == err # "crashed"

Leaves(outcome) == out_buf' = outcome.buf /\ err' = outcome.err

(* put_message_in_output_buffer, called by the application.                *)
PutMessage(m) ==
  /\ Running
  /\ \E outcome \in put_message(out_buf, m) : Leaves(outcome)
  /\ UNCHANGED send_stream_frame_counter

(* put_s_message_in_output_buffer: the counter moves on before the put.    *)
PutS(payload) ==
  /\ Running
  /\ \/ /\ Len(payload) > MAXSPAYLOADEN
        /\ Leaves(Outcome(out_buf, "DATA_TOO_LONG"))
        /\ UNCHANGED send_stream_frame_counter
     \/ /\ Len(payload) <= MAXSPAYLOADEN
        /\ \E outcome \in put_message(out_buf, StreamMessage(send_stream_frame_counter, payload)) :
             Leaves(outcome)
        /\ send_stream_frame_counter' = (send_stream_frame_counter + 1) % CounterRange

(* put_error_in_output_buffer.                                             *)
PutError(e) ==
  /\ Running
  /\ \E outcome \in put_message(out_buf, ErrorMessage(e)) : Leaves(outcome)
  /\ UNCHANGED send_stream_frame_counter

----------------------------------------------------------------------------
Init ==
  /\ out_buf = NoOutput
  /\ send_stream_frame_counter = 0
  /\ err = "none"

(* A byte for the transmit register of the USART: pop_front.               *)
TransmitByte ==
  /\ Running
  /\ out_buf.bytes # <<>>
  /\ Leaves(Outcome(pop_front_n(out_buf, 1), "none"))
  /\ UNCHANGED send_stream_frame_counter

(* Bytes that write() took: pop_front_to_fd removes some of those that lie *)
(* in one piece; an emptied ring starts again at the start of its memory.  *)
TransmitBlock ==
  /\ Running
  /\ \E n \in 0 .. Len(out_buf.bytes) :
       /\ out_buf.iStart + n <= MAXMESSAGELEN
       /\ Leaves(Outcome(IF n = Len(out_buf.bytes) THEN NoOutput
                         ELSE pop_front_n(out_buf, n), "none"))
  /\ UNCHANGED send_stream_frame_counter

Next ==
  \/ \E m \in Puts : PutMessage(m)
  \/ \E payload \in Payloads : PutS(payload)
  \/ \E e \in Errors : PutError(e)
  \/ TransmitByte
  \/ TransmitBlock

Spec == Init /\ [][Next]_vars

----------------------------------------------------------------------------
(* Properties.                                                             *)

(* The buffer never holds more than it can, and the counter fits its type. *)
TypeOK ==
  /\ out_buf \in [bytes : Seq(0 .. 255), iStart : 0 .. MAXMESSAGELEN - 1]
  /\ Len(out_buf.bytes) <= MAXMESSAGELEN
  /\ send_stream_frame_counter \in 0 .. CounterRange - 1
  /\ err \in {"none", "DATA_TOO_LONG", "INVALID_FRAME", "INVALID_FRAME_PERIOD",
              "CHECKSUM_PROBLEM", "crashed"}

(* What the three functions are asked to put, and a step that puts m.      *)
Given == Puts \cup {StreamMessage(send_stream_frame_counter, payload) : payload \in Payloads}
              \cup {ErrorMessage(e) : e \in Errors}

Put(m) ==
  \/ m \in Puts /\ PutMessage(m)
  \/ \E payload \in Payloads : m = StreamMessage(send_stream_frame_counter, payload) /\ PutS(payload)
  \/ \E e \in Errors : m = ErrorMessage(e) /\ PutError(e)

Fits(m) == Len(out_buf.bytes) + Len(Frame(m)) <= MAXMESSAGELEN
TooLong(m) == Len(m.data) > MAXDATALEN

(***************************************************************************)
(* A message that is put without an exception while the content does not   *)
(* wrap is in the buffer as its frame, checksum included, behind what was  *)
(* there before: nothing queued is overwritten, although every push_back   *)
(* of put_message_in_output_buffer would overwrite, and the checksum is    *)
(* that of this frame even if the frame itself wraps.                      *)
(***************************************************************************)
AcceptedPutAppendsItsFrame ==
  [][\A m \in Given :
       Put(m) /\ err' = "none" /\ Plain(m) /\ ~wraps(out_buf)
         => out_buf'.bytes = out_buf.bytes \o Frame(m)]_vars

(***************************************************************************)
(* put_message_in_output_buffer has no test for room; it refuses exactly   *)
(* the messages that do not fit because compute_checksum limits where the  *)
(* '.' may stand in the whole buffer.  Its own length test never hits a    *)
(* stream message or an error reply.                                       *)
(***************************************************************************)
RefusedExactlyWhenTooBig ==
  [][/\ \A m \in Given :
          Put(m) /\ Plain(m)
            => /\ err' = "DATA_TOO_LONG" <=> TooLong(m)
               /\ err' = "CHECKSUM_PROBLEM" <=> ~TooLong(m) /\ ~Fits(m)
               /\ err' \in {"none", "DATA_TOO_LONG", "CHECKSUM_PROBLEM", "crashed"}
     /\ \A e \in Errors : PutError(e) => err' # "DATA_TOO_LONG"]_vars

(***************************************************************************)
(* "Packs the message into the output format and push it onto the output   *)
(* buffer", for a caller who makes sure that it fits.                      *)
(***************************************************************************)
PutAppendsItsFrame ==
  [][\A m \in Given :
       Put(m) /\ Plain(m) /\ ~TooLong(m) /\ Fits(m)
         => out_buf'.bytes = out_buf.bytes \o Frame(m)]_vars

=============================================================================
