----------------------------- MODULE AscUnpack ------------------------------
(***************************************************************************)
(* get_message_from_input_buffer of ascii_serial_com.c as an operator:     *)
(* from the content of the input buffer to what one call leaves in it, the *)
(* exception it throws and the message it unpacks.  AscInput makes it an   *)
(* action; MainLoop calls it in the loops of the programs.                 *)
(***************************************************************************)
EXTENDS AscFrame, ByteQueue

(* command = '\0' *)
NoMessage == Message(0, 0, 0, <<>>)

Nothing(rest)      == [rest |-> rest, err |-> "none", message |-> NoMessage]
Throws(err, rest)  == [rest |-> rest, err |-> err, message |-> NoMessage]

(* The buffer's checksum over its first '>' to its first '.'.              *)

(* Mutant: as on output, the last '>' and the last '.'. *)
input_checksum_Last(s) == Crc(SubSeq(s, find_last(s, Gt) + 1, find_last(s, Dot) + 1))

input_checksum(s) == Crc(SubSeq(s, find_first(s, Gt) + 1, find_first(s, Dot) + 1))

(* The checksum characters are there, and the frame ends behind them.      *)
frame_ends(tail) ==
  Len(tail) >= NCHARCHECKSUM + 1 /\ tail[NCHARCHECKSUM + 1] = Nl

(***************************************************************************)
(* From "pop off starting '>'" on.  The data loop runs iPeriod - 4 times,  *)
(* which is a huge number if iPeriod < 4 (only without a checksum: it      *)
(* refuses such a frame); then it stops behind a later '.', and "pop off   *)
(* '.'" takes the byte behind that one.                                    *)
(***************************************************************************)
unpack(s, ignore) ==
  LET iPeriod == find_first(s, Dot)
      body == Drop(s, 4)
      dataLen == find_first(body, Dot)
      popped == 4 + dataLen + (IF iPeriod >= 4 THEN 1 ELSE 2)
      tail == Drop(s, popped)
      rest == Drop(tail, NCHARCHECKSUM + 1)
  IN  IF popped > Len(s) THEN Throws("CB_POP_EMPTY", <<>>)
      ELSE IF ~frame_ends(tail) THEN Throws("INVALID_FRAME", tail)
      ELSE IF ~ignore /\ Take(tail, NCHARCHECKSUM) # input_checksum(s)
        THEN Nothing(rest)
      ELSE [rest |-> rest, err |-> "none",
            message |-> Message(s[2], s[3], s[4], Take(body, dataLen))]

(* Mutant: the unfinished frames in front stay. *)
synchronised_Never(buf) == buf

synchronised(buf) == remove_front_unfinished_frames(buf, Gt, Nl)

(* "pop off bad frame": everything up to the first '\n'.                   *)
(* Mutant: it is not popped. *)
pop_bad_frame_Not(s) == s

pop_bad_frame(s) == remove_front_to(s, Nl, TRUE)

(* The rest, for a buffer s that has been synchronised.                    *)
get_message(s, ignore) ==
  LET iEnd == find_first(s, Nl)
      iPeriod == find_first(s, Dot)
      err == checksum_error(Len(s), find_first(s, Gt), iPeriod)
  IN  IF iEnd >= Len(s) THEN Nothing(s)
      ELSE IF iPeriod > iEnd
        THEN Throws("INVALID_FRAME_PERIOD", pop_bad_frame(s))
      ELSE IF ~ignore /\ err # "none" THEN Throws(err, s)
      ELSE unpack(s, ignore)

(* The one result of a call, as a set.                                     *)

(* Mutant: a call that drops unfinished frames returns without a message.  *)
get_message_from_input_buffer_OneThing(buf, ignore) ==
  {IF s = buf THEN get_message(s, ignore) ELSE Nothing(s) : s \in {synchronised(buf)}}

get_message_from_input_buffer(buf, ignore) ==
  {get_message(s, ignore) : s \in {synchronised(buf)}}

----------------------------------------------------------------------------
(* The whole frames in a buffer, as their distances from its back.         *)
FramesIn(s) ==
  {<<Len(s) - be[1], Len(s) - be[2]>> : be \in
     {pair \in Where(s, Gt) \X Where(s, Nl) : IsFrame(SubSeq(s, pair[1], pair[2]))}}

FrameAt(s, f) == SubSeq(s, Len(s) - f[1], Len(s) - f[2])

(***************************************************************************)
(* A frame whose checksum cannot be computed stays in front of the buffer: *)
(* compute_checksum throws before anything is popped.                      *)
(***************************************************************************)
Refused(buf) ==
  \E s \in {synchronised(buf)} :
      /\ find_first(s, Dot) < find_first(s, Nl) /\ find_first(s, Nl) < Len(s)
      /\ checksum_error(Len(s), find_first(s, Gt), find_first(s, Dot)) # "none"

----------------------------------------------------------------------------
(* A host that is sent some bytes and calls get_message again and again.   *)

(* One call, with the bytes that are left and the messages got so far.     *)
Call(host) ==
  LET result == CHOOSE r \in get_message_from_input_buffer(host.rest, FALSE) : TRUE
  IN  [rest |-> result.rest,
       got  |-> IF result.message = NoMessage THEN host.got ELSE Append(host.got, result.message)]

(* The messages it gets, in order.  It calls as often as there are bytes:  *)
(* a call that leaves all of them where they are is followed by none that  *)
(* does not.                                                               *)
Heard(bytes) ==
  LET after[n \in 0 .. Len(bytes)] ==
        IF n = 0 THEN [rest |-> bytes, got |-> <<>>] ELSE Call(after[n - 1])
  IN  after[Len(bytes)].got

(* A '.' closer to a '>' than in any frame, which compute_checksum refuses. *)
(* Only a message whose data holds a frame character can leave one.        *)
Malformed(bytes) ==
  \E start \in Where(bytes, Gt), period \in Where(bytes, Dot) : period - start \in 1 .. 3

=============================================================================
