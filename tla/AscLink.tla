------------------------------ MODULE AscLink -------------------------------
(***************************************************************************)
(* AscOutput with the other end of the line: a host that uses the same     *)
(* library and starts to listen at any moment.  From then on it is sent    *)
(* what the output buffer holds, which may begin in the middle of a frame, *)
(* and may contain the torn bytes of messages that were refused after they *)
(* had been pushed.  The line itself is perfect here; AscInput has one     *)
(* that is not.                                                            *)
(***************************************************************************)
EXTENDS AscOutput, AscUnpack

----------------------------------------------------------------------------
(***************************************************************************)
(* Whatever was put, refused half-way, overwritten and sent before, a host *)
(* that starts to listen gets the whole frames of the output buffer and no *)
(* others: torn bytes hide none and forge none.                            *)
(***************************************************************************)
HostGetsWholeFrames ==
  ~Malformed(out_buf.bytes)
    => LET frames == {FrameAt(out_buf.bytes, f) : f \in FramesIn(out_buf.bytes)}
           heard == Heard(out_buf.bytes)
       IN  /\ {Frame(heard[i]) : i \in DOMAIN heard} = frames
           /\ Len(heard) = Cardinality(FramesIn(out_buf.bytes))

(***************************************************************************)
(* A message that is put without an exception reaches the host, as it was  *)
(* given, behind those the host would get anyway: what                     *)
(* put_message_in_output_buffer pushes get_message_from_input_buffer       *)
(* unpacks, also behind the torn bytes of refused messages.                *)
(***************************************************************************)
AcceptedPutReachesTheHost ==
  [][\A m \in Given :
       Put(m) /\ err' = "none" /\ Plain(m) /\ ~wraps(out_buf) /\ ~Malformed(out_buf.bytes)
         => Heard(out_buf'.bytes) = Append(Heard(out_buf.bytes), m)]_vars

=============================================================================
