--------------------------- MODULE PollLoopProofs ---------------------------
(***************************************************************************)
(* The native programs keep their buffers within bounds, a read()          *)
(* overwrites no whole frame, a host that hangs up finds the buffers       *)
(* emptied, and without exceptions the programs wait for the host with no  *)
(* input left: for every set of scripts, all sizes of the buffers, and     *)
(* whatever the register handlers answer.                                  *)
(***************************************************************************)
EXTENDS PollLoop, ByteQueueLemmas

(* What is proved of get_message_from_input_buffer and of                  *)
(* put_message_in_output_buffer, of which the loops make use.              *)
In == INSTANCE AscInputProofs
        WITH Messages <- {}, NoiseBytes <- {}, MaxErrors <- 0,
             ignoreCRCMismatch <- FALSE, got <- NoMessage, errors <- 0

Out == INSTANCE AscOutputProofs
        WITH Puts <- {}, Payloads <- {}, Errors <- {}, err <- "none",
             send_stream_frame_counter <- 0

(* convert_uint16_to_hex writes four characters; answers are of bytes.     *)
CrcYieldsDigits == Out!CrcYieldsDigits
RepliesAreMessages == \A m : Out!IsMessage(m) => Out!IsMessage(Reply(m))

(* The loops call the functions of which the two modules prove something:  *)
(* get_message_from_input_buffer, and what a refused frame is.             *)
LEMMA SameGet ==
  ASSUME NEW buf
  PROVE  /\ In!get_message_from_input_buffer(buf, FALSE)
              = get_message_from_input_buffer(buf, FALSE)
         /\ In!Refused(buf) = Refused(buf)
         /\ In!Where(buf, In!Nl) = Where(buf, Nl)
  BY DEF In!get_message_from_input_buffer, get_message_from_input_buffer,
     In!get_message, get_message, In!synchronised, synchronised,
     In!remove_front_unfinished_frames, remove_front_unfinished_frames,
     In!FrontFrame, FrontFrame, In!Completes, Completes, In!Opens, Opens,
     In!unpack, unpack, In!frame_ends, frame_ends, In!input_checksum, input_checksum,
     In!pop_bad_frame, pop_bad_frame, In!remove_front_to, remove_front_to,
     In!checksum_error, checksum_error, In!find_first, find_first,
     In!Take, Take, In!Drop, Drop, In!Where, Where, In!Min, Min, In!Max, Max,
     In!Nothing, Nothing, In!Throws, Throws, In!NoMessage, NoMessage,
     In!Message, Message, In!Gt, Gt, In!Nl, Nl, In!Dot, Dot, In!Refused, Refused

(* put_message_in_output_buffer. *)
LEMMA SamePut ==
  ASSUME NEW buf, NEW m
  PROVE  Out!put_message(buf, m) = put_message(buf, m)
  BY DEF Out!put_message, put_message, Out!Outcome, Outcome,
     Out!push_all, push_all, Out!KeepLast, KeepLast, Out!Drop, Drop,
     Out!checksum_error, checksum_error, Out!output_checksums, output_checksums,
     Out!RunsOut, RunsOut, Out!StartOf, StartOf, Out!StopOf, StopOf,
     Out!find_last, find_last, Out!Where, Where, Out!Max, Max,
     Out!Body, Body, Out!Gt, Gt, Out!Dot, Dot, Out!Nl, Nl

(* The sizes are naturals. *)
LEMMA Sizes == MAXMESSAGELEN \in Nat /\ MAXMESSAGELEN > 0
  BY SizesAssumption

----------------------------------------------------------------------------
(* The passes of the loops.                                                *)

MessagePass == <<"poll", "input", "receive", "output", "set_timeout">>
RawPass == <<"poll", "input", "output", "set_timeout">>

(* The program that has no messages is the raw loopback. *)
LEMMA PassOfProgram ==
  ASSUME setup \in Setups
  PROVE  /\ Steps = IF Raw THEN RawPass ELSE MessagePass
         /\ IgnoresCRC = FALSE /\ setup.script \in Seq(0 .. 255)
<1>1. program \in PollPrograms /\ setup.script \in Seq(0 .. 255)
  BY PollAssumption DEF program
<1>2. Steps = IF Raw THEN RawPass ELSE MessagePass
  BY <1>1 DEF PollPrograms, Raw, Steps, RawPass, MessagePass, NativeLoopback,
     NativeRawLoopback, NativeRegisterDevice
<1>3. IgnoresCRC = FALSE
  BY <1>1 DEF PollPrograms, IgnoresCRC
<1> QED BY <1>1, <1>2, <1>3

(* No step changes the pass. *)
LEMMA SamePass ==
  ASSUME setup' = setup
  PROVE  Steps' = Steps /\ program' = program /\ Raw' = Raw
<1>1. program' = program
  BY DEF program
<1> QED BY <1>1 DEF Steps, Raw

ControlType == setup \in Setups /\ pc \in 0 .. Len(Steps)

(* A step leads on in its pass, or out of it; a read leads to a message. *)
LEMMA Moves ==
  ASSUME ControlType, setup' = setup, ~Ended
  PROVE  /\ Advance => ControlType' /\ (At("input") /\ ~Raw => At("receive")')
         /\ pc' = 0 => ControlType'
         /\ \A err : After(err) => ControlType'
<1> DEFINE n == Len(Steps)
<1>1. n \in Nat /\ n > 0 /\ n = IF Raw THEN 4 ELSE 5
  <2>1. Len(MessagePass) = 5 /\ Len(RawPass) = 4
    BY DEF RawPass, MessagePass
  <2>2. n = Len(IF Raw THEN RawPass ELSE MessagePass)
    BY PassOfProgram DEF ControlType
  <2> HIDE DEF n
  <2>3. n = IF Raw THEN 4 ELSE 5
    BY <2>1, <2>2
  <2> QED BY <2>3
<1>2. Steps' = Steps
  BY SamePass
<1>3. setup' \in Setups
  BY DEF ControlType
<1>4. pc \in 1 .. n
  BY <1>1 DEF ControlType, Ended
<1>5. ASSUME pc' \in 0 .. n PROVE ControlType'
  BY <1>2, <1>3, <1>5 DEF ControlType
<1>6. pc' = 0 => ControlType'
  <2>1. 0 \in 0 .. n
    BY <1>1
  <2> QED BY <1>5, <2>1
<1>7. Advance => ControlType'
  <2> SUFFICES ASSUME Advance PROVE pc' \in 0 .. n
    BY <1>5
  <2>1. pc' = ((pc + 1 - 1) % n) + 1
    BY DEF Advance, Skip
  <2> HIDE DEF n
  <2>2. CASE Raw
    BY <1>1, <1>4, <2>1, <2>2
  <2>3. CASE ~Raw
    BY <1>1, <1>4, <2>1, <2>3
  <2> QED BY <2>2, <2>3
<1>8. ASSUME Advance, At("input"), ~Raw PROVE At("receive")'
  <2>1. Steps = MessagePass /\ Len(MessagePass) = 5
    BY <1>8, PassOfProgram DEF ControlType, MessagePass
  <2>2. pc \in 1 .. 5 /\ MessagePass[pc] = "input"
    BY <1>4, <1>8, <2>1 DEF At
  <2>3. pc = 2
    BY <2>2 DEF MessagePass
  <2>4. pc' = 3
    <3>1. pc' = ((2 + 1 - 1) % 5) + 1
      BY <1>8, <2>1, <2>3 DEF Advance, Skip
    <3> QED BY <3>1
  <2> QED BY <1>2, <2>1, <2>4 DEF At, Ended, MessagePass
<1>9. ASSUME NEW err, After(err) PROVE ControlType'
  <2>1. Advance \/ pc' = 0 \/ Catch
    BY <1>9 DEF After
  <2>2. Catch => pc' = 0 \/ pc' = 1
    BY DEF Catch
  <2>3. 1 \in 0 .. n
    BY <1>1
  <2> QED BY <1>5, <1>6, <1>7, <2>1, <2>2, <2>3
<1> QED BY <1>6, <1>7, <1>8, <1>9

----------------------------------------------------------------------------
(* Types.                                                                  *)

InputType == in_buf \in Seq(0 .. 255) /\ Len(in_buf) <= MAXMESSAGELEN

OutputType ==
  /\ out_buf \in [bytes : Seq(0 .. 255), iStart : 0 .. MAXMESSAGELEN - 1]
  /\ Len(out_buf.bytes) <= MAXMESSAGELEN

HostType ==
  /\ line \in Seq(0 .. 255) /\ pipe \in Seq(0 .. 255)
  /\ closed \in BOOLEAN /\ reader \in BOOLEAN

PollType ==
  /\ inflags \subseteq {"POLLIN", "POLLHUP"} /\ outflags \subseteq {"POLLOUT", "POLLHUP"}
  /\ timeout \in {-1, 5} /\ caught \in BOOLEAN /\ streaming_is_on \in BOOLEAN

TypeInv == ControlType /\ InputType /\ OutputType /\ HostType /\ PollType

(***************************************************************************)
(* A full input buffer, once it has been looked at, has no '\n' in it, or  *)
(* a refused frame in front.                                               *)
(***************************************************************************)
IsStuck(buf) == Len(buf) = MAXMESSAGELEN => Where(buf, Nl) = {} \/ Refused(buf)

FullIsStuck == ~Raw /\ ~Ended /\ ~At("receive") => IsStuck(in_buf)

(* What get_message leaves, and its message. *)
LEMMA GetLeads ==
  ASSUME ControlType, InputType,
         NEW result \in get_message_from_input_buffer(in_buf, IgnoresCRC)
  PROVE  /\ result.rest \in Seq(0 .. 255) /\ Len(result.rest) <= MAXMESSAGELEN
         /\ IsStuck(result.rest)
         /\ Out!IsMessage(result.message)
<1>1. IgnoresCRC = FALSE
  BY PassOfProgram DEF ControlType
<1>2. result \in In!get_message_from_input_buffer(in_buf, FALSE)
  BY <1>1, SameGet
<1>3. in_buf \in Seq(0 .. 255) /\ Len(in_buf) \in Nat /\ Len(in_buf) <= MAXMESSAGELEN
  BY LenProperties DEF InputType
<1>4. In!IsResult(result, in_buf)
  BY <1>2, <1>3, In!GetMessageType, SizesAssumption
<1>5. In!IsRest(result.rest, in_buf) /\ Out!IsMessage(result.message)
  BY <1>4 DEF In!IsResult, In!IsMessage, In!MessageRecords, Out!IsMessage, Out!Bytes
<1>6. /\ result.rest \in Seq(0 .. 255) /\ Len(result.rest) \in Nat
      /\ Len(result.rest) <= Len(in_buf)
  BY <1>3, <1>5, In!RestType, SizesAssumption
<1>7. ASSUME Len(result.rest) = MAXMESSAGELEN
      PROVE  Where(result.rest, Nl) = {} \/ Refused(result.rest)
  <2>1. Len(result.rest) = Len(in_buf)
    BY <1>3, <1>6, <1>7, Sizes
  <2>2. /\ result.rest = in_buf
        /\ In!Where(in_buf, In!Nl) = {} \/ In!Refused(in_buf)
    BY <1>2, <1>3, <2>1, In!Staying, SizesAssumption
  <2> QED BY <2>2, SameGet
<1> QED BY <1>3, <1>5, <1>6, <1>7, Sizes DEF IsStuck

(* What a put of an answer leaves. *)
LEMMA PutLeads ==
  ASSUME CrcYieldsDigits, OutputType, NEW m, Out!IsMessage(m),
         NEW outcome \in put_message(out_buf, m)
  PROVE  /\ outcome.buf \in [bytes : Seq(0 .. 255), iStart : 0 .. MAXMESSAGELEN - 1]
         /\ Len(outcome.buf.bytes) <= MAXMESSAGELEN
<1>1. outcome \in Out!put_message(out_buf, m)
  BY SamePut
<1>2. out_buf \in Out!Buffers /\ Len(out_buf.bytes) <= MAXMESSAGELEN /\ Out!CrcYieldsDigits
  BY DEF OutputType, Out!Buffers, Out!Bytes, CrcYieldsDigits
<1>3. outcome.buf \in Out!Buffers /\ Len(outcome.buf.bytes) <= MAXMESSAGELEN
  BY <1>1, <1>2, Out!PutType, SizesAssumption, OutputAssumption
<1> QED BY <1>3 DEF Out!Buffers, Out!Bytes

(* Where a message is received, and answered. *)
LEMMA ReceiveLeads ==
  ASSUME CrcYieldsDigits, RepliesAreMessages, TypeInv, ReceiveMessage
  PROVE  TypeInv' /\ IsStuck(in_buf')
<1>1. /\ UNCHANGED <<setup, line, host, flags, timeout>> /\ caught' = (pc' = 1)
      /\ Receive /\ ~Ended
  BY DEF ReceiveMessage, Receive, At
<1>2. PICK result \in get_message_from_input_buffer(in_buf, IgnoresCRC) :
        /\ in_buf' = result.rest
        /\ handle_nf_messages(result.message)
        /\ \/ /\ result.err # "none" \/ Answers(result.message) = {}
              /\ After(result.err)
              /\ UNCHANGED out_buf
           \/ /\ result.err = "none"
              /\ \E m \in Answers(result.message) : put(m)
  BY <1>1 DEF Receive
<1>3. /\ result.rest \in Seq(0 .. 255) /\ Len(result.rest) <= MAXMESSAGELEN
      /\ IsStuck(result.rest)
      /\ Out!IsMessage(result.message)
  BY GetLeads DEF TypeInv
<1>4. InputType' /\ IsStuck(in_buf')
  BY <1>2, <1>3 DEF InputType
<1>5. streaming_is_on' \in BOOLEAN
  BY <1>2 DEF handle_nf_messages, TypeInv, PollType
<1>6. HostType' /\ PollType'
  BY <1>1, <1>5 DEF TypeInv, HostType, PollType, host, flags
<1>7. ControlType' /\ OutputType'
  <2>1. CASE After(result.err) /\ UNCHANGED out_buf
    BY <1>1, <2>1, Moves DEF TypeInv, OutputType
  <2>2. CASE \E m \in Answers(result.message) : put(m)
    <3>1. PICK m \in Answers(result.message) : put(m)
      BY <2>2
    <3>2. Out!IsMessage(m)
      BY <1>3, <3>1 DEF Answers, RepliesAreMessages
    <3>3. PICK outcome \in put_message(out_buf, m) :
            out_buf' = outcome.buf /\ After(outcome.err)
      BY <3>1 DEF put
    <3>4. OutputType'
      BY <3>2, <3>3, PutLeads DEF TypeInv, OutputType
    <3> QED BY <1>1, <3>3, <3>4, Moves DEF TypeInv
  <2> QED BY <1>2, <2>1, <2>2
<1> QED BY <1>4, <1>6, <1>7 DEF TypeInv

(* What a read pushes to the input buffer. *)
LEMMA ReadBytes ==
  ASSUME InputType, HostType, NEW n \in 1 .. Len(pipe)
  PROVE  LET all == in_buf \o Take(pipe, n)
             b == KeepLast(all, MAXMESSAGELEN)
         IN  /\ Take(pipe, n) \in Seq(0 .. 255) /\ Len(Take(pipe, n)) = n
             /\ all \in Seq(0 .. 255) /\ Len(all) = Len(in_buf) + n
             /\ b \in Seq(0 .. 255) /\ Len(b) <= MAXMESSAGELEN
             /\ Drop(pipe, n) \in Seq(0 .. 255) /\ Len(Drop(pipe, n)) = Len(pipe) - n
<1> DEFINE t == Take(pipe, n)
           all == in_buf \o t
<1>1. n \in 0 .. Len(pipe) /\ pipe \in Seq(0 .. 255) /\ in_buf \in Seq(0 .. 255)
  BY LenProperties DEF HostType, InputType
<1>2. t \in Seq(0 .. 255) /\ Len(t) = n
  BY <1>1, Taking
<1>3. Drop(pipe, n) \in Seq(0 .. 255) /\ Len(Drop(pipe, n)) = Len(pipe) - n
  BY <1>1, Dropping
<1> HIDE DEF t
<1>4. all \in Seq(0 .. 255) /\ Len(all) = Len(in_buf) + Len(t)
  <2>1. IsJoined(all, 0 .. 255, in_buf, t)
    BY <1>1, <1>2, JoinIs
  <2> HIDE DEF all
  <2> QED BY <2>1 DEF IsJoined
<1> HIDE DEF all
<1>5. /\ KeepLast(all, MAXMESSAGELEN) \in Seq(0 .. 255)
      /\ Len(KeepLast(all, MAXMESSAGELEN))
           = IF Len(all) > MAXMESSAGELEN THEN MAXMESSAGELEN ELSE Len(all)
  BY <1>4, Sizes, Keeping
<1>6. Len(KeepLast(all, MAXMESSAGELEN)) <= MAXMESSAGELEN
  BY <1>4, <1>5, Sizes, LenProperties
<1> QED BY <1>2, <1>3, <1>4, <1>5, <1>6 DEF t, all

(* The steps of a loop keep the types. *)
LEMMA StepKeepsTypes ==
  ASSUME CrcYieldsDigits, RepliesAreMessages, TypeInv, LoopStep
  PROVE  TypeInv'
<1>1. CASE do_poll
  <2>1. ~Ended /\ setup' = setup
    BY <1>1 DEF do_poll, At
  <2>2. ControlType'
    BY <1>1, <2>1, Moves DEF do_poll, TypeInv
  <2>3. inflags' \subseteq {"POLLIN", "POLLHUP"} /\ outflags' \subseteq {"POLLOUT", "POLLHUP"}
    BY <1>1 DEF do_poll, InputFlags, OutputFlags
  <2> QED BY <1>1, <2>2, <2>3 DEF do_poll, host, TypeInv, InputType, OutputType,
       HostType, PollType
<1>2. CASE do_input
  <2>1. ~Ended /\ Advance
        /\ UNCHANGED <<setup, out_buf, streaming_is_on, line, closed, reader, polls>>
    BY <1>2 DEF do_input, At
  <2>2. ControlType'
    BY <2>1, Moves DEF TypeInv
  <2>3. InputType' /\ pipe' \in Seq(0 .. 255)
    <3>1. CASE \E n \in 1 .. Len(pipe) :
                 push_back_input(Take(pipe, n)) /\ pipe' = Drop(pipe, n)
      <4>1. PICK n \in 1 .. Len(pipe) :
              push_back_input(Take(pipe, n)) /\ pipe' = Drop(pipe, n)
        BY <3>1
      <4> QED BY <4>1, ReadBytes DEF TypeInv, push_back_input, InputType
    <3>2. CASE UNCHANGED <<in_buf, pipe>>
      BY <3>2 DEF TypeInv, InputType, HostType
    <3> QED BY <1>2, <3>1, <3>2 DEF do_input
  <2> QED BY <2>1, <2>2, <2>3 DEF polls, flags, TypeInv, OutputType, HostType, PollType
<1>3. CASE ReceiveMessage
  BY <1>3, ReceiveLeads
<1>4. CASE do_output
  <2>1. ~Ended /\ UNCHANGED <<setup, streaming_is_on, line, host, polls>>
    BY <1>4 DEF do_output, At
  <2>2. ControlType'
    BY <1>4, <2>1, Moves DEF do_output, TypeInv
  <2>3. InputType' /\ OutputType'
    <3>1. CASE \E n \in 1 .. Len(output) : Write(n)
      <4>1. PICK n \in 1 .. Len(output) : Write(n)
        BY <3>1
      <4>2. CASE Raw
        <5>1. output = in_buf /\ in_buf' = Drop(in_buf, n) /\ out_buf' = out_buf
          BY <4>1, <4>2 DEF Write, output
        <5>2. n \in Nat /\ in_buf \in Seq(0 .. 255)
          BY DEF TypeInv, InputType
        <5>3. Drop(in_buf, n) \in Seq(0 .. 255) /\ Len(Drop(in_buf, n)) <= Len(in_buf)
              /\ Len(Drop(in_buf, n)) \in Nat
          BY <5>2, DropType
        <5>4. Len(in_buf) \in Nat /\ Len(in_buf) <= MAXMESSAGELEN
          BY LenProperties DEF TypeInv, InputType
        <5> QED BY <5>1, <5>3, <5>4, Sizes DEF TypeInv, InputType, OutputType
      <4>3. CASE ~Raw
        <5>1. /\ output = out_buf.bytes /\ in_buf' = in_buf
              /\ out_buf' = NoOutput \/ out_buf' = pop_front_n(out_buf, n)
          BY <4>1, <4>3 DEF Write, output
        <5>2. InputType'
          BY <5>1 DEF TypeInv, InputType
        <5>3. CASE out_buf' = NoOutput
          <6>1. <<>> \in Seq(0 .. 255) /\ Len(<<>>) = 0 /\ 0 \in 0 .. MAXMESSAGELEN - 1
            BY EmptySeq, Sizes
          <6> QED BY <5>2, <5>3, <6>1, Sizes DEF OutputType, NoOutput
        <5>4. CASE out_buf' = pop_front_n(out_buf, n)
          <6> DEFINE b == out_buf.bytes
          <6>1. b \in Seq(0 .. 255) /\ Len(b) \in Nat /\ Len(b) <= MAXMESSAGELEN
            BY LenProperties DEF TypeInv, OutputType
          <6>2. n \in Nat
            OBVIOUS
          <6> HIDE DEF b
          <6>3. /\ Drop(b, n) \in Seq(0 .. 255) /\ Len(Drop(b, n)) <= Len(b)
                /\ Len(Drop(b, n)) \in Nat
            BY <6>1, <6>2, DropType
          <6>4. (out_buf.iStart + n) % MAXMESSAGELEN \in 0 .. MAXMESSAGELEN - 1
            <7>1. out_buf.iStart + n \in Nat
              BY <6>2, Sizes DEF TypeInv, OutputType
            <7> QED BY <7>1, Sizes, Out!Remainder, SizesAssumption, OutputAssumption
          <6>5. out_buf' = [bytes |-> Drop(b, n),
                            iStart |-> (out_buf.iStart + n) % MAXMESSAGELEN]
            BY <5>4 DEF pop_front_n, b
          <6>6. OutputType'
            BY <6>1, <6>3, <6>4, <6>5, Sizes DEF OutputType
          <6> QED BY <5>2, <6>6
        <5> QED BY <5>1, <5>3, <5>4
      <4> QED BY <4>2, <4>3
    <3>2. CASE UNCHANGED <<in_buf, out_buf>>
      BY <3>2 DEF TypeInv, InputType, OutputType
    <3> QED BY <1>4, <3>1, <3>2 DEF do_output
  <2> QED BY <2>1, <2>2, <2>3 DEF host, polls, flags, TypeInv, HostType, PollType
<1>5. CASE SetTimeout
  <2>1. ~Ended /\ Advance /\ setup' = setup
    BY <1>5 DEF SetTimeout, At
  <2>2. ControlType'
    BY <2>1, Moves DEF TypeInv
  <2>3. timeout' \in {-1, 5}
    BY <1>5 DEF SetTimeout, next_timeout
  <2> QED BY <1>5, <2>2, <2>3 DEF SetTimeout, host, flags, TypeInv, InputType, OutputType,
       HostType, PollType
<1> QED BY <1>1, <1>2, <1>3, <1>4, <1>5 DEF LoopStep

(* So do the steps of the host. *)
LEMMA HostKeepsTypes ==
  ASSUME TypeInv, WriteByte \/ Close \/ StopReading \/ UNCHANGED vars
  PROVE  TypeInv' /\ UNCHANGED <<setup, pc, in_buf>>
<1>1. UNCHANGED <<setup, pc, in_buf, out_buf, streaming_is_on, polls>>
  BY DEF WriteByte, Close, StopReading, vars, host
<1>2. ControlType' /\ InputType' /\ OutputType'
  <2>1. Steps' = Steps
    BY <1>1, SamePass
  <2> QED BY <1>1, <2>1 DEF TypeInv, ControlType, InputType, OutputType
<1>3. PollType'
  BY <1>1 DEF polls, flags, TypeInv, PollType
<1>4. CASE WriteByte
  <2>1. line \in Seq(0 .. 255) /\ pipe \in Seq(0 .. 255) /\ line # <<>>
    BY <1>4 DEF WriteByte, TypeInv, HostType
  <2>2. Head(line) \in 0 .. 255 /\ Tail(line) \in Seq(0 .. 255)
    BY <2>1, HeadTailProperties
  <2>3. Append(pipe, Head(line)) \in Seq(0 .. 255)
    BY <2>1, <2>2, AppendProperties
  <2> QED BY <1>1, <1>2, <1>3, <1>4, <2>2, <2>3 DEF WriteByte, TypeInv, HostType
<1>5. CASE Close \/ StopReading
  BY <1>1, <1>2, <1>3, <1>5 DEF Close, StopReading, TypeInv, HostType
<1>6. CASE UNCHANGED vars
  BY <1>1, <1>2, <1>3, <1>6 DEF vars, host, TypeInv, HostType
<1> QED BY <1>1, <1>4, <1>5, <1>6

(* The loop begins with the types. *)
LEMMA AtFirst == Init => TypeInv /\ FullIsStuck
<1> SUFFICES ASSUME Init PROVE TypeInv /\ FullIsStuck
  OBVIOUS
<1>1. /\ setup \in Setups /\ line = setup.script /\ pc = 1 /\ in_buf = <<>>
      /\ out_buf = NoOutput /\ streaming_is_on = FALSE
  BY DEF Init, LoopInit
<1>2. <<>> \in Seq(0 .. 255) /\ Len(<<>>) = 0
  BY EmptySeq
<1>3. ControlType
  <2>1. Len(MessagePass) = 5 /\ Len(RawPass) = 4
    BY DEF RawPass, MessagePass
  <2>2. Steps = IF Raw THEN RawPass ELSE MessagePass
    BY <1>1, PassOfProgram
  <2>3. 1 \in 0 .. Len(Steps)
    BY <2>1, <2>2
  <2> QED BY <1>1, <2>3 DEF ControlType
<1>4. InputType /\ OutputType
  <2>1. 0 \in 0 .. MAXMESSAGELEN - 1 /\ 0 <= MAXMESSAGELEN
    BY Sizes
  <2> QED BY <1>1, <1>2, <2>1 DEF InputType, OutputType, NoOutput
<1>5. HostType
  BY <1>1, <1>2, PassOfProgram DEF HostType, Init
<1>6. PollType
  BY <1>1 DEF PollType, Init
<1>7. FullIsStuck
  BY <1>1, <1>2, Sizes DEF FullIsStuck, IsStuck
<1> QED BY <1>3, <1>4, <1>5, <1>6, <1>7 DEF TypeInv

----------------------------------------------------------------------------
(* A full buffer.                                                          *)

(* What it says of the next state. *)
LEMMA NextIsStuck ==
  FullIsStuck' <=> (~Raw' /\ ~Ended' /\ ~At("receive")' => IsStuck(in_buf'))
  BY DEF FullIsStuck

(* Only a read fills the buffer, and get_message looks at it next. *)
LEMMA StuckKept ==
  ASSUME CrcYieldsDigits, RepliesAreMessages, TypeInv, FullIsStuck, [Next]_vars
  PROVE  FullIsStuck'
<1>1. CASE do_input
  <2>1. ~Ended /\ At("input") /\ Advance /\ setup' = setup
    BY <1>1 DEF do_input, At
  <2>2. ~Raw => At("receive")'
    BY <2>1, Moves DEF TypeInv
  <2>3. Raw' = Raw
    BY <2>1, SamePass
  <2> QED BY <2>2, <2>3, NextIsStuck
<1>2. CASE ReceiveMessage
  BY <1>2, ReceiveLeads, NextIsStuck
<1>3. CASE do_poll \/ do_output \/ SetTimeout
  <2>1. At("poll") \/ At("output") \/ At("set_timeout")
    BY <1>3 DEF do_poll, do_output, SetTimeout
  <2>2. ~Ended /\ ~At("receive")
    BY <2>1 DEF At
  <2>3. setup' = setup /\ (~Raw => in_buf' = in_buf)
    BY <1>3 DEF do_poll, do_output, SetTimeout, Write
  <2>4. ~Raw => IsStuck(in_buf)
    BY <2>2 DEF FullIsStuck
  <2>5. Raw' = Raw
    BY <2>3, SamePass
  <2> QED BY <2>3, <2>4, <2>5, NextIsStuck
<1>4. CASE WriteByte \/ Close \/ StopReading \/ UNCHANGED vars
  <2>1. UNCHANGED <<setup, pc, in_buf>>
    BY <1>4, HostKeepsTypes
  <2>2. Raw' = Raw /\ Steps' = Steps
    BY <2>1, SamePass
  <2>3. (Ended' <=> Ended) /\ (At("receive")' <=> At("receive"))
    BY <2>1, <2>2 DEF Ended, At
  <2>4. ~Raw /\ ~Ended /\ ~At("receive") => IsStuck(in_buf)
    BY DEF FullIsStuck
  <2> QED BY <2>1, <2>2, <2>3, <2>4, NextIsStuck
<1> QED BY <1>1, <1>2, <1>3, <1>4 DEF Next, LoopStep

(* The invariant of the loops. *)
LEMMA Invariance ==
  ASSUME CrcYieldsDigits, RepliesAreMessages
  PROVE  Spec => [](TypeInv /\ FullIsStuck)
<1>1. TypeInv /\ FullIsStuck /\ [Next]_vars => TypeInv' /\ FullIsStuck'
  <2> SUFFICES ASSUME TypeInv, FullIsStuck, [Next]_vars PROVE TypeInv'
    BY StuckKept
  <2>1. CASE LoopStep
    BY <2>1, StepKeepsTypes
  <2>2. CASE WriteByte \/ Close \/ StopReading \/ UNCHANGED vars
    BY <2>2, HostKeepsTypes
  <2> QED BY <2>1, <2>2 DEF Next
<1> QED BY <1>1, AtFirst, PTL DEF Spec

(***************************************************************************)
(* The variables of the native programs have their types, and their        *)
(* buffers never hold more than MAXMESSAGELEN bytes, for every set of      *)
(* scripts and whatever the host and the register handlers do.             *)
(***************************************************************************)
THEOREM PollTypeOK ==
  ASSUME CrcYieldsDigits, RepliesAreMessages
  PROVE  Spec => []TypeOK
<1>1. TypeInv => TypeOK
  BY DEF TypeInv, ControlType, InputType, OutputType, HostType, PollType, TypeOK
<1>2. Spec => [](TypeInv /\ FullIsStuck)
  BY Invariance
<1> QED BY <1>1, <1>2, PTL

----------------------------------------------------------------------------
(* Waiting for the host.                                                   *)

(***************************************************************************)
(* Where the program waits in poll without a timeout, it holds no input it *)
(* has not taken, whole frames or parts of them, unless the last pass      *)
(* ended in an exception: then the timeout is older than the buffer.       *)
(***************************************************************************)
WaitsWithNothingToDo ==
  At("poll") /\ timeout = -1 /\ ~caught => Raw \/ in_buf = <<>>

(* A program that takes messages comes to poll from the end of a pass.     *)
LEMMA PollsAgain ==
  ASSUME TypeInv, setup' = setup, ~Raw, ~Ended, Advance, At("poll")'
  PROVE  At("set_timeout")
<1>1. Steps = MessagePass /\ Steps' = MessagePass /\ Len(MessagePass) = 5
  BY PassOfProgram, SamePass DEF TypeInv, ControlType, MessagePass
<1>2. pc \in 1 .. 5 /\ pc' = (pc % 5) + 1
  <2>1. pc \in 1 .. 5
    BY <1>1 DEF TypeInv, ControlType, Ended
  <2>2. pc' = ((pc + 1 - 1) % 5) + 1
    BY <1>1 DEF Advance, Skip
  <2> QED BY <2>1, <2>2
<1>3. pc' \in 1 .. 5
  BY <1>2
<1>4. pc' = 1
  <2>1. MessagePass[pc'] = "poll"
    BY <1>1 DEF At
  <2> QED BY <1>3, <2>1 DEF MessagePass
<1>5. pc = 5
  BY <1>2, <1>4
<1> QED BY <1>1, <1>5 DEF At, Ended, MessagePass

(* Each pass ends in setting the timeout, or in an exception. *)
LEMMA WaitingKept ==
  ASSUME CrcYieldsDigits, RepliesAreMessages, TypeInv, WaitsWithNothingToDo, [Next]_vars
  PROVE  WaitsWithNothingToDo'
<1> SUFFICES ASSUME At("poll")', timeout' = -1, ~caught', ~Raw'
             PROVE  in_buf' = <<>>
  BY DEF WaitsWithNothingToDo
<1>1. CASE SetTimeout
  <2>1. timeout' = next_timeout /\ in_buf' = in_buf /\ setup' = setup
    BY <1>1 DEF SetTimeout
  <2>2. ~Raw
    BY <2>1, SamePass
  <2> QED BY <2>1, <2>2 DEF next_timeout
<1>2. CASE ReceiveMessage
  <2>1. setup' = setup /\ pc' # 1
    BY <1>2 DEF ReceiveMessage
  <2>2. Steps' = MessagePass /\ ~Raw
    BY <2>1, PassOfProgram, SamePass DEF TypeInv, ControlType
  <2>3. ControlType'
    BY <1>2, ReceiveLeads DEF TypeInv
  <2>4. pc' \in 1 .. 5
    BY <2>2, <2>3 DEF ControlType, MessagePass, At, Ended
  <2>5. MessagePass[pc'] = "poll"
    BY <2>2 DEF At
  <2> QED BY <2>1, <2>4, <2>5 DEF MessagePass
<1>3. CASE do_poll \/ do_input \/ do_output
  <2>1. (At("poll") \/ At("input") \/ At("output")) /\ setup' = setup
    BY <1>3 DEF do_poll, do_input, do_output
  <2>2. Advance
    <3>1. pc' # 0
      BY DEF At, Ended
    <3> QED BY <1>3, <3>1 DEF do_poll, do_input, do_output
  <2>3. ~Raw /\ ~Ended
    BY <2>1, SamePass DEF At
  <2>4. At("set_timeout")
    BY <2>1, <2>2, <2>3, PollsAgain
  <2> QED BY <2>1, <2>4 DEF At
<1>4. CASE WriteByte \/ Close \/ StopReading \/ UNCHANGED vars
  <2>1. UNCHANGED <<setup, pc, in_buf, timeout, caught>>
    BY <1>4 DEF WriteByte, Close, StopReading, vars, polls
  <2>2. Raw' = Raw /\ Steps' = Steps
    BY <2>1, SamePass
  <2>3. At("poll") /\ timeout = -1 /\ ~caught /\ ~Raw
    BY <2>1, <2>2 DEF At, Ended
  <2> QED BY <2>1, <2>3 DEF WaitsWithNothingToDo
<1> QED BY <1>1, <1>2, <1>3, <1>4 DEF Next, LoopStep

(***************************************************************************)
(* A program that waits for the host without a timeout holds no input,     *)
(* unless its last pass ended in an exception: the reason why whole frames *)
(* are taken without exceptions, and why they may stay when there are.     *)
(***************************************************************************)
THEOREM PollWaitsWithNothingToDo ==
  ASSUME CrcYieldsDigits, RepliesAreMessages
  PROVE  Spec => []WaitsWithNothingToDo
<1>1. Init => WaitsWithNothingToDo
  BY DEF Init, LoopInit, WaitsWithNothingToDo
<1>2. TypeInv /\ WaitsWithNothingToDo /\ [Next]_vars => WaitsWithNothingToDo'
  BY WaitingKept
<1>3. Spec => [](TypeInv /\ FullIsStuck)
  BY Invariance
<1> QED BY <1>1, <1>2, <1>3, PTL DEF Spec

----------------------------------------------------------------------------
(* The end of a program.                                                   *)

(* The statement behind the last one of the pass is the first. *)
LEMMA AdvanceGoesOn ==
  ASSUME ControlType, ~Ended, Advance
  PROVE  pc' # 0
<1> DEFINE n == Len(Steps)
<1>1. n = 4 \/ n = 5
  <2>1. Len(MessagePass) = 5 /\ Len(RawPass) = 4
    BY DEF RawPass, MessagePass
  <2>2. n = Len(IF Raw THEN RawPass ELSE MessagePass)
    BY PassOfProgram DEF ControlType
  <2> HIDE DEF n
  <2> QED BY <2>1, <2>2
<1>2. pc \in 1 .. n
  BY <1>1 DEF ControlType, Ended
<1>3. pc' = ((pc + 1 - 1) % n) + 1
  BY DEF Advance, Skip
<1> HIDE DEF n
<1>4. CASE n = 4
  BY <1>2, <1>3, <1>4
<1>5. CASE n = 5
  BY <1>2, <1>3, <1>5
<1> QED BY <1>1, <1>4, <1>5

(***************************************************************************)
(* While the host reads, a program that does not end in an exception ends  *)
(* only in do_poll, after the host has hung up and with both buffers       *)
(* empty: no output that was put is lost and no input that was read.       *)
(***************************************************************************)
THEOREM PollHangUpLeavesEmptyBuffers ==
  ASSUME CrcYieldsDigits, RepliesAreMessages
  PROVE  Spec => HangUpLeavesEmptyBuffers
<1> DEFINE P == ~Ended /\ pc' = 0 /\ ~At("receive") /\ reader
                  => closed /\ output = <<>> /\ in_buf = <<>>
<1>1. TypeInv /\ [Next]_vars => [P]_vars
  <2> SUFFICES ASSUME TypeInv, Next, ~Ended, pc' = 0, ~At("receive"), reader
               PROVE  closed /\ output = <<>> /\ in_buf = <<>>
    BY DEF vars
  <2>1. ~Advance
    BY AdvanceGoesOn DEF TypeInv
  <2>2. CASE do_poll
    <3>1. /\ inflags' = InputFlags /\ outflags' \in OutputFlags
          /\ HungUp(inflags', outflags')
      BY <2>1, <2>2 DEF do_poll
    <3>2. "POLLHUP" \notin outflags'
      BY <3>1 DEF OutputFlags
    <3>3. "POLLHUP" \in InputFlags /\ output = <<>> /\ in_buf = <<>>
      BY <3>1, <3>2 DEF HungUp
    <3> QED BY <3>3 DEF InputFlags
  <2>3. CASE do_output
    BY <2>1, <2>3 DEF do_output
  <2>4. CASE do_input \/ SetTimeout
    BY <2>1, <2>4 DEF do_input, SetTimeout
  <2>5. CASE ReceiveMessage
    BY <2>5 DEF ReceiveMessage, Receive
  <2>6. CASE WriteByte \/ Close \/ StopReading
    BY <2>6 DEF WriteByte, Close, StopReading, Ended
  <2> QED BY <2>2, <2>3, <2>4, <2>5, <2>6 DEF Next, LoopStep
<1>2. Spec => [](TypeInv /\ FullIsStuck)
  BY Invariance
<1> QED BY <1>1, <1>2, PTL DEF Spec, HangUpLeavesEmptyBuffers

----------------------------------------------------------------------------
(* Frames.                                                                 *)

(* A whole frame stays one when bytes come behind it. *)
LEMMA FramesStay ==
  ASSUME NEW s \in Seq(0 .. 255), NEW t \in Seq(0 .. 255), NEW f \in FramesIn(s)
  PROVE  <<f[1] + Len(t), f[2] + Len(t)>> \in FramesIn(s \o t)
<1> DEFINE a == s \o t
<1>1. PICK be \in {pair \in Where(s, Gt) \X Where(s, Nl) :
                     IsFrame(SubSeq(s, pair[1], pair[2]))} :
        f = <<Len(s) - be[1], Len(s) - be[2]>>
  BY DEF FramesIn
<1> DEFINE b == be[1]
           e == be[2]
<1>2. /\ be = <<b, e>> /\ IsFrame(SubSeq(s, b, e))
      /\ b \in 1 .. Len(s) /\ s[b] = Gt /\ e \in 1 .. Len(s) /\ s[e] = Nl
  BY <1>1 DEF Where
<1>3. f = <<Len(s) - b, Len(s) - e>>
  BY <1>1
<1> HIDE DEF b, e
<1>4. /\ Len(s) \in Nat /\ Len(t) \in Nat
      /\ a \in Seq(0 .. 255) /\ Len(a) = Len(s) + Len(t)
      /\ \A i \in 1 .. Len(s) + Len(t) : a[i] = IF i <= Len(s) THEN s[i] ELSE t[i - Len(s)]
  BY LenProperties, ConcatProperties
<1> HIDE DEF a
<1>5. \A i \in 1 .. Len(s) : i \in 1 .. Len(a) /\ a[i] = s[i]
  BY <1>4
<1>6. b \in Int /\ e \in Int
  BY <1>2
<1>7. SubSeq(a, b, e) = SubSeq(s, b, e)
  <2> DEFINE u == SubSeq(a, b, e)
             v == SubSeq(s, b, e)
  <2>1. \A i \in b .. e : i \in 1 .. Len(s)
    BY <1>2, <1>4
  <2>2. \A i \in b .. e : s[i] \in 0 .. 255
    BY <2>1, ElementOfSeq
  <2>3. \A i \in b .. e : a[i] \in 0 .. 255
    BY <1>5, <2>1, <2>2
  <2>4. /\ u \in Seq(0 .. 255) /\ Len(u) = IF b <= e THEN e - b + 1 ELSE 0
        /\ \A i \in 1 .. e - b + 1 : u[i] = a[b + i - 1]
    BY <1>6, <2>3, SubSeqProperties
  <2>5. /\ v \in Seq(0 .. 255) /\ Len(v) = IF b <= e THEN e - b + 1 ELSE 0
        /\ \A i \in 1 .. e - b + 1 : v[i] = s[b + i - 1]
    BY <1>6, <2>2, SubSeqProperties
  <2> HIDE DEF u, v
  <2>6. ASSUME NEW i \in 1 .. Len(u) PROVE u[i] = v[i]
    <3>1. i \in 1 .. e - b + 1 /\ b + i - 1 \in 1 .. Len(s)
      BY <1>2, <1>4, <2>4
    <3> QED BY <1>5, <2>4, <2>5, <3>1
  <2>7. Len(u) = Len(v)
    BY <2>4, <2>5
  <2>8. u = v
    BY <2>4, <2>5, <2>6, <2>7, SeqEqual
  <2> QED BY <2>8 DEF u, v
<1>8. <<b, e>> \in {pair \in Where(a, Gt) \X Where(a, Nl) :
                      IsFrame(SubSeq(a, pair[1], pair[2]))}
  BY <1>2, <1>5, <1>7 DEF Where
<1>9. <<Len(a) - b, Len(a) - e>> \in FramesIn(a)
  BY <1>8 DEF FramesIn
<1>10. f[1] + Len(t) = Len(a) - b /\ f[2] + Len(t) = Len(a) - e
  BY <1>3, <1>4, <1>6
<1> QED BY <1>9, <1>10 DEF a

(***************************************************************************)
(* A read() overwrites no whole frame: as long as there is room the bytes  *)
(* go behind what is there, and a full buffer that get_message has looked  *)
(* at holds none, unless a refused frame stands in front.                  *)
(***************************************************************************)
THEOREM PollReadsKeepFrames ==
  ASSUME CrcYieldsDigits, RepliesAreMessages
  PROVE  Spec => ReadsKeepFrames
<1> DEFINE P == do_input /\ ~Raw /\ ~Refused(in_buf)
                  => LET n == Len(pipe) - Len(pipe')
                     IN  \A f \in FramesIn(in_buf) :
                           <<f[1] + n, f[2] + n>> \in FramesIn(in_buf')
<1>1. TypeInv /\ FullIsStuck /\ [Next]_vars => [P]_vars
  <2> SUFFICES ASSUME TypeInv, FullIsStuck, do_input, ~Raw, ~Refused(in_buf),
                      NEW f \in FramesIn(in_buf)
               PROVE  LET n == Len(pipe) - Len(pipe')
                      IN  <<f[1] + n, f[2] + n>> \in FramesIn(in_buf')
    OBVIOUS
  <2>1. in_buf \in Seq(0 .. 255) /\ Len(in_buf) \in Nat /\ Len(in_buf) <= MAXMESSAGELEN
        /\ Len(pipe) \in Nat
    BY LenProperties DEF TypeInv, InputType, HostType
  <2>2. PICK be \in Where(in_buf, Gt) \X Where(in_buf, Nl) :
          f = <<Len(in_buf) - be[1], Len(in_buf) - be[2]>>
    BY DEF FramesIn
  <2>3. be[1] \in 1 .. Len(in_buf) /\ be[2] \in Where(in_buf, Nl) /\ be[2] \in 1 .. Len(in_buf)
    BY <2>2 DEF Where
  <2>4. CASE UNCHANGED <<in_buf, pipe>>
    <3>1. Len(pipe) - Len(pipe') = 0
      BY <2>1, <2>4
    <3>2. f[1] + 0 = f[1] /\ f[2] + 0 = f[2] /\ f = <<f[1], f[2]>>
      BY <2>1, <2>2, <2>3
    <3> QED BY <2>4, <3>1, <3>2
  <2>5. CASE \E n \in 1 .. Len(pipe) :
               /\ n <= Room /\ push_back_input(Take(pipe, n)) /\ pipe' = Drop(pipe, n)
    <3>1. PICK n \in 1 .. Len(pipe) :
            /\ n <= Room /\ push_back_input(Take(pipe, n)) /\ pipe' = Drop(pipe, n)
      BY <2>5
    <3> DEFINE t == Take(pipe, n)
               all == in_buf \o t
    <3>2. /\ t \in Seq(0 .. 255) /\ Len(t) = n /\ Len(all) = Len(in_buf) + n
          /\ Len(Drop(pipe, n)) = Len(pipe) - n
      BY ReadBytes DEF TypeInv
    (* A full buffer holds no whole frame. *)
    <3>3. Len(in_buf) < MAXMESSAGELEN
      <4>1. ~Ended /\ ~At("receive")
        BY DEF do_input, At
      <4>2. Where(in_buf, Nl) # {}
        BY <2>3
      <4>3. Len(in_buf) # MAXMESSAGELEN
        BY <4>1, <4>2 DEF FullIsStuck, IsStuck
      <4> QED BY <2>1, <4>3, Sizes
    <3> HIDE DEF t, all
    <3>4. ~(Len(all) > MAXMESSAGELEN)
      BY <2>1, <3>1, <3>2, <3>3, Sizes DEF Room
    <3>5. in_buf' = all
      BY <3>1, <3>4 DEF push_back_input, KeepLast, all, t
    <3>6. Len(pipe) - Len(pipe') = Len(t)
      BY <2>1, <3>1, <3>2
    <3> QED BY <2>1, <3>2, <3>5, <3>6, FramesStay DEF all
  <2> QED BY <2>4, <2>5 DEF do_input
<1>2. Spec => [](TypeInv /\ FullIsStuck)
  BY Invariance
<1> QED BY <1>1, <1>2, PTL DEF Spec, ReadsKeepFrames

=============================================================================
