--------------------------- MODULE AscInputProofs ---------------------------
(***************************************************************************)
(* What get_message_from_input_buffer hands over is a frame that stood in  *)
(* the buffer, no whole frame leaves the buffer in another way, calls make *)
(* progress, and a line without errors is understood: for every size of    *)
(* buffer and checksum, every checksum function (that yields digits, for   *)
(* all but the first), and any number of errors of the line.               *)
(***************************************************************************)
EXTENDS AscInput, ByteQueueLemmas, FiniteSetTheorems

(* The sizes are naturals. *)
LEMMA Sizes ==
  /\ MAXMESSAGELEN \in Nat /\ MAXDATALEN \in Nat
  /\ NCHARCHECKSUM \in Nat /\ NCHARCHECKSUM > 0
  /\ MAXMESSAGELEN = MAXDATALEN + NCHARCHECKSUM + 6
  BY SizesAssumption

----------------------------------------------------------------------------
(* Types.                                                                  *)

(* The end of a queue, from wherever it is cut. *)
IsRest(r, s) == \E n \in 0 .. Len(s) : r = Drop(s, n)

(* It is a queue, and no longer. *)
LEMMA RestType ==
  ASSUME NEW S, NEW s \in Seq(S), NEW r, IsRest(r, s)
  PROVE  r \in Seq(S) /\ Len(r) \in Nat /\ Len(r) <= Len(s)
<1>1. PICK n \in 0 .. Len(s) : r = Drop(s, n)
  BY DEF IsRest
<1>2. n \in Nat
  OBVIOUS
<1> QED BY <1>1, <1>2, DropType

(* All of a queue is a rest of it, and so is nothing. *)
LEMMA AllAndNothingAreRests ==
  ASSUME NEW S, NEW s \in Seq(S)
  PROVE  IsRest(s, s) /\ IsRest(<<>>, s)
<1>1. Len(s) \in Nat
  BY LenProperties
<1>2. Drop(s, 0) = s
  BY <1>1, SubSeqFull DEF Drop
<1>3. Drop(s, Len(s)) = <<>>
  BY <1>1, SubSeqEmpty DEF Drop
<1>4. 0 \in 0 .. Len(s) /\ Len(s) \in 0 .. Len(s)
  BY <1>1
<1> QED BY <1>2, <1>3, <1>4 DEF IsRest

(* The rest of a rest is one. *)
LEMMA RestOfRest ==
  ASSUME NEW S, NEW s \in Seq(S), NEW r, IsRest(r, s), NEW q, IsRest(q, r)
  PROVE  IsRest(q, s)
<1>1. PICK a \in 0 .. Len(s) : r = Drop(s, a)
  BY DEF IsRest
<1>2. PICK b \in 0 .. Len(r) : q = Drop(r, b)
  BY DEF IsRest
<1>3. Len(s) \in Nat /\ Len(r) = Len(s) - a
  BY <1>1, LenProperties, Dropping
<1>4. a \in Nat /\ b \in Nat /\ a + b <= Len(s) /\ a + b \in 0 .. Len(s)
  BY <1>3
<1>5. q = Drop(s, a + b)
  BY <1>1, <1>2, <1>4, DropDrop
<1> QED BY <1>4, <1>5 DEF IsRest

(* remove_front_to leaves a rest. *)
LEMMA RemoveFrontToRest ==
  ASSUME NEW S, NEW s \in Seq(S), NEW v
  PROVE  IsRest(remove_front_to(s, v, TRUE), s)
<1>1. Where(s, v) \in SUBSET Nat /\ Len(s) \in Nat
  BY WhereType
<1>2. CASE Where(s, v) = {}
  BY <1>2, AllAndNothingAreRests DEF remove_front_to
<1>3. CASE Where(s, v) # {}
  <2> DEFINE n == Min(Where(s, v))
  <2>1. n \in Where(s, v)
    BY <1>1, <1>3, MinIsLeast
  <2>2. n \in 0 .. Len(s)
    BY <1>1, <2>1 DEF Where
  <2>3. remove_front_to(s, v, TRUE) = Drop(s, n)
    BY <1>3 DEF remove_front_to
  <2> HIDE DEF n
  <2> QED BY <2>2, <2>3 DEF IsRest
<1> QED BY <1>2, <1>3

(* So does synchronised. *)
LEMMA SynchronisedRest ==
  ASSUME NEW S, NEW s \in Seq(S)
  PROVE  IsRest(synchronised(s), s)
<1> DEFINE F == FrontFrame(s, Gt, Nl)
<1>1. Len(s) \in Nat
  BY LenProperties
<1>2. CASE F = {}
  BY <1>2, AllAndNothingAreRests DEF synchronised, remove_front_unfinished_frames
<1>3. CASE F # {}
  <2>1. F \in SUBSET (1 .. Len(s))
    <3> DEFINE complete == {e \in 1 .. Len(s) : Completes(s, e, Gt, Nl)}
               e == IF complete = {} THEN Len(s) + 1 ELSE Min(complete)
    <3>1. complete \in SUBSET Nat /\ complete \in SUBSET (1 .. Len(s))
      BY <1>1
    <3>2. e \in 1 .. Len(s) + 1
      <4> HIDE DEF complete
      <4>1. CASE complete = {}
        BY <1>1, <4>1
      <4>2. CASE complete # {}
        <5>1. Min(complete) \in complete
          BY <3>1, <4>2, MinIsLeast
        <5>2. Min(complete) \in 1 .. Len(s)
          BY <3>1, <5>1
        <5>3. e = Min(complete)
          BY <4>2
        <5> QED BY <1>1, <5>2, <5>3
      <4> QED BY <4>1, <4>2
    <3>3. F = {b \in 1 .. e - 1 : Opens(s, b, e, Gt, Nl)}
      BY DEF FrontFrame
    <3> HIDE DEF e, F
    <3> QED BY <1>1, <3>2, <3>3
  <2>2. F \in SUBSET (0 .. Len(s))
    BY <1>1, <2>1
  <2>3. synchronised(s) = Drop(s, Max(F) - 1)
    BY <1>3 DEF synchronised, remove_front_unfinished_frames
  <2> HIDE DEF F
  <2>4. Max(F) \in 1 .. Len(s)
    BY <1>1, <1>3, <2>1, <2>2, MaxIsGreatest
  <2>5. Max(F) - 1 \in 0 .. Len(s)
    BY <1>1, <2>4
  <2> QED BY <2>3, <2>5 DEF IsRest
<1> QED BY <1>2, <1>3

(* So it is a queue. *)
LEMMA SynchronisedType ==
  ASSUME NEW S, NEW s \in Seq(S)
  PROVE  LET r == synchronised(s)
         IN  r \in Seq(S) /\ Len(r) \in Nat /\ Len(r) <= Len(s)
  BY SynchronisedRest, RestType

MessageRecords ==
  [ascVersion : 0 .. 255, appVersion : 0 .. 255, command : 0 .. 255, data : Seq(0 .. 255)]

IsMessage(m) == m \in MessageRecords

(* What a call may leave of a buffer, throw and hand over. *)
IsResult(r, buf) ==
  /\ IsRest(r.rest, buf)
  /\ r.err \in Errors
  /\ IsMessage(r.message)
  /\ r.err # "none" => r.message = NoMessage

(* Without a message, there is only the rest to look at. *)
LEMMA NothingIsResult ==
  ASSUME NEW buf, NEW s, IsRest(s, buf), NEW err \in Errors
  PROVE  IsResult(Nothing(s), buf) /\ IsResult(Throws(err, s), buf)
<1>1. <<>> \in Seq(0 .. 255)
  BY EmptySeq
<1>2. IsMessage(NoMessage)
  BY <1>1 DEF NoMessage, Message, IsMessage, MessageRecords
<1> QED BY <1>2 DEF IsResult, Nothing, Throws, Errors

(* unpack takes some of the bytes. *)
LEMMA UnpackType ==
  ASSUME NEW s \in Seq(0 .. 255), NEW ignore \in BOOLEAN
  PROVE  IsResult(unpack(s, ignore), s)
<1> DEFINE iPeriod == find_first(s, Dot)
           body == Drop(s, 4)
           dataLen == find_first(body, Dot)
           popped == 4 + dataLen + (IF iPeriod >= 4 THEN 1 ELSE 2)
           tail == Drop(s, popped)
           rest == Drop(tail, NCHARCHECKSUM + 1)
           data == Take(body, dataLen)
           m == Message(s[2], s[3], s[4], data)
<1>1. Len(s) \in Nat
  BY LenProperties
<1>2. body \in Seq(0 .. 255)
  BY DropType
<1>3. dataLen \in 0 .. Len(body) /\ Len(body) \in Nat
  <2> HIDE DEF body
  <2> QED BY <1>2, FirstFound, LenProperties
<1>4. data \in Seq(0 .. 255)
  <2> HIDE DEF body, dataLen
  <2> QED BY <1>2, <1>3, Taking
<1>5. popped \in Nat /\ popped > 4
  <2> HIDE DEF body, dataLen, iPeriod
  <2> QED BY <1>3
<1>6. unpack(s, ignore)
        = IF popped > Len(s) THEN Throws("CB_POP_EMPTY", <<>>)
          ELSE IF ~frame_ends(tail) THEN Throws("INVALID_FRAME", tail)
          ELSE IF ~ignore /\ Take(tail, NCHARCHECKSUM) # input_checksum(s)
            THEN Nothing(rest)
          ELSE [rest |-> rest, err |-> "none", message |-> m]
  BY DEF unpack
<1> HIDE DEF popped, body, dataLen, data
<1>7. "CB_POP_EMPTY" \in Errors /\ "INVALID_FRAME" \in Errors /\ "none" \in Errors
  BY DEF Errors
<1>8. CASE popped > Len(s)
  <2>1. IsResult(Throws("CB_POP_EMPTY", <<>>), s)
    BY <1>7, AllAndNothingAreRests, NothingIsResult
  <2> QED BY <1>6, <1>8, <2>1
<1>9. CASE popped <= Len(s)
  <2>1. popped \in 0 .. Len(s) /\ ~(popped > Len(s))
    BY <1>1, <1>5, <1>9
  <2>2. tail \in Seq(0 .. 255) /\ IsRest(tail, s)
    BY <2>1, Dropping DEF IsRest
  <2>3. frame_ends(tail) => IsRest(rest, s)
    <3> SUFFICES ASSUME frame_ends(tail) PROVE IsRest(rest, s)
      OBVIOUS
    <3> HIDE DEF tail
    <3>1. NCHARCHECKSUM + 1 \in 0 .. Len(tail)
      BY <2>2, LenProperties, Sizes DEF frame_ends
    <3>2. IsRest(rest, tail)
      BY <3>1 DEF IsRest
    <3> QED BY <2>2, <3>2, RestOfRest
  <2>4. IsMessage(m)
    <3>1. 2 \in 1 .. Len(s) /\ 3 \in 1 .. Len(s) /\ 4 \in 1 .. Len(s)
      BY <1>1, <1>5, <2>1
    <3>2. s[2] \in 0 .. 255 /\ s[3] \in 0 .. 255 /\ s[4] \in 0 .. 255
      BY <3>1, ElementOfSeq
    <3> QED BY <1>4, <3>2 DEF IsMessage, MessageRecords, Message
  <2> HIDE DEF tail, rest, m
  <2>5. IsResult(Throws("INVALID_FRAME", tail), s)
    BY <1>7, <2>2, NothingIsResult
  <2>6. frame_ends(tail) => IsResult(Nothing(rest), s)
    BY <1>7, <2>3, NothingIsResult
  <2>7. frame_ends(tail) => IsResult([rest |-> rest, err |-> "none", message |-> m], s)
    BY <1>7, <2>3, <2>4 DEF IsResult
  <2> QED BY <1>6, <2>1, <2>5, <2>6, <2>7
<1> QED BY <1>1, <1>5, <1>8, <1>9

(* So does get_message_from_input_buffer. *)
LEMMA GetMessageType ==
  ASSUME NEW buf \in Seq(0 .. 255), NEW ignore \in BOOLEAN,
         NEW r \in get_message_from_input_buffer(buf, ignore)
  PROVE  IsResult(r, buf)
<1> DEFINE s == synchronised(buf)
           iEnd == find_first(s, Nl)
           iPeriod == find_first(s, Dot)
           err == checksum_error(Len(s), find_first(s, Gt), iPeriod)
<1>1. s \in Seq(0 .. 255) /\ IsRest(s, buf)
  BY SynchronisedType, SynchronisedRest
<1>2. r = get_message(s, ignore)
  BY DEF get_message_from_input_buffer
<1>3. r = IF iEnd >= Len(s) THEN Nothing(s)
          ELSE IF iPeriod > iEnd THEN Throws("INVALID_FRAME_PERIOD", pop_bad_frame(s))
          ELSE IF ~ignore /\ err # "none" THEN Throws(err, s)
          ELSE unpack(s, ignore)
  BY <1>2 DEF get_message
<1>4. err \in Errors /\ "INVALID_FRAME_PERIOD" \in Errors
  BY DEF checksum_error, Errors
<1> HIDE DEF s, err, iEnd, iPeriod
<1>5. IsResult(Nothing(s), buf) /\ IsResult(Throws(err, s), buf)
  BY <1>1, <1>4, NothingIsResult
<1>6. IsResult(Throws("INVALID_FRAME_PERIOD", pop_bad_frame(s)), buf)
  <2>1. IsRest(pop_bad_frame(s), s)
    BY <1>1, RemoveFrontToRest DEF pop_bad_frame
  <2>2. IsRest(pop_bad_frame(s), buf)
    BY <1>1, <2>1, RestOfRest
  <2> QED BY <1>4, <2>2, NothingIsResult
<1>7. IsResult(unpack(s, ignore), buf)
  <2>1. IsResult(unpack(s, ignore), s)
    BY <1>1, UnpackType
  <2>2. IsRest(unpack(s, ignore).rest, buf)
    BY <1>1, <2>1, RestOfRest DEF IsResult
  <2> QED BY <2>1, <2>2 DEF IsResult
<1> QED BY <1>3, <1>5, <1>6, <1>7

(* What arrives in a full ring pushes out what is in front. *)
LEMMA ArriveType ==
  ASSUME NEW byte \in 0 .. 255, TypeOK, Arrive(byte)
  PROVE  in_buf' \in Seq(0 .. 255) /\ Len(in_buf') <= MAXMESSAGELEN
<1> DEFINE s == Append(in_buf, byte)
<1>1. /\ in_buf \in Seq(0 .. 255) /\ Len(in_buf) \in Nat /\ Len(in_buf) <= MAXMESSAGELEN
      /\ MAXMESSAGELEN \in Nat
  BY LenProperties, Sizes DEF TypeOK
<1>2. s \in Seq(0 .. 255) /\ Len(s) \in Nat
  BY <1>1
<1>3. in_buf' = IF Len(s) > MAXMESSAGELEN THEN Drop(s, Len(s) - MAXMESSAGELEN) ELSE s
  BY DEF Arrive, KeepLast
<1> HIDE DEF s
<1>4. CASE Len(s) > MAXMESSAGELEN
  <2> DEFINE n == Len(s) - MAXMESSAGELEN
  <2>1. n \in 0 .. Len(s) /\ Len(s) - n = MAXMESSAGELEN
    BY <1>1, <1>2, <1>4
  <2>2. in_buf' = Drop(s, n)
    BY <1>3, <1>4
  <2> HIDE DEF n
  <2>3. Drop(s, n) \in Seq(0 .. 255) /\ Len(Drop(s, n)) = Len(s) - n
    BY <1>2, <2>1, Dropping
  <2> QED BY <1>1, <2>1, <2>2, <2>3
<1>5. CASE ~(Len(s) > MAXMESSAGELEN)
  BY <1>1, <1>2, <1>3, <1>5
<1> QED BY <1>4, <1>5

(* The host's frames are of bytes. *)
LEMMA SendingType ==
  ASSUME TypeOK, NEW frame \in Sending
  PROVE  Head(frame) \in 0 .. 255 /\ Tail(frame) \in Seq(0 .. 255)
<1>1. frame \in Seq(0 .. 255) /\ frame # <<>>
  <2>1. CASE line = <<>>
    BY <2>1, LineAssumption DEF Sending
  <2>2. CASE line # <<>>
    BY <2>2 DEF Sending, TypeOK
  <2> QED BY <2>1, <2>2
<1> QED BY <1>1, HeadTailProperties

(* A call of get_message_from_input_buffer keeps the types. *)
LEMMA GetMessageKeepsTypes ==
  TypeOK /\ GetMessage => TypeOK'
<1> SUFFICES ASSUME TypeOK, GetMessage PROVE TypeOK'
  OBVIOUS
<1>1. PICK r \in get_message_from_input_buffer(in_buf, ignoreCRCMismatch) :
        in_buf' = r.rest /\ got' = [err |-> r.err, message |-> r.message]
  BY DEF GetMessage
<1>2. IsResult(r, in_buf)
  BY GetMessageType DEF TypeOK
<1>3. /\ in_buf' \in Seq(0 .. 255) /\ Len(in_buf') <= Len(in_buf)
      /\ got'.err \in Errors /\ got'.message.data \in Seq(0 .. 255)
  <2>1. in_buf \in Seq(0 .. 255) /\ IsRest(in_buf', in_buf)
    BY <1>1, <1>2 DEF IsResult, TypeOK
  <2>2. in_buf' \in Seq(0 .. 255) /\ Len(in_buf') <= Len(in_buf)
    BY <2>1, RestType
  <2> QED BY <1>1, <1>2, <2>2 DEF IsResult, IsMessage, MessageRecords
<1>4. Len(in_buf') <= MAXMESSAGELEN
  <2>1. Len(in_buf') \in Nat /\ Len(in_buf) \in Nat /\ Len(in_buf) <= MAXMESSAGELEN
    BY <1>3, LenProperties DEF TypeOK
  <2> QED BY <1>3, <2>1, Sizes
<1> QED BY <1>3, <1>4 DEF TypeOK, GetMessage

(* A byte of the line keeps the types. *)
LEMMA LineKeepsTypes ==
  TypeOK /\ (SendByte \/ LoseByte \/ AlterByte \/ AddByte) => TypeOK'
<1> SUFFICES ASSUME TypeOK PROVE SendByte \/ LoseByte \/ AlterByte \/ AddByte => TypeOK'
  OBVIOUS
<1>1. errors \in Nat /\ (errors < MaxErrors => errors + 1 \in 0 .. MaxErrors)
  BY LineAssumption DEF TypeOK
<1>2. ASSUME SendByte PROVE TypeOK'
  <2>1. PICK frame \in Sending : Arrive(Head(frame)) /\ line' = Tail(frame)
    BY <1>2 DEF SendByte
  <2>2. Head(frame) \in 0 .. 255 /\ Tail(frame) \in Seq(0 .. 255)
    BY SendingType
  <2>3. in_buf' \in Seq(0 .. 255) /\ Len(in_buf') <= MAXMESSAGELEN
    BY <2>1, <2>2, ArriveType
  <2> QED BY <1>2, <2>1, <2>2, <2>3 DEF SendByte, TypeOK
<1>3. ASSUME LoseByte PROVE TypeOK'
  <2>1. PICK frame \in Sending : line' = Tail(frame)
    BY <1>3 DEF LoseByte
  <2>2. Tail(frame) \in Seq(0 .. 255)
    BY SendingType
  <2> QED BY <1>1, <1>3, <2>1, <2>2 DEF LoseByte, TypeOK
<1>4. ASSUME AlterByte PROVE TypeOK'
  <2>1. PICK frame \in Sending : line' = Tail(frame)
    BY <1>4 DEF AlterByte
  <2>2. Tail(frame) \in Seq(0 .. 255)
    BY SendingType
  <2>3. PICK byte \in NoiseBytes : Arrive(byte)
    BY <1>4 DEF AlterByte
  <2>4. in_buf' \in Seq(0 .. 255) /\ Len(in_buf') <= MAXMESSAGELEN
    BY <2>3, ArriveType, LineAssumption
  <2> QED BY <1>1, <1>4, <2>1, <2>2, <2>4 DEF AlterByte, TypeOK
<1>5. ASSUME AddByte PROVE TypeOK'
  <2>1. PICK byte \in NoiseBytes : Arrive(byte)
    BY <1>5 DEF AddByte
  <2>2. in_buf' \in Seq(0 .. 255) /\ Len(in_buf') <= MAXMESSAGELEN
    BY <2>1, ArriveType, LineAssumption
  <2> QED BY <1>1, <1>5, <2>2 DEF AddByte, TypeOK
<1> QED BY <1>2, <1>3, <1>4, <1>5

(***************************************************************************)
(* The buffer and the messages have their types, within their sizes, after *)
(* any calls of get_message_from_input_buffer, whatever the line does.     *)
(***************************************************************************)
THEOREM InputTypeOK == Spec => []TypeOK
<1>1. Init => TypeOK
  <2>1. <<>> \in Seq(0 .. 255) /\ Len(<<>>) = 0
    BY EmptySeq
  <2>2. NoMessage.data = <<>>
    BY DEF NoMessage, Message
  <2>3. 0 <= MAXMESSAGELEN /\ 0 \in 0 .. MaxErrors
    BY Sizes, LineAssumption
  <2> SUFFICES ASSUME Init PROVE TypeOK
    OBVIOUS
  <2>4. in_buf = <<>> /\ line = <<>> /\ errors = 0 /\ ignoreCRCMismatch = FALSE
    BY DEF Init
  <2>5. Len(in_buf) <= MAXMESSAGELEN
    BY <2>1, <2>3, <2>4
  <2>6. got.err = "none" /\ got.message = NoMessage
    BY DEF Init
  <2>7. got.err \in Errors /\ got.message.data \in Seq(0 .. 255)
    BY <2>1, <2>2, <2>6 DEF Errors
  <2> QED BY <2>1, <2>3, <2>4, <2>5, <2>7 DEF TypeOK
<1>2. TypeOK /\ [Next]_vars => TypeOK'
  <2> SUFFICES ASSUME TypeOK, [Next]_vars PROVE TypeOK'
    OBVIOUS
  <2>1. CASE GetMessage
    BY <2>1, GetMessageKeepsTypes
  <2>2. CASE set_ignore_CRC_mismatch \/ unset_ignore_CRC_mismatch
    BY <2>2 DEF set_ignore_CRC_mismatch, unset_ignore_CRC_mismatch, TypeOK
  <2>3. CASE SendByte \/ LoseByte \/ AlterByte \/ AddByte
    BY <2>3, LineKeepsTypes
  <2>4. CASE UNCHANGED vars
    BY <2>4 DEF vars, TypeOK
  <2> QED BY <2>1, <2>2, <2>3, <2>4 DEF Next
<1> QED BY <1>1, <1>2, PTL DEF Spec

----------------------------------------------------------------------------
(* Frames.                                                                 *)

(* A sequence is four elements, the next n, the one behind them and the rest. *)
LEMMA Header ==
  ASSUME NEW S, NEW s \in Seq(S), NEW n \in Nat, 4 + n + 1 <= Len(s)
  PROVE  <<s[1], s[2], s[3], s[4]>> \o Take(Drop(s, 4), n) \o <<s[4 + n + 1]>>
           = Take(s, 4 + n + 1)
<1> DEFINE body == Drop(s, 4)
           data == Take(body, n)
           head == <<s[1], s[2], s[3], s[4]>>
           last == <<s[4 + n + 1]>>
           t == Take(s, 4 + n + 1)
<1>1. Len(s) \in Nat /\ 4 \in 0 .. Len(s) /\ 4 + n + 1 \in 0 .. Len(s)
  BY LenProperties
<1>2. /\ body \in Seq(S) /\ Len(body) = Len(s) - 4
      /\ \A i \in 1 .. Len(s) - 4 : body[i] = s[4 + i]
  BY <1>1, Dropping
<1>3. /\ data \in Seq(S) /\ Len(data) = n
      /\ \A i \in 1 .. n : data[i] = body[i]
  <2>1. n \in 0 .. Len(body)
    BY <1>1, <1>2
  <2> HIDE DEF body
  <2> QED BY <1>2, <2>1, Taking
<1>4. /\ t \in Seq(S) /\ Len(t) = 4 + n + 1
      /\ \A i \in 1 .. 4 + n + 1 : t[i] = s[i]
  BY <1>1, Taking
<1>5. s[1] \in S /\ s[2] \in S /\ s[3] \in S /\ s[4] \in S /\ s[4 + n + 1] \in S
  <2>1. /\ 1 \in 1 .. Len(s) /\ 2 \in 1 .. Len(s) /\ 3 \in 1 .. Len(s)
        /\ 4 \in 1 .. Len(s) /\ 4 + n + 1 \in 1 .. Len(s)
    BY <1>1
  <2> QED BY <2>1, ElementOfSeq
<1>6. head \in Seq(S) /\ Len(head) = 4 /\ last \in Seq(S) /\ Len(last) = 1
  BY <1>5
<1>7. /\ head[1] = s[1] /\ head[2] = s[2] /\ head[3] = s[3] /\ head[4] = s[4]
      /\ last[1] = s[4 + n + 1]
  OBVIOUS
<1> DEFINE hd == head \o data
<1> HIDE DEF body, data, head, last, t
<1>8. /\ hd \in Seq(S) /\ Len(hd) = 4 + n
      /\ \A i \in 1 .. 4 + n : hd[i] = IF i <= 4 THEN head[i] ELSE data[i - 4]
  <2>1. /\ hd \in Seq(S) /\ Len(hd) = Len(head) + Len(data)
        /\ \A i \in 1 .. Len(head) + Len(data) :
              hd[i] = IF i <= Len(head) THEN head[i] ELSE data[i - Len(head)]
    BY <1>3, <1>6, ConcatProperties
  <2> HIDE DEF hd
  <2> QED BY <1>3, <1>6, <2>1
<1> HIDE DEF hd
<1>9. /\ hd \o last \in Seq(S) /\ Len(hd \o last) = 4 + n + 1
      /\ \A i \in 1 .. 4 + n + 1 :
            (hd \o last)[i] = IF i <= 4 + n THEN hd[i] ELSE last[i - (4 + n)]
  <2> DEFINE u == hd \o last
  <2>1. /\ u \in Seq(S) /\ Len(u) = Len(hd) + Len(last)
        /\ \A i \in 1 .. Len(hd) + Len(last) :
              u[i] = IF i <= Len(hd) THEN hd[i] ELSE last[i - Len(hd)]
    <3>1. hd \in Seq(S) /\ last \in Seq(S)
      BY <1>6, <1>8
    <3> QED BY <3>1, ConcatProperties
  <2> HIDE DEF u
  <2>2. Len(hd) = 4 + n /\ Len(hd) + Len(last) = 4 + n + 1
    BY <1>6, <1>8
  <2>3. /\ u \in Seq(S) /\ Len(u) = 4 + n + 1
        /\ \A i \in 1 .. 4 + n + 1 : u[i] = IF i <= 4 + n THEN hd[i] ELSE last[i - (4 + n)]
    BY <2>1, <2>2
  <2> QED BY <2>3 DEF u
<1>10. ASSUME NEW i \in 1 .. 4 + n + 1 PROVE (hd \o last)[i] = s[i]
  <2>1. CASE i <= 4
    <3>1. (hd \o last)[i] = head[i]
      BY <1>8, <1>9, <2>1
    <3>2. i = 1 \/ i = 2 \/ i = 3 \/ i = 4
      BY <2>1
    <3> QED BY <1>7, <3>1, <3>2
  <2>2. CASE i > 4 /\ i <= 4 + n
    <3>1. i - 4 \in 1 .. n /\ i - 4 \in 1 .. Len(s) - 4 /\ 4 + (i - 4) = i
      BY <1>1, <2>2
    <3>2. (hd \o last)[i] = data[i - 4]
      BY <1>8, <1>9, <2>2
    <3>3. body[i - 4] = s[4 + (i - 4)]
      BY <1>2, <3>1
    <3> QED BY <1>3, <3>1, <3>2, <3>3
  <2>3. CASE i > 4 + n
    <3>1. i = 4 + n + 1 /\ i - (4 + n) = 1
      BY <2>3
    <3>2. (hd \o last)[i] = last[i - (4 + n)]
      BY <1>9, <2>3
    <3> QED BY <1>7, <3>1, <3>2
  <2>4. i <= 4 \/ (i > 4 /\ i <= 4 + n) \/ i > 4 + n
    OBVIOUS
  <2> QED BY <2>1, <2>2, <2>3, <2>4, Zenon
<1>11. hd \o last = t
  BY <1>4, <1>9, <1>10, SeqEqual
<1> QED BY <1>11 DEF hd, head, data, last, t, body

(***************************************************************************)
(* get_message behind a first '>', with the checksum in force: the cases   *)
(* by the place of the first '.'.                                          *)
(***************************************************************************)
GetCases(s) ==
  LET iEnd == find_first(s, Nl)
      p == find_first(s, Dot)
      err == checksum_error(Len(s), find_first(s, Gt), p)
      r == get_message(s, FALSE)
      tail == Drop(s, p + 1)
      rest == Drop(tail, NCHARCHECKSUM + 1)
  IN  /\ Len(s) \in Nat /\ iEnd \in 0 .. Len(s) - 1 /\ p \in Nat
      /\ s[iEnd + 1] = Nl /\ \A i \in 1 .. iEnd : s[i] # Nl
      /\ p <= iEnd => s[p + 1] = Dot /\ \A i \in 1 .. p : s[i] # Dot
      /\ p > iEnd => r = Throws("INVALID_FRAME_PERIOD", pop_bad_frame(s))
      /\ p <= iEnd /\ ~(p >= 4 /\ p < MAXMESSAGELEN - NCHARCHECKSUM - 1)
           => err # "none" /\ r = Throws(err, s)
      /\ p <= iEnd /\ p >= 4 /\ p < MAXMESSAGELEN - NCHARCHECKSUM - 1
           => r = IF ~frame_ends(tail) THEN Throws("INVALID_FRAME", tail)
                  ELSE IF Take(tail, NCHARCHECKSUM) # Crc(Take(s, p + 1))
                    THEN Nothing(rest)
                  ELSE [rest |-> rest, err |-> "none",
                        message |-> Message(s[2], s[3], s[4],
                                            Take(Drop(s, 4), p - 4))]

(* The cases are what the code does. *)
LEMMA Getting ==
  ASSUME NEW S, NEW s \in Seq(S), find_first(s, Nl) < Len(s), s[1] = Gt
  PROVE  GetCases(s)
<1> DEFINE iEnd == find_first(s, Nl)
           p == find_first(s, Dot)
           err == checksum_error(Len(s), find_first(s, Gt), p)
           r == get_message(s, FALSE)
           body == Drop(s, 4)
           tail == Drop(s, p + 1)
           rest == Drop(tail, NCHARCHECKSUM + 1)
<1>1. /\ Len(s) \in Nat /\ iEnd \in 0 .. Len(s) - 1
      /\ s[iEnd + 1] = Nl /\ \A i \in 1 .. iEnd : s[i] # Nl
  <2>1. /\ iEnd \in 0 .. Len(s) /\ (iEnd < Len(s) => s[iEnd + 1] = Nl)
        /\ \A i \in 1 .. iEnd : s[i] # Nl
    BY FirstFound
  <2>2. Len(s) \in Nat
    BY LenProperties
  <2> QED BY <2>1, <2>2
<1>2. /\ p \in Nat /\ (p <= iEnd => p < Len(s) /\ s[p + 1] = Dot)
      /\ \A i \in 1 .. p : s[i] # Dot
  <2>1. /\ p \in 0 .. Len(s) /\ (p < Len(s) => s[p + 1] = Dot)
        /\ \A i \in 1 .. p : s[i] # Dot
    BY FirstFound
  <2> HIDE DEF p, iEnd
  <2> QED BY <1>1, <2>1
<1>3. find_first(s, Gt) = 0
  <2>1. 0 \in 0 .. Len(s) - 1 /\ s[0 + 1] = Gt /\ \A i \in 1 .. 0 : s[i] # Gt
    BY <1>1
  <2> QED BY <2>1, FirstIs
<1>4. r = IF p > iEnd THEN Throws("INVALID_FRAME_PERIOD", pop_bad_frame(s))
          ELSE IF ~FALSE /\ err # "none" THEN Throws(err, s)
          ELSE unpack(s, FALSE)
  <2>1. ~(iEnd >= Len(s))
    BY <1>1
  <2> QED BY <2>1, Zenon DEF get_message
<1>5. ASSUME p <= iEnd
      PROVE  err = "none" <=> p >= 4 /\ p < MAXMESSAGELEN - NCHARCHECKSUM - 1
  <2>1. ~(0 >= Len(s)) /\ 0 < Len(s) /\ ~(p >= Len(s)) /\ p < Len(s) /\ p \in Nat
    BY <1>1, <1>2, <1>5
  <2> HIDE DEF p
  <2>2. err = checksum_error(Len(s), 0, p)
    BY <1>3
  <2> HIDE DEF err
  <2>3. CASE p >= MAXMESSAGELEN - NCHARCHECKSUM - 1
    <3>1. err = "CHECKSUM_PROBLEM"
      BY <2>1, <2>2, <2>3 DEF checksum_error
    <3> QED BY <2>1, <2>3, <3>1, Sizes
  <2>4. CASE ~(p >= MAXMESSAGELEN - NCHARCHECKSUM - 1)
    <3>1. err = IF p - 0 < 4 THEN "INVALID_FRAME_PERIOD" ELSE "none"
      BY <2>1, <2>2, <2>4 DEF checksum_error
    <3>2. p < MAXMESSAGELEN - NCHARCHECKSUM - 1
      BY <2>1, <2>4, Sizes
    <3> QED BY <2>1, <3>1, <3>2
  <2> QED BY <2>3, <2>4
<1>6. ASSUME p <= iEnd, p >= 4
      PROVE  unpack(s, FALSE)
               = IF ~frame_ends(tail) THEN Throws("INVALID_FRAME", tail)
                 ELSE IF Take(tail, NCHARCHECKSUM) # Crc(Take(s, p + 1)) THEN Nothing(rest)
                 ELSE [rest |-> rest, err |-> "none",
                       message |-> Message(s[2], s[3], s[4], Take(body, p - 4))]
  <2>1. find_first(body, Dot) = p - 4
    <3>1. 4 \in 0 .. Len(s)
      BY <1>1, <1>2, <1>6
    <3>2. /\ body \in Seq(S) /\ Len(body) = Len(s) - 4
          /\ \A i \in 1 .. Len(s) - 4 : body[i] = s[4 + i]
      BY <3>1, Dropping
    <3> DEFINE k == p - 4
    <3> HIDE DEF body, p
    <3>3. k \in 0 .. Len(body) - 1 /\ k + 1 \in 1 .. Len(s) - 4 /\ 4 + (k + 1) = p + 1
      BY <1>1, <1>2, <1>6, <3>2
    <3>4. body[k + 1] = Dot
      BY <1>2, <1>6, <3>2, <3>3
    <3>5. ASSUME NEW i \in 1 .. k PROVE body[i] # Dot
      <4>1. i \in 1 .. Len(s) - 4 /\ 4 + i \in 1 .. p
        BY <1>1, <1>2, <1>6, <3>3
      <4>2. body[i] = s[4 + i]
        BY <3>2, <4>1
      <4> QED BY <1>2, <4>1, <4>2
    <3> HIDE DEF k
    <3>6. /\ body \in Seq(S) /\ k \in 0 .. Len(body) - 1
          /\ body[k + 1] = Dot /\ \A i \in 1 .. k : body[i] # Dot
      BY <3>2, <3>3, <3>4, <3>5
    <3>7. find_first(body, Dot) = k
      BY <3>6, FirstIs
    <3> QED BY <3>7 DEF k
  <2>2. 4 + (p - 4) + 1 = p + 1 /\ ~(p + 1 > Len(s))
    BY <1>1, <1>2, <1>6
  <2>3. input_checksum(s) = Crc(Take(s, p + 1))
    <3>1. 0 + 1 = 1
      OBVIOUS
    <3> QED BY <1>3, <3>1 DEF input_checksum, Take, p
  <2> QED BY <1>6, <2>1, <2>2, <2>3 DEF unpack, p
<1> HIDE DEF iEnd, p, err, r
<1>7. p > iEnd => r = Throws("INVALID_FRAME_PERIOD", pop_bad_frame(s))
  BY <1>4
<1>8. p <= iEnd => ~(p > iEnd)
  BY <1>1, <1>2
<1>9. /\ p <= iEnd /\ err # "none" => r = Throws(err, s)
      /\ p <= iEnd /\ err = "none" => r = unpack(s, FALSE)
  BY <1>4, <1>8
<1> QED BY <1>1, <1>2, <1>5, <1>6, <1>7, <1>9 DEF iEnd, p, err, r, GetCases

(* A call that came to result took the frame of its message, and only that. *)
IsUnpacked(s, result) ==
  LET m == result.message
  IN  /\ IsFrame(Frame(m))
      /\ Len(Frame(m)) \in Nat
      /\ s = Frame(m) \o result.rest
      /\ Len(s) = Len(Frame(m)) + Len(result.rest)
      /\ Len(result.rest) \in Nat

(***************************************************************************)
(* get_message, with the checksum in force and a message handed over: the  *)
(* bytes it took are the frame of the message, and the rest is what stood  *)
(* behind them.                                                            *)
(***************************************************************************)
LEMMA Unpacking ==
  ASSUME NEW S, NEW s \in Seq(S), Gt \in S,
         find_first(s, Nl) < Len(s), s[1] = Gt,
         \A i \in 2 .. find_first(s, Nl) : s[i] # Gt,
         get_message(s, FALSE).message # NoMessage
  PROVE  IsUnpacked(s, get_message(s, FALSE))
<1> DEFINE iEnd == find_first(s, Nl)
           p == find_first(s, Dot)
           body == Drop(s, 4)
           data == Take(body, p - 4)
           tail == Drop(s, p + 1)
           check == Take(tail, NCHARCHECKSUM)
           rest == Drop(tail, NCHARCHECKSUM + 1)
           m == Message(s[2], s[3], s[4], data)
           n == p + NCHARCHECKSUM + 2
           r == get_message(s, FALSE)
           c == [rest |-> rest, err |-> "none", message |-> m]
<1>1. /\ Len(s) \in Nat /\ iEnd \in 0 .. Len(s) - 1 /\ p \in Nat
      /\ s[iEnd + 1] = Nl /\ \A i \in 1 .. iEnd : s[i] # Nl
      /\ p <= iEnd => s[p + 1] = Dot /\ \A i \in 1 .. p : s[i] # Dot
      /\ p > iEnd => r = Throws("INVALID_FRAME_PERIOD", pop_bad_frame(s))
      /\ p <= iEnd /\ ~(p >= 4 /\ p < MAXMESSAGELEN - NCHARCHECKSUM - 1)
           => \E err : r = Throws(err, s)
      /\ p <= iEnd /\ p >= 4 /\ p < MAXMESSAGELEN - NCHARCHECKSUM - 1
           => r = IF ~frame_ends(tail) THEN Throws("INVALID_FRAME", tail)
                  ELSE IF check # Crc(Take(s, p + 1)) THEN Nothing(rest)
                  ELSE c
  <2>1. GetCases(s)
    BY Getting
  <2> QED BY <2>1 DEF GetCases
<1>2. \A err, x : Throws(err, x).message = NoMessage /\ Nothing(x).message = NoMessage
  BY DEF Throws, Nothing
<1>3. r.message # NoMessage
  OBVIOUS
<1>4. p <= iEnd /\ p >= 4 /\ p < MAXMESSAGELEN - NCHARCHECKSUM - 1
  <2> HIDE DEF p, iEnd, r, c, rest, check, tail
  <2>1. p > iEnd \/ p <= iEnd
    BY <1>1
  <2> QED BY <1>1, <1>2, <1>3, <2>1
<1>5. /\ p \in 0 .. iEnd /\ p < Len(s) /\ s[p + 1] = Dot
      /\ \A i \in 1 .. p : s[i] # Dot
  <2> HIDE DEF p, iEnd, r, c, rest, check, tail
  <2> QED BY <1>1, <1>4
<1>6. /\ frame_ends(tail) /\ check = Crc(Take(s, p + 1))
      /\ r.message = m /\ r.rest = rest
  <2>1. c.message = m /\ c.rest = rest
    <3> HIDE DEF m, rest
    <3> QED OBVIOUS
  <2> HIDE DEF p, iEnd, r, c, m, rest, check, tail
  <2>2. r = IF ~frame_ends(tail) THEN Throws("INVALID_FRAME", tail)
            ELSE IF check # Crc(Take(s, p + 1)) THEN Nothing(rest)
            ELSE c
    BY <1>1, <1>4
  <2>3. frame_ends(tail) /\ check = Crc(Take(s, p + 1)) /\ r = c
    BY <1>2, <1>3, <2>2, Zenon
  <2> QED BY <2>1, <2>3
<1> HIDE DEF iEnd, p, c, r
<1>7. p + 1 \in 0 .. Len(s)
  BY <1>1, <1>5
<1>8. /\ tail \in Seq(S) /\ Len(tail) = Len(s) - (p + 1)
       /\ \A i \in 1 .. Len(s) - (p + 1) : tail[i] = s[p + 1 + i]
  BY <1>7, Dropping
<1>9. Len(tail) >= NCHARCHECKSUM + 1 /\ tail[NCHARCHECKSUM + 1] = Nl
  BY <1>6 DEF frame_ends
<1>10. /\ NCHARCHECKSUM \in 0 .. Len(tail) /\ NCHARCHECKSUM + 1 \in 0 .. Len(tail)
       /\ NCHARCHECKSUM + 1 \in 1 .. Len(tail) /\ Len(tail) \in Nat
       /\ n \in 0 .. Len(s) /\ p \in Nat /\ n \in Nat
  <2> HIDE DEF tail
  <2> QED BY <1>1, <1>5, <1>8, <1>9, Sizes
(* What is computed the checksum of. *)
<1>11. Body(m) = Take(s, p + 1)
  <2>1. p - 4 \in Nat /\ 4 + (p - 4) + 1 = p + 1 /\ 4 + (p - 4) + 1 <= Len(s)
    BY <1>5, <1>4, <1>7
  <2>2. <<s[1], s[2], s[3], s[4]>> \o Take(Drop(s, 4), p - 4) \o <<s[4 + (p - 4) + 1]>>
          = Take(s, 4 + (p - 4) + 1)
    BY <2>1, Header
  <2>3. /\ m.ascVersion = s[2] /\ m.appVersion = s[3] /\ m.command = s[4]
        /\ m.data = data
    BY DEF Message
  <2>4. Body(m) = <<Gt, s[2], s[3], s[4]>> \o data \o <<Dot>>
    <3> HIDE DEF m, data
    <3> QED BY <2>3 DEF Body
  <2> QED BY <1>5, <2>1, <2>2, <2>4
<1>12. Frame(m) = Take(s, p + 1) \o check \o <<Nl>>
  <2> HIDE DEF m, check
  <2> QED BY <1>6, <1>11 DEF Frame
(* It is the front of the buffer. *)
<1>13. Frame(m) = Take(s, n)
  <2>1. Take(s, p + 1) \o check = Take(s, p + 1 + NCHARCHECKSUM)
    <3>1. check = SubSeq(s, p + 2, p + 1 + NCHARCHECKSUM)
      <4>1. /\ p + 2 \in 1 .. Len(s) /\ Len(s) \in 1 .. Len(s)
            /\ 1 \in 1 .. Len(s) - (p + 2) + 1
            /\ NCHARCHECKSUM \in 1 .. Len(s) - (p + 2) + 1
        <5> HIDE DEF tail
        <5> QED BY <1>1, <1>5, <1>8, <1>9, Sizes
      <4>2. SubSeq(SubSeq(s, p + 2, Len(s)), 1, NCHARCHECKSUM)
              = SubSeq(s, p + 2 + 1 - 1, p + 2 + NCHARCHECKSUM - 1)
        <5> DEFINE i == p + 2
                   j == Len(s)
        <5>1. /\ i \in 1 .. Len(s) /\ j \in 1 .. Len(s)
              /\ 1 \in 1 .. j - i + 1 /\ NCHARCHECKSUM \in 1 .. j - i + 1
          BY <4>1
        <5> HIDE DEF i, j
        <5>2. SubSeq(SubSeq(s, i, j), 1, NCHARCHECKSUM)
                = SubSeq(s, i + 1 - 1, i + NCHARCHECKSUM - 1)
          BY <5>1, SubSeqOfSubSeq
        <5> QED BY <5>2 DEF i, j
      <4>3. /\ p + 2 + 1 - 1 = p + 2 /\ p + 1 + 1 = p + 2
            /\ p + 2 + NCHARCHECKSUM - 1 = p + 1 + NCHARCHECKSUM
        BY <1>10, Sizes
      <4> QED BY <4>2, <4>3 DEF Take, Drop
    <3>2. /\ 1 \in 1 .. Len(s) + 1 /\ p + 1 \in 1 - 1 .. Len(s)
          /\ p + 1 + NCHARCHECKSUM \in p + 1 .. Len(s) /\ p + 1 + 1 = p + 2
      BY <1>1, <1>7, <1>10, Sizes
    <3>3. SubSeq(s, 1, p + 1) \o SubSeq(s, p + 1 + 1, p + 1 + NCHARCHECKSUM)
            = SubSeq(s, 1, p + 1 + NCHARCHECKSUM)
      BY <3>2, ConcatAdjacentSubSeq
    <3> QED BY <3>1, <3>2, <3>3 DEF Take
  <2>2. s[n] = Nl
    <3>1. NCHARCHECKSUM + 1 \in 1 .. Len(s) - (p + 1) /\ p + 1 + (NCHARCHECKSUM + 1) = n
      <4> HIDE DEF tail
      <4> QED BY <1>8, <1>10, Sizes
    <3>2. tail[NCHARCHECKSUM + 1] = s[p + 1 + (NCHARCHECKSUM + 1)]
      BY <1>8, <3>1
    <3> QED BY <1>9, <3>1, <3>2
  <2>3. SubSeq(s, 1, n) = SubSeq(s, 1, n - 1) \o <<s[n]>>
    <3>1. 1 \in 1 .. Len(s) /\ n \in 1 .. Len(s)
      BY <1>1, <1>10, Sizes
    <3> HIDE DEF n
    <3> QED BY <3>1, SubSeqRecursiveSecond
  <2>4. n - 1 = p + 1 + NCHARCHECKSUM
    BY <1>10, Sizes
  <2> HIDE DEF check, m
  <2> QED BY <1>12, <2>1, <2>2, <2>3, <2>4 DEF Take
<1>14. rest = Drop(s, n)
  <2>1. /\ p + 1 \in Nat /\ NCHARCHECKSUM + 1 \in Nat
        /\ p + 1 + (NCHARCHECKSUM + 1) = n /\ p + 1 + (NCHARCHECKSUM + 1) <= Len(s)
    BY <1>1, <1>10, Sizes
  <2>2. Drop(Drop(s, p + 1), NCHARCHECKSUM + 1) = Drop(s, p + 1 + (NCHARCHECKSUM + 1))
    BY <2>1, DropDrop
  <2> QED BY <2>1, <2>2
<1> DEFINE f == Take(s, n)
<1>15. f \in Seq(S) /\ Len(f) = n /\ \A i \in 1 .. n : f[i] = s[i]
  <2> HIDE DEF n
  <2> QED BY <1>10, Taking
(* Its fields. *)
<1>16. data \in Seq(S) /\ Len(data) = p - 4 /\ \A i \in 1 .. p - 4 : data[i] = s[4 + i]
  <2>1. 4 \in 0 .. Len(s)
    BY <1>1, <1>5, <1>4
  <2>2. /\ body \in Seq(S) /\ Len(body) = Len(s) - 4
        /\ \A i \in 1 .. Len(s) - 4 : body[i] = s[4 + i]
    <3>1. IsDropped(body, S, s, 4)
      BY <2>1, DropIs
    <3> QED BY <3>1 DEF IsDropped
  <2> HIDE DEF body
  <2>3. p - 4 \in 0 .. Len(body)
    BY <1>1, <1>5, <1>4, <2>2
  <2>4. /\ data \in Seq(S) /\ Len(data) = p - 4
        /\ \A i \in 1 .. p - 4 : data[i] = body[i]
    <3> DEFINE k == p - 4
    <3> HIDE DEF k
    <3>1. k \in 0 .. Len(body)
      BY <2>3 DEF k
    <3>2. /\ Take(body, k) \in Seq(S) /\ Len(Take(body, k)) = k
          /\ \A i \in 1 .. k : Take(body, k)[i] = body[i]
      BY <2>2, <3>1, Taking
    <3> QED BY <3>2 DEF k
  <2> HIDE DEF data
  <2>5. ASSUME NEW i \in 1 .. p - 4 PROVE data[i] = s[4 + i]
    <3>1. i \in 1 .. Len(s) - 4
      BY <1>1, <1>5, <1>4
    <3> QED BY <2>2, <2>4, <3>1
  <2> QED BY <2>4, <2>5
<1> HIDE DEF data, tail, check, rest, f, n
<1>17. SubSeq(f, 5, Len(f) - NCHARCHECKSUM - 2) = data
  <2> DEFINE d == SubSeq(f, 5, p)
  <2>1. Len(f) - NCHARCHECKSUM - 2 = p
    <3>1. Len(f) = n /\ p \in Nat /\ NCHARCHECKSUM \in Nat
      BY <1>10, <1>15, Sizes
    <3>2. n = p + NCHARCHECKSUM + 2
      BY DEF n
    <3> HIDE DEF d
    <3> QED BY <3>1, <3>2
  <2>2. 5 \in Int /\ p \in Int /\ \A i \in 5 .. p : f[i] \in S
    <3>1. \A i \in 5 .. p : i \in 1 .. Len(f)
      BY <1>10, <1>15, Sizes DEF n
    <3> QED BY <1>10, <1>15, <3>1, ElementOfSeq
  <2>3. /\ d \in Seq(S) /\ Len(d) = IF 5 <= p THEN p - 5 + 1 ELSE 0
        /\ \A i \in 1 .. p - 5 + 1 : d[i] = f[5 + i - 1]
    BY <2>2, SubSeqProperties
  <2> HIDE DEF d
  <2>4. Len(d) = p - 4
    BY <1>4, <1>10, <2>3
  <2>5. ASSUME NEW i \in 1 .. Len(d) PROVE d[i] = data[i]
    <3>1. /\ i \in 1 .. p - 5 + 1 /\ 5 + i - 1 = 4 + i /\ 4 + i \in 1 .. n
          /\ i \in 1 .. p - 4
      BY <1>4, <1>10, <2>4, Sizes DEF n
    <3>2. d[i] = f[5 + i - 1] /\ f[4 + i] = s[4 + i] /\ data[i] = s[4 + i]
      BY <1>15, <1>16, <2>3, <3>1
    <3> QED BY <3>1, <3>2
  <2>6. d = data
    BY <1>16, <2>3, <2>4, <2>5, SeqEqual
  <2> QED BY <2>1, <2>6 DEF d
<1>18. Message(f[2], f[3], f[4], SubSeq(f, 5, Len(f) - NCHARCHECKSUM - 2)) = m
  <2>1. 2 \in 1 .. n /\ 3 \in 1 .. n /\ 4 \in 1 .. n
    BY <1>4, <1>10, Sizes DEF n
  <2>2. f[2] = s[2] /\ f[3] = s[3] /\ f[4] = s[4]
    BY <1>15, <2>1
  <2> QED BY <1>17, <2>2
<1>19. ASSUME NEW i \in 2 .. p PROVE s[i] \notin Delimiters
  <2>1. i \in 2 .. iEnd /\ i \in 1 .. iEnd /\ i \in 1 .. p
    BY <1>1, <1>5
  <2>2. \A j \in 2 .. iEnd : s[j] # Gt
    BY DEF iEnd
  <2>3. s[i] # Gt /\ s[i] # Nl /\ s[i] # Dot
    BY <1>1, <1>5, <2>1, <2>2
  <2> QED BY <2>3 DEF Delimiters
<1>20. Plain(m)
  <2>1. 2 \in 2 .. p /\ 3 \in 2 .. p /\ 4 \in 2 .. p
    BY <1>4, <1>10
  <2>2. {s[2], s[3], s[4]} \cap Delimiters = {}
    BY <1>19, <2>1
  <2>3. ASSUME NEW i \in 1 .. Len(data) PROVE data[i] \notin Delimiters
    <3>1. i \in 1 .. p - 4 /\ 4 + i \in 2 .. p
      BY <1>4, <1>10, <1>16
    <3>2. data[i] = s[4 + i]
      BY <1>16, <3>1
    <3> QED BY <1>19, <3>1, <3>2
  <2>4. /\ m.ascVersion = s[2] /\ m.appVersion = s[3] /\ m.command = s[4]
        /\ m.data = data
    BY DEF Message
  <2> HIDE DEF m
  <2> QED BY <2>2, <2>3, <2>4 DEF Plain
<1>21. Len(f) \in NCHARCHECKSUM + 6 .. MAXMESSAGELEN
  <2>1. Len(f) = p + NCHARCHECKSUM + 2
    BY <1>15 DEF n
  <2>2. p + NCHARCHECKSUM + 2 \in NCHARCHECKSUM + 6 .. MAXMESSAGELEN
    BY <1>4, <1>10, Sizes
  <2> QED BY <2>1, <2>2
<1>22. Frame(m) = f
  BY <1>13 DEF f
<1> HIDE DEF m
<1>23. IsFrame(Frame(m))
  BY <1>18, <1>20, <1>21, <1>22 DEF IsFrame
<1>24. s = Frame(m) \o rest
  <2>1. Take(s, n) \o Drop(s, n) = s
    BY <1>10, TakeThenDrop
  <2> QED BY <1>13, <1>14, <2>1
<1>25. Len(Frame(m)) \in Nat
  BY <1>10, <1>15, <1>22
<1>26. Len(rest) \in Nat /\ Len(s) = Len(Frame(m)) + Len(rest)
  <2>1. Len(rest) = Len(s) - n
    BY <1>10, <1>14, Dropping
  <2>2. Len(Frame(m)) = n
    BY <1>15, <1>22
  <2> QED BY <1>1, <1>10, <2>1, <2>2
<1> QED BY <1>6, <1>23, <1>24, <1>25, <1>26 DEF r, IsUnpacked

(* The result of a call with the checksum in force. *)
LEMMA TheResult ==
  ASSUME NEW buf, NEW r \in get_message_from_input_buffer(buf, FALSE)
  PROVE  r = get_message(synchronised(buf), FALSE)
  BY DEF get_message_from_input_buffer

(* What is handed over stood whole in the buffer, in front of what stays. *)
LEMMA MessageIsAFrame ==
  ASSUME NEW buf \in Seq(0 .. 255), NEW r \in get_message_from_input_buffer(buf, FALSE),
         r.message # NoMessage
  PROVE  \E n \in 0 .. Len(buf) - 1 :
            /\ IsFrame(Frame(r.message))
            /\ Drop(buf, n) = Frame(r.message) \o r.rest
            /\ Len(Frame(r.message)) \in Nat /\ Len(r.rest) \in Nat /\ Len(buf) \in Nat
            /\ Len(buf) - n = Len(Frame(r.message)) + Len(r.rest)
<1> DEFINE s == synchronised(buf)
<1>1. Len(buf) \in Nat
  BY LenProperties
<1>2. s \in Seq(0 .. 255) /\ Len(s) \in Nat
  BY SynchronisedType
<1>3. r = get_message(s, FALSE)
  BY TheResult
<1>4. find_first(s, Nl) < Len(s)
  <2> SUFFICES ASSUME find_first(s, Nl) >= Len(s) PROVE FALSE
    <3>1. find_first(s, Nl) \in 0 .. Len(s)
      BY <1>2, FirstFound
    <3> QED BY <1>2, <3>1
  <2>1. get_message(s, FALSE) = Nothing(s)
    BY Zenon DEF get_message
  <2> HIDE DEF s
  <2>2. r = Nothing(s)
    BY <1>3, <2>1
  <2>3. r.message = NoMessage
    BY <2>2 DEF Nothing
  <2> QED BY <2>3
<1>5. PICK n \in 0 .. Len(buf) - 1 :
        /\ s = Drop(buf, n)
        /\ s[1] = Gt
        /\ \A i \in 2 .. find_first(s, Nl) : s[i] # Gt
  <2>1. Gt # Nl
    BY DEF Gt, Nl
  <2> QED BY <1>4, <2>1, Synchronising DEF synchronised
<1> HIDE DEF s
<1>6. /\ IsFrame(Frame(r.message))
      /\ Len(Frame(r.message)) \in Nat
      /\ s = Frame(r.message) \o r.rest
      /\ Len(s) = Len(Frame(r.message)) + Len(r.rest) /\ Len(r.rest) \in Nat
  <2>1. Gt \in 0 .. 255
    BY DEF Gt
  <2>2. s[1] = Gt /\ \A i \in 2 .. find_first(s, Nl) : s[i] # Gt
    BY <1>5
  <2>3. get_message(s, FALSE).message # NoMessage
    BY <1>3
  <2>4. IsUnpacked(s, get_message(s, FALSE))
    BY <1>2, <1>4, <2>1, <2>2, <2>3, Unpacking
  <2> QED BY <1>3, <2>4 DEF IsUnpacked
<1>7. Len(s) = Len(buf) - n
  <2>1. n \in 0 .. Len(buf)
    BY <1>1
  <2> QED BY <1>1, <1>5, <2>1, Dropping
<1> QED BY <1>1, <1>5, <1>6, <1>7

(***************************************************************************)
(* With the checksum in force, whatever the line did before, a message     *)
(* that get_message_from_input_buffer hands over stood in the buffer as    *)
(* one whole frame, and what stood behind it stays.                        *)
(***************************************************************************)
THEOREM InputHandsOverFrames == Spec => UnpackedIsAFrame
<1> DEFINE P == Unpacks /\ ~ignoreCRCMismatch
                  => LET frame == Frame(got'.message)
                         front == Len(in_buf) - Len(in_buf') - Len(frame)
                     IN  /\ IsFrame(frame)
                         /\ front >= 0
                         /\ Drop(in_buf, front) = frame \o in_buf'
<1>1. TypeOK /\ [Next]_vars => [P]_vars
  <2> SUFFICES ASSUME TypeOK, Unpacks, ~ignoreCRCMismatch
               PROVE  LET frame == Frame(got'.message)
                          front == Len(in_buf) - Len(in_buf') - Len(frame)
                      IN  /\ IsFrame(frame)
                          /\ front >= 0
                          /\ Drop(in_buf, front) = frame \o in_buf'
    OBVIOUS
  <2>1. in_buf \in Seq(0 .. 255) /\ ignoreCRCMismatch = FALSE
    BY DEF TypeOK
  <2>2. PICK r \in get_message_from_input_buffer(in_buf, FALSE) :
          in_buf' = r.rest /\ got' = [err |-> r.err, message |-> r.message]
    BY <2>1 DEF Unpacks, GetMessage
  <2>3. r.message # NoMessage /\ got'.message = r.message
    BY <2>2 DEF Unpacks
  <2>4. PICK n \in 0 .. Len(in_buf) - 1 :
          /\ IsFrame(Frame(r.message))
          /\ Drop(in_buf, n) = Frame(r.message) \o r.rest
          /\ Len(Frame(r.message)) \in Nat /\ Len(r.rest) \in Nat /\ Len(in_buf) \in Nat
          /\ Len(in_buf) - n = Len(Frame(r.message)) + Len(r.rest)
    BY <2>1, <2>3, MessageIsAFrame
  <2>5. Len(in_buf) - Len(in_buf') - Len(Frame(got'.message)) = n
    <3> DEFINE x == Len(in_buf)
               y == Len(r.rest)
               z == Len(Frame(r.message))
    <3>1. x - y - z = n
      <4>1. x \in Nat /\ y \in Nat /\ z \in Nat /\ n \in 0 .. x - 1 /\ x - n = z + y
        BY <2>4
      <4> HIDE DEF x, y, z
      <4> QED BY <4>1
    <3> QED BY <2>2, <2>3, <3>1
  <2>6. n >= 0
    BY <2>4
  <2> QED BY <2>2, <2>3, <2>4, <2>5, <2>6
<1>2. Spec => []TypeOK
  BY InputTypeOK
<1> QED BY <1>1, <1>2, PTL DEF Spec, UnpackedIsAFrame

----------------------------------------------------------------------------
(* Whole frames.                                                           *)

(* convert_uint16_to_hex writes digits, as many as a frame has for them.   *)
ChecksumsAreDigits ==
  \A s \in Seq(0 .. 255) : /\ Crc(s) \in Seq((0 .. 255) \ Delimiters)
                           /\ Len(Crc(s)) = NCHARCHECKSUM

(* A whole frame stands in s from b to e.                                  *)
IsFrameFrom(s, b, e) ==
  /\ b \in 1 .. Len(s) /\ e \in 1 .. Len(s)
  /\ s[b] = Gt /\ s[e] = Nl
  /\ IsFrame(SubSeq(s, b, e))

(* It is what FramesIn counts from the back. *)
LEMMA FramesAre ==
  ASSUME NEW s, NEW f
  PROVE  f \in FramesIn(s)
           <=> \E b, e : IsFrameFrom(s, b, e) /\ f = <<Len(s) - b, Len(s) - e>>
<1>1. ASSUME f \in FramesIn(s)
      PROVE  \E b, e : IsFrameFrom(s, b, e) /\ f = <<Len(s) - b, Len(s) - e>>
  <2>1. PICK be \in {pair \in Where(s, Gt) \X Where(s, Nl) :
                       IsFrame(SubSeq(s, pair[1], pair[2]))} :
          f = <<Len(s) - be[1], Len(s) - be[2]>>
    BY <1>1 DEF FramesIn
  <2>2. IsFrameFrom(s, be[1], be[2])
    BY <2>1 DEF IsFrameFrom, Where
  <2> QED BY <2>1, <2>2
<1>2. ASSUME NEW b, NEW e, IsFrameFrom(s, b, e)
      PROVE  <<Len(s) - b, Len(s) - e>> \in FramesIn(s)
  <2>1. <<b, e>> \in {pair \in Where(s, Gt) \X Where(s, Nl) :
                       IsFrame(SubSeq(s, pair[1], pair[2]))}
    BY <1>2 DEF IsFrameFrom, Where
  <2> QED BY <2>1 DEF FramesIn
<1> QED BY <1>1, <1>2

(* One of them, by its places. *)
LEMMA FrameIsIn ==
  ASSUME NEW s, NEW b, NEW e, IsFrameFrom(s, b, e)
  PROVE  <<Len(s) - b, Len(s) - e>> \in FramesIn(s)
  BY FramesAre

(* t is u, v and w one behind the other, element by element.               *)
IsRow(S, u, v, w, t) ==
  /\ t \in Seq(S) /\ Len(t) = Len(u) + Len(v) + Len(w)
  /\ \A i \in 1 .. Len(u) : t[i] = u[i]
  /\ \A i \in 1 .. Len(v) : t[Len(u) + i] = v[i]
  /\ \A i \in 1 .. Len(w) : t[Len(u) + Len(v) + i] = w[i]

(* So is what they are put together to. *)
LEMMA ThreeInARow ==
  ASSUME NEW S, NEW u \in Seq(S), NEW v \in Seq(S), NEW w \in Seq(S)
  PROVE  IsRow(S, u, v, w, u \o v \o w)
<1> DEFINE x == u \o v
           t == x \o w
<1>1. Len(u) \in Nat /\ Len(v) \in Nat /\ Len(w) \in Nat
  BY LenProperties
<1>2. /\ x \in Seq(S) /\ Len(x) = Len(u) + Len(v)
      /\ \A i \in 1 .. Len(u) + Len(v) : x[i] = IF i <= Len(u) THEN u[i] ELSE v[i - Len(u)]
  BY ConcatProperties
<1> HIDE DEF x
<1>3. /\ t \in Seq(S) /\ Len(t) = Len(x) + Len(w)
      /\ \A i \in 1 .. Len(x) + Len(w) : t[i] = IF i <= Len(x) THEN x[i] ELSE w[i - Len(x)]
  <2>1. x \in Seq(S) /\ w \in Seq(S)
    BY <1>2
  <2> QED BY <2>1, ConcatProperties
<1> HIDE DEF t
<1>4. \A i \in 1 .. Len(u) : t[i] = u[i]
  BY <1>1, <1>2, <1>3
<1>5. ASSUME NEW i \in 1 .. Len(v) PROVE t[Len(u) + i] = v[i]
  <2>1. Len(u) + i \in 1 .. Len(u) + Len(v) /\ ~(Len(u) + i <= Len(u)) /\ Len(u) + i - Len(u) = i
    BY <1>1
  <2> QED BY <1>1, <1>2, <1>3, <2>1
<1>6. ASSUME NEW i \in 1 .. Len(w) PROVE t[Len(u) + Len(v) + i] = w[i]
  <2>1. /\ Len(x) + i \in 1 .. Len(x) + Len(w) /\ ~(Len(x) + i <= Len(x))
        /\ Len(x) + i - Len(x) = i
    BY <1>1, <1>2
  <2> QED BY <1>2, <1>3, <2>1
<1>7. Len(t) = Len(u) + Len(v) + Len(w)
  BY <1>2, <1>3
<1> QED BY <1>3, <1>4, <1>5, <1>6, <1>7 DEF t, x, IsRow

(***************************************************************************)
(* The characters of a frame: the '>' is its first and only one, the '\n'  *)
(* its last and only one, and the '.' stands in front of the checksum.     *)
(***************************************************************************)
LEMMA FrameParts ==
  ASSUME ChecksumsAreDigits, NEW f \in Seq(0 .. 255), IsFrame(f)
  PROVE  LET L == Len(f)
             body == Take(f, L - NCHARCHECKSUM - 1)
             m == Message(f[2], f[3], f[4], SubSeq(f, 5, L - NCHARCHECKSUM - 2))
         IN  /\ L \in Nat /\ L >= NCHARCHECKSUM + 6 /\ L <= MAXMESSAGELEN
             /\ f[1] = Gt /\ f[L] = Nl /\ f[L - NCHARCHECKSUM - 1] = Dot
             /\ \A i \in 2 .. L - NCHARCHECKSUM - 2 : f[i] \notin Delimiters
             /\ \A i \in L - NCHARCHECKSUM .. L - 1 : f[i] \notin Delimiters
             /\ Frame(m) = f
             /\ \A i \in 1 .. NCHARCHECKSUM :
                   f[L - NCHARCHECKSUM - 1 + i] = Crc(body)[i]
<1> DEFINE L == Len(f)
           N == NCHARCHECKSUM
           d == SubSeq(f, 5, L - N - 2)
           m == Message(f[2], f[3], f[4], d)
           h == <<Gt, f[2], f[3], f[4]>>
           b == h \o d \o <<Dot>>
           c == Crc(b)
           body == Take(f, L - N - 1)
<1>1. L \in Nat /\ L >= N + 6 /\ L <= MAXMESSAGELEN /\ N \in Nat /\ N > 0
  BY Sizes, LenProperties DEF IsFrame
<1>2. Plain(m) /\ f = Frame(m)
  BY DEF IsFrame
<1>3. /\ m.ascVersion = f[2] /\ m.appVersion = f[3] /\ m.command = f[4] /\ m.data = d
  BY DEF Message
<1> HIDE DEF m
<1>4. Body(m) = b /\ f = b \o c \o <<Nl>>
  BY <1>2, <1>3, Zenon DEF Body, Frame
<1>5. d \in Seq(0 .. 255) /\ Len(d) = L - N - 6 /\ \A i \in 1 .. L - N - 6 : d[i] = f[4 + i]
  <2>1. \A i \in 5 .. L - N - 2 : f[i] \in 0 .. 255
    <3>1. \A i \in 1 .. L : f[i] \in 0 .. 255
      BY ElementOfSeq
    <3> QED BY <1>1, <3>1
  <2>2. 5 \in Int /\ L - N - 2 \in Int
    BY <1>1
  <2>3. /\ d \in Seq(0 .. 255)
        /\ Len(d) = IF 5 <= L - N - 2 THEN L - N - 2 - 5 + 1 ELSE 0
        /\ \A i \in 1 .. L - N - 2 - 5 + 1 : d[i] = f[5 + i - 1]
    BY <2>1, <2>2, SubSeqProperties
  <2> QED BY <1>1, <2>3
<1> HIDE DEF d
<1>6. h \in Seq(0 .. 255) /\ Len(h) = 4 /\ h[1] = Gt
      /\ <<Dot>> \in Seq(0 .. 255) /\ Len(<<Dot>>) = 1 /\ <<Dot>>[1] = Dot
      /\ <<Nl>> \in Seq(0 .. 255) /\ Len(<<Nl>>) = 1 /\ <<Nl>>[1] = Nl
  <2>1. /\ 2 \in 1 .. L /\ 3 \in 1 .. L /\ 4 \in 1 .. L
    BY <1>1
  <2>2. f[2] \in 0 .. 255 /\ f[3] \in 0 .. 255 /\ f[4] \in 0 .. 255
    BY <2>1, ElementOfSeq
  <2> QED BY <2>2 DEF Gt, Dot, Nl
<1> HIDE DEF h
<1>7. /\ b \in Seq(0 .. 255) /\ Len(b) = L - N - 1
      /\ \A i \in 1 .. 4 : b[i] = h[i]
      /\ b[4 + (L - N - 6) + 1] = Dot
  <2>1. /\ b \in Seq(0 .. 255) /\ Len(b) = Len(h) + Len(d) + Len(<<Dot>>)
        /\ \A i \in 1 .. Len(h) : b[i] = h[i]
        /\ \A i \in 1 .. Len(<<Dot>>) : b[Len(h) + Len(d) + i] = <<Dot>>[i]
    <3>1. IsRow(0 .. 255, h, d, <<Dot>>, b)
      <4>1. h \in Seq(0 .. 255) /\ d \in Seq(0 .. 255) /\ <<Dot>> \in Seq(0 .. 255)
        BY <1>5, <1>6
      <4> QED BY <4>1, ThreeInARow, Zenon
    <3> HIDE DEF b
    <3> QED BY <3>1 DEF IsRow
  <2> HIDE DEF b
  <2>2. Len(h) + Len(d) + Len(<<Dot>>) = L - N - 1
    BY <1>1, <1>5, <1>6
  <2>3. b[4 + (L - N - 6) + 1] = Dot
    BY <1>5, <1>6, <2>1
  <2> QED BY <1>6, <2>1, <2>2, <2>3
<1> HIDE DEF b
<1>8. c \in Seq(0 .. 255) /\ Len(c) = N /\ \A i \in 1 .. N : c[i] \notin Delimiters
  <2>1. c \in Seq((0 .. 255) \ Delimiters) /\ Len(c) = N
    BY <1>7 DEF ChecksumsAreDigits
  <2>2. \A i \in 1 .. N : c[i] \in (0 .. 255) \ Delimiters
    BY <2>1, ElementOfSeq
  <2>3. (0 .. 255) \ Delimiters \subseteq 0 .. 255
    OBVIOUS
  <2> QED BY <2>1, <2>2, <2>3
<1> HIDE DEF c
<1>9. /\ L = Len(b) + Len(c) + 1
      /\ \A i \in 1 .. Len(b) : f[i] = b[i]
      /\ \A i \in 1 .. N : f[Len(b) + i] = c[i]
      /\ f[Len(b) + N + 1] = Nl
  <2> DEFINE t == f
  <2>1. /\ Len(t) = Len(b) + Len(c) + Len(<<Nl>>)
        /\ \A i \in 1 .. Len(b) : t[i] = b[i]
        /\ \A i \in 1 .. Len(c) : t[Len(b) + i] = c[i]
        /\ \A i \in 1 .. Len(<<Nl>>) : t[Len(b) + Len(c) + i] = <<Nl>>[i]
    <3>1. IsRow(0 .. 255, b, c, <<Nl>>, b \o c \o <<Nl>>)
      BY <1>6, <1>7, <1>8, ThreeInARow
    <3>2. IsRow(0 .. 255, b, c, <<Nl>>, f)
      BY <1>4, <3>1, Zenon
    <3> QED BY <3>2 DEF IsRow
  <2> QED BY <1>6, <1>8, <2>1
<1>10. body = b
  <2>1. L - N - 1 \in 0 .. Len(f)
    BY <1>1
  <2>2. /\ body \in Seq(0 .. 255) /\ Len(body) = L - N - 1
        /\ \A i \in 1 .. L - N - 1 : body[i] = f[i]
    BY <2>1, Taking
  <2> HIDE DEF body
  <2>3. Len(body) = Len(b) /\ \A i \in 1 .. Len(body) : body[i] = b[i]
    BY <1>7, <1>9, <2>2
  <2> QED BY <1>7, <2>2, <2>3, SeqEqual
<1>11. f[1] = Gt /\ f[L] = Nl /\ f[L - N - 1] = Dot
  <2>1. 1 \in 1 .. Len(b) /\ 1 \in 1 .. 4 /\ L - N - 1 \in 1 .. Len(b)
        /\ 4 + (L - N - 6) + 1 = L - N - 1 /\ Len(b) + N + 1 = L
    BY <1>1, <1>7
  <2> QED BY <1>6, <1>7, <1>9, <2>1
<1>12. \A i \in 2 .. L - N - 2 : f[i] \notin Delimiters
  <2> SUFFICES ASSUME NEW i \in 2 .. L - N - 2 PROVE f[i] \notin Delimiters
    OBVIOUS
  <2>1. CASE i <= 4
    <3>1. i = 2 \/ i = 3 \/ i = 4
      BY <2>1
    <3>2. {f[2], f[3], f[4]} \cap Delimiters = {}
      BY <1>2, <1>3 DEF Plain
    <3> QED BY <3>1, <3>2
  <2>2. CASE i > 4
    <3>1. i - 4 \in 1 .. L - N - 6 /\ 4 + (i - 4) = i
      BY <1>1, <2>2
    <3>2. d[i - 4] \notin Delimiters
      BY <1>2, <1>3, <1>5, <3>1 DEF Plain
    <3> QED BY <1>5, <3>1, <3>2
  <2> QED BY <2>1, <2>2
<1>13. \A i \in L - N .. L - 1 : f[i] \notin Delimiters
  <2> SUFFICES ASSUME NEW i \in L - N .. L - 1 PROVE f[i] \notin Delimiters
    OBVIOUS
  <2>1. i - Len(b) \in 1 .. N /\ Len(b) + (i - Len(b)) = i
    BY <1>1, <1>7
  <2> QED BY <1>8, <1>9, <2>1
<1>14. \A i \in 1 .. N : f[L - N - 1 + i] = Crc(body)[i]
  BY <1>7, <1>9, <1>10 DEF c
<1> QED BY <1>1, <1>2, <1>11, <1>12, <1>13, <1>14 DEF m, d

(* Part of a sequence, element by element. *)
LEMMA Part ==
  ASSUME NEW S, NEW s \in Seq(S), NEW b \in 1 .. Len(s), NEW e \in b .. Len(s)
  PROVE  LET p == SubSeq(s, b, e)
         IN  p \in Seq(S) /\ Len(p) = e - b + 1 /\ \A i \in 1 .. e - b + 1 : p[i] = s[b + i - 1]
<1>1. \A i \in 1 .. Len(s) : s[i] \in S
  BY ElementOfSeq
<1>2. b \in Int /\ e \in Int /\ b <= e /\ \A i \in b .. e : s[i] \in S
  BY <1>1, LenProperties
<1> QED BY <1>2, SubSeqProperties

(* p is the part of s from b to e. *)
IsPart(p, S, s, b, e) ==
  /\ p \in Seq(S) /\ Len(p) = e - b + 1
  /\ \A i \in 1 .. e - b + 1 : p[i] = s[b + i - 1]

(* The lemma, in a word. *)
LEMMA PartIs ==
  ASSUME NEW S, NEW s \in Seq(S), NEW b \in 1 .. Len(s), NEW e \in b .. Len(s)
  PROVE  IsPart(SubSeq(s, b, e), S, s, b, e)
  BY Part DEF IsPart

(* A frame in a buffer: its characters by their places there. *)
LEMMA FrameInBuffer ==
  ASSUME ChecksumsAreDigits, NEW s \in Seq(0 .. 255), NEW b, NEW e, IsFrameFrom(s, b, e)
  PROVE  /\ b \in 1 .. Len(s) /\ e \in 1 .. Len(s) /\ Len(s) \in Nat
         /\ b + NCHARCHECKSUM + 5 <= e /\ e < b + MAXMESSAGELEN
         /\ s[b] = Gt /\ s[e] = Nl /\ s[e - NCHARCHECKSUM - 1] = Dot
         /\ \A i \in b + 1 .. e : s[i] # Gt
         /\ \A i \in b .. e - 1 : s[i] # Nl
         /\ \A i \in b .. e - NCHARCHECKSUM - 2 : s[i] # Dot
<1> DEFINE f == SubSeq(s, b, e)
           N == NCHARCHECKSUM
<1>1. b \in 1 .. Len(s) /\ e \in 1 .. Len(s) /\ s[b] = Gt /\ s[e] = Nl /\ IsFrame(f)
  BY DEF IsFrameFrom
<1>2. Len(s) \in Nat /\ N \in Nat /\ N > 0
  BY LenProperties, Sizes
<1>3. b <= e
  <2> SUFFICES ASSUME e < b PROVE FALSE
    BY <1>1, <1>2
  <2>1. f = <<>>
    BY <1>1, <1>2, SubSeqEmpty
  <2>2. Len(f) = 0
    BY <2>1, EmptySeq
  <2> HIDE DEF f
  <2> QED BY <1>1, <1>2, <2>2 DEF IsFrame
<1>4. f \in Seq(0 .. 255) /\ Len(f) = e - b + 1 /\ \A i \in 1 .. e - b + 1 : f[i] = s[b + i - 1]
  <2>1. e \in b .. Len(s)
    BY <1>1, <1>2, <1>3
  <2>2. IsPart(f, 0 .. 255, s, b, e)
    BY <1>1, <2>1, PartIs
  <2> QED BY <2>2 DEF IsPart
<1> HIDE DEF f
<1>5. /\ Len(f) >= N + 6 /\ Len(f) <= MAXMESSAGELEN /\ f[Len(f) - N - 1] = Dot
      /\ \A i \in 2 .. Len(f) - N - 2 : f[i] \notin Delimiters
      /\ \A i \in Len(f) - N .. Len(f) - 1 : f[i] \notin Delimiters
  BY <1>1, <1>4, FrameParts
<1>6. b + N + 5 <= e /\ e < b + MAXMESSAGELEN
  <2>1. /\ b \in Int /\ e \in Int /\ N \in Int /\ MAXMESSAGELEN \in Int
        /\ e - b + 1 >= N + 6 /\ e - b + 1 <= MAXMESSAGELEN
    BY <1>1, <1>2, <1>4, <1>5, Sizes
  <2> HIDE DEF N
  <2> QED BY <2>1
<1>7. s[e - N - 1] = Dot
  <2>1. /\ Len(f) - N - 1 \in 1 .. e - b + 1 /\ b + (Len(f) - N - 1) - 1 = e - N - 1
    BY <1>1, <1>2, <1>4, <1>6
  <2> QED BY <1>4, <1>5, <2>1
<1>8. ASSUME NEW i \in b .. e
      PROVE  /\ i # b /\ i < e - N - 1 => s[i] \notin Delimiters
             /\ i > e - N - 1 /\ i < e => s[i] \notin Delimiters
  <2> DEFINE j == i - b + 1
  <2>1. j \in 1 .. e - b + 1 /\ b + j - 1 = i
    BY <1>1, <1>8
  <2>2. f[j] = s[i]
    BY <1>4, <2>1
  <2>3. i # b /\ i < e - N - 1 => j \in 2 .. Len(f) - N - 2
    BY <1>1, <1>2, <1>4, <1>8
  <2>4. i > e - N - 1 /\ i < e => j \in Len(f) - N .. Len(f) - 1
    BY <1>1, <1>2, <1>4, <1>8
  <2> HIDE DEF j
  <2> QED BY <1>5, <2>2, <2>3, <2>4
<1>9. Gt \in Delimiters /\ Dot \in Delimiters /\ Nl \in Delimiters
      /\ Gt # Dot /\ Gt # Nl /\ Dot # Nl
  BY DEF Delimiters, Gt, Dot, Nl
<1>10. ASSUME NEW i \in b + 1 .. e PROVE s[i] # Gt
  <2>1. i \in b .. e /\ i # b
    BY <1>1, <1>10
  <2>2. i < e - N - 1 \/ i = e - N - 1 \/ (i > e - N - 1 /\ i < e) \/ i = e
    BY <1>1, <1>2, <2>1
  <2> QED BY <1>1, <1>7, <1>8, <1>9, <2>1, <2>2
<1>11. ASSUME NEW i \in b .. e - 1 PROVE s[i] # Nl
  <2>1. i \in b .. e /\ i < e
    BY <1>1, <1>11
  <2>2. i = b \/ (i # b /\ i < e - N - 1) \/ i = e - N - 1 \/ (i > e - N - 1 /\ i < e)
    BY <1>1, <1>2, <2>1
  <2> QED BY <1>1, <1>7, <1>8, <1>9, <2>1, <2>2
<1>12. ASSUME NEW i \in b .. e - N - 2 PROVE s[i] # Dot
  <2>1. i \in b .. e /\ i < e - N - 1
    BY <1>1, <1>2, <1>12
  <2> QED BY <1>1, <1>8, <1>9, <2>1
<1> QED BY <1>1, <1>2, <1>6, <1>7, <1>10, <1>11, <1>12

(* Of its places, where it begins and ends. *)
LEMMA FrameSpan ==
  ASSUME ChecksumsAreDigits, NEW s \in Seq(0 .. 255), NEW b, NEW e, IsFrameFrom(s, b, e)
  PROVE  /\ b \in 1 .. Len(s) /\ e \in 1 .. Len(s) /\ Len(s) \in Nat /\ b <= e
         /\ s[b] = Gt /\ s[e] = Nl
<1>1. /\ b \in 1 .. Len(s) /\ e \in 1 .. Len(s) /\ Len(s) \in Nat
      /\ b + NCHARCHECKSUM + 5 <= e /\ s[b] = Gt /\ s[e] = Nl
  BY FrameInBuffer
<1> QED BY <1>1, Sizes

(* s has from b to e what t has from x to y. *)
IsSamePart(t, x, y, s, b, e) == SubSeq(t, x, y) = SubSeq(s, b, e)

(* Places counted from the back do not move when the front goes. *)
LEMMA FromTheBack ==
  ASSUME NEW l \in Int, NEW k \in Int, NEW x \in Int
  PROVE  (l - k) - x = l - (k + x) /\ l - (l - x) = x
  OBVIOUS

(* A frame behind the bytes that go from the front is the same one.        *)
LEMMA FrameBehind ==
  ASSUME NEW s \in Seq(0 .. 255), NEW b, NEW e, IsFrameFrom(s, b, e), b <= e,
         NEW k \in Nat, k < b
  PROVE  /\ IsFrameFrom(Drop(s, k), b - k, e - k)
         /\ IsSamePart(Drop(s, k), b - k, e - k, s, b, e)
         /\ Len(Drop(s, k)) = Len(s) - k
         /\ Len(Drop(s, k)) - (b - k) = Len(s) - b /\ Len(Drop(s, k)) - (e - k) = Len(s) - e
<1> DEFINE r == Drop(s, k)
           x == b - k
           y == e - k
           p == SubSeq(s, b, e)
           q == SubSeq(r, x, y)
<1>1. /\ b \in 1 .. Len(s) /\ e \in 1 .. Len(s) /\ Len(s) \in Nat
      /\ s[b] = Gt /\ s[e] = Nl /\ IsFrame(p)
  BY LenProperties DEF IsFrameFrom
<1>2. r \in Seq(0 .. 255) /\ Len(r) = Len(s) - k /\ \A i \in 1 .. Len(s) - k : r[i] = s[k + i]
  <2>1. k \in 0 .. Len(s)
    BY <1>1
  <2> QED BY <2>1, Dropping
<1> HIDE DEF r
<1>3. x \in 1 .. Len(r) /\ y \in x .. Len(r) /\ y \in 1 .. Len(r) /\ k + x = b /\ k + y = e
  BY <1>1, <1>2
<1> HIDE DEF x, y
<1>4. q \in Seq(0 .. 255) /\ Len(q) = y - x + 1 /\ \A i \in 1 .. y - x + 1 : q[i] = r[x + i - 1]
  <2>1. r \in Seq(0 .. 255) /\ x \in 1 .. Len(r) /\ y \in x .. Len(r)
    BY <1>2, <1>3
  <2> HIDE DEF q
  <2>2. SubSeq(r, x, y) = q
    BY DEF q
  <2>3. IsPart(q, 0 .. 255, r, x, y)
    BY <2>1, <2>2, PartIs
  <2> QED BY <2>3 DEF IsPart
<1>5. p \in Seq(0 .. 255) /\ Len(p) = e - b + 1 /\ \A i \in 1 .. e - b + 1 : p[i] = s[b + i - 1]
  <2>1. e \in b .. Len(s)
    BY <1>1
  <2>2. IsPart(p, 0 .. 255, s, b, e)
    BY <1>1, <2>1, PartIs
  <2> QED BY <2>2 DEF IsPart
<1> HIDE DEF p, q
<1>6. Len(q) = Len(p)
  BY <1>1, <1>2, <1>3, <1>4, <1>5
<1>7. ASSUME NEW i \in 1 .. Len(q) PROVE q[i] = p[i]
  <2>1. /\ i \in 1 .. y - x + 1 /\ i \in 1 .. e - b + 1
        /\ x + i - 1 \in 1 .. Len(s) - k /\ k + (x + i - 1) = b + i - 1
    <3>1. /\ i \in Nat /\ 1 <= i /\ i <= e - b + 1 /\ i <= y - x + 1
          /\ Len(s) \in Nat /\ b \in Nat /\ e \in Nat /\ x \in Nat /\ y \in Nat
          /\ 1 <= x /\ k + x = b /\ k + y = e /\ e <= Len(s)
      BY <1>1, <1>3, <1>4, <1>5, <1>6
    <3> QED BY <3>1
  <2> QED BY <1>2, <1>4, <1>5, <2>1
<1>8. q = p
  BY <1>4, <1>5, <1>6, <1>7, SeqEqual
<1>9. r[x] = Gt /\ r[y] = Nl
  BY <1>1, <1>2, <1>3
<1>10. IsFrameFrom(r, x, y)
  BY <1>1, <1>3, <1>8, <1>9 DEF IsFrameFrom, q
<1>11. Len(r) - x = Len(s) - b /\ Len(r) - y = Len(s) - e
  <2>1. /\ x \in Int /\ y \in Int /\ b \in Int /\ e \in Int /\ Len(s) \in Int
        /\ k + x = b /\ k + y = e /\ Len(r) = Len(s) - k
    BY <1>1, <1>2, <1>3
  <2>2. (Len(s) - k) - x = Len(s) - (k + x) /\ (Len(s) - k) - y = Len(s) - (k + y)
    BY <2>1, FromTheBack
  <2> QED BY <2>1, <2>2, Zenon
<1>12. IsSamePart(r, x, y, s, b, e)
  BY <1>8 DEF IsSamePart, p, q
<1> QED BY <1>2, <1>10, <1>11, <1>12 DEF r, x, y

(***************************************************************************)
(* remove_front_unfinished_frames takes nothing of a whole frame.          *)
(***************************************************************************)
LEMMA SynchronisedKeeps ==
  ASSUME ChecksumsAreDigits, NEW s \in Seq(0 .. 255), NEW b, NEW e, IsFrameFrom(s, b, e)
  PROVE  \E n \in Nat : n < b /\ synchronised(s) = Drop(s, n)
<1> DEFINE complete == {x \in 1 .. Len(s) : Completes(s, x, Gt, Nl)}
           x0 == IF complete = {} THEN Len(s) + 1 ELSE Min(complete)
           F == {y \in 1 .. x0 - 1 : Opens(s, y, x0, Gt, Nl)}
<1>1. /\ b \in 1 .. Len(s) /\ e \in 1 .. Len(s) /\ Len(s) \in Nat /\ b < e
      /\ s[b] = Gt /\ s[e] = Nl
      /\ \A i \in b + 1 .. e : s[i] # Gt
      /\ \A i \in b .. e - 1 : s[i] # Nl
  BY FrameInBuffer, Sizes
<1>2. Opens(s, b, e, Gt, Nl) /\ b \in 1 .. e - 1
  BY <1>1 DEF Opens
<1>3. e \in complete
  BY <1>1, <1>2 DEF Completes
<1>4. complete \in SUBSET Nat
  BY <1>1
<1>5. x0 \in complete /\ x0 <= e
  <2> HIDE DEF complete
  <2>1. complete # {}
    BY <1>3
  <2>2. Min(complete) \in complete /\ \A j \in complete : Min(complete) <= j
    BY <1>4, <2>1, MinIsLeast
  <2> QED BY <1>3, <2>1, <2>2
<1>6. x0 \in 1 .. Len(s) /\ s[x0] = Nl /\ \E y \in 1 .. x0 - 1 : Opens(s, y, x0, Gt, Nl)
  <2>1. x0 \in 1 .. Len(s) /\ Completes(s, x0, Gt, Nl)
    BY <1>5
  <2> HIDE DEF x0
  <2> QED BY <2>1 DEF Completes
<1>7. F # {} /\ F = FrontFrame(s, Gt, Nl)
  <2>1. F # {}
    BY <1>6
  <2>2. F = FrontFrame(s, Gt, Nl)
    BY DEF FrontFrame
  <2> QED BY <2>1, <2>2
<1>8. \A y \in F : y \in 1 .. Len(s) /\ y < x0 /\ s[y] = Gt
  <2> SUFFICES ASSUME NEW y \in F PROVE y \in 1 .. Len(s) /\ y < x0 /\ s[y] = Gt
    OBVIOUS
  <2>1. y \in 1 .. x0 - 1 /\ s[y] = Gt
    BY DEF Opens
  <2> HIDE DEF x0, F
  <2> QED BY <1>1, <1>6, <2>1
<1> HIDE DEF F, x0, complete
<1>9. Max(F) \in F
  <2>1. F \in SUBSET (0 .. Len(s))
    BY <1>1, <1>8
  <2> QED BY <1>1, <1>7, <2>1, MaxIsGreatest
<1>10. Max(F) <= b
  <2> DEFINE y == Max(F)
  <2>1. y \in 1 .. Len(s) /\ y < x0 /\ s[y] = Gt
    BY <1>8, <1>9
  <2> HIDE DEF y
  <2>2. CASE x0 = e
    <3>1. ~(y \in b + 1 .. e)
      BY <1>1, <2>1
    <3> QED BY <1>1, <2>1, <2>2, <3>1 DEF y
  <2>3. CASE x0 < e
    <3>1. ~(x0 \in b .. e - 1)
      BY <1>1, <1>6
    <3>2. x0 < b
      BY <1>1, <1>6, <2>3, <3>1
    <3> QED BY <1>1, <1>6, <2>1, <3>2 DEF y
  <2> QED BY <1>1, <1>5, <1>6, <2>2, <2>3
<1>11. synchronised(s) = Drop(s, Max(F) - 1)
  BY <1>7, Zenon DEF synchronised, remove_front_unfinished_frames
<1>12. Max(F) - 1 \in Nat /\ Max(F) - 1 < b
  BY <1>1, <1>8, <1>9, <1>10
<1> QED BY <1>11, <1>12

(***************************************************************************)
(* What a call takes from the buffer ends before any later frame: a whole  *)
(* frame it takes bytes of begins no later than the first '\n'.            *)
(***************************************************************************)
LEMMA TakesFromTheFront ==
  ASSUME ChecksumsAreDigits, NEW s \in Seq(0 .. 255),
         find_first(s, Nl) < Len(s), s[1] = Gt
  PROVE  \E k \in 0 .. Len(s) :
            /\ get_message(s, FALSE).rest = Drop(s, k)
            /\ \A b, e : IsFrameFrom(s, b, e) /\ b <= k => b <= find_first(s, Nl)
<1> DEFINE iEnd == find_first(s, Nl)
           p == find_first(s, Dot)
           r == get_message(s, FALSE)
           N == NCHARCHECKSUM
           tail == Drop(s, p + 1)
           rest == Drop(tail, N + 1)
           c == [rest |-> rest, err |-> "none",
                 message |-> Message(s[2], s[3], s[4], Take(Drop(s, 4), p - 4))]
<1>1. /\ Len(s) \in Nat /\ iEnd \in 0 .. Len(s) - 1 /\ p \in Nat
      /\ s[iEnd + 1] = Nl /\ \A i \in 1 .. iEnd : s[i] # Nl
      /\ p > iEnd => r = Throws("INVALID_FRAME_PERIOD", pop_bad_frame(s))
      /\ p <= iEnd /\ ~(p >= 4 /\ p < MAXMESSAGELEN - N - 1) => \E err : r = Throws(err, s)
      /\ p <= iEnd /\ p >= 4 /\ p < MAXMESSAGELEN - N - 1
           => r = IF ~frame_ends(tail) THEN Throws("INVALID_FRAME", tail)
                  ELSE IF Take(tail, N) # Crc(Take(s, p + 1)) THEN Nothing(rest)
                  ELSE c
  <2>1. GetCases(s)
    BY Getting
  <2> QED BY <2>1 DEF GetCases
<1>2. N \in Nat /\ N > 0
  BY Sizes
<1>3. \A x, err : Throws(err, x).rest = x /\ Nothing(x).rest = x
  BY DEF Throws, Nothing
<1>4. c.rest = rest
  OBVIOUS
<1> HIDE DEF c
(* The last character taken is the first '\n', or none behind it is whole. *)
<1>5. ASSUME NEW k \in 0 .. Len(s), NEW b, NEW e, IsFrameFrom(s, b, e), b <= k, k <= iEnd + 1
      PROVE  b <= iEnd
  <2>1. b \in 1 .. Len(s) /\ s[b] = Gt
    BY <1>5 DEF IsFrameFrom
  <2>2. b # iEnd + 1
    <3>1. Gt # Nl
      BY DEF Gt, Nl
    <3> HIDE DEF iEnd
    <3> QED BY <1>1, <2>1, <3>1
  <2> HIDE DEF iEnd
  <2> QED BY <1>1, <1>5, <2>1, <2>2
<1>6. CASE p > iEnd
  <2>1. Where(s, Nl) # {} /\ Min(Where(s, Nl)) = iEnd + 1
    <3>1. Where(s, Nl) # {}
      BY <1>1 DEF Where
    <3>2. iEnd = Min(Where(s, Nl)) - 1
      BY <3>1 DEF find_first
    <3>3. Where(s, Nl) \in SUBSET Nat
      BY WhereType
    <3>4. Min(Where(s, Nl)) \in Nat
      BY <3>1, <3>3, MinIsLeast
    <3> HIDE DEF iEnd
    <3> QED BY <3>1, <3>2, <3>4
  <2>2. pop_bad_frame(s) = Drop(s, iEnd + 1)
    BY <2>1 DEF pop_bad_frame, remove_front_to
  <2>3. r.rest = Drop(s, iEnd + 1)
    BY <1>1, <1>3, <1>6, <2>2
  <2>4. iEnd + 1 \in 0 .. Len(s) /\ iEnd + 1 <= iEnd + 1
    BY <1>1
  <2> QED BY <1>5, <2>3, <2>4
<1>7. CASE p <= iEnd /\ ~(p >= 4 /\ p < MAXMESSAGELEN - N - 1)
  <2>1. r.rest = s
    BY <1>1, <1>3, <1>7
  <2>2. Drop(s, 0) = s
    BY <1>1, SubSeqFull DEF Drop
  <2>3. 0 \in 0 .. Len(s) /\ 0 <= iEnd + 1
    BY <1>1
  <2> QED BY <1>5, <2>1, <2>2, <2>3
<1>8. CASE p <= iEnd /\ p >= 4 /\ p < MAXMESSAGELEN - N - 1
  <2>1. p + 1 \in 0 .. Len(s) /\ p + 1 <= iEnd + 1
    BY <1>1, <1>8
  <2>2. CASE ~frame_ends(tail)
    <3>1. r.rest = tail
      BY <1>1, <1>3, <1>8, <2>2
    <3> QED BY <1>5, <2>1, <3>1
  <2>3. CASE frame_ends(tail)
    <3> DEFINE k == p + 1 + (N + 1)
    <3>1. r.rest = rest
      BY <1>1, <1>3, <1>4, <1>8, <2>3
    <3>2. /\ tail \in Seq(0 .. 255) /\ Len(tail) = Len(s) - (p + 1)
          /\ \A i \in 1 .. Len(s) - (p + 1) : tail[i] = s[p + 1 + i]
      <4>1. IsDropped(tail, 0 .. 255, s, p + 1)
        BY <2>1, DropIs
      <4> QED BY <4>1 DEF IsDropped
    <3>3. N + 1 <= Len(tail) /\ tail[N + 1] = Nl
      BY <2>3 DEF frame_ends
    <3> HIDE DEF tail
    <3>4. k \in 0 .. Len(s) /\ N + 1 \in 1 .. Len(s) - (p + 1)
      <4>1. /\ Len(s) \in Nat /\ p \in Nat /\ N \in Nat /\ p + 1 <= Len(s)
            /\ N + 1 <= Len(s) - (p + 1)
        BY <1>1, <1>2, <2>1, <3>2, <3>3
      <4> HIDE DEF p, N
      <4> QED BY <4>1
    <3>5. s[k] = Nl
      BY <3>2, <3>3, <3>4
    <3>6. rest = Drop(s, k)
      <4>1. p + 1 \in Nat /\ N + 1 \in Nat /\ p + 1 + (N + 1) <= Len(s)
        BY <1>1, <1>2, <3>4
      <4> QED BY <4>1, DropDrop DEF tail
    <3> HIDE DEF k
    <3>7. ASSUME NEW b, NEW e, IsFrameFrom(s, b, e), b <= k
          PROVE  b <= iEnd
      <4>1. /\ b \in 1 .. Len(s) /\ e \in 1 .. Len(s) /\ s[b] = Gt
            /\ b + N + 5 <= e /\ \A i \in b .. e - 1 : s[i] # Nl
        BY <3>7, FrameInBuffer
      <4>2. ~(k \in b .. e - 1)
        BY <3>5, <4>1
      <4>3. e <= k
        BY <1>1, <3>4, <3>7, <4>1, <4>2
      <4>4. b <= p
        BY <1>1, <1>2, <4>1, <4>3 DEF k
      <4> HIDE DEF p, iEnd
      <4> QED BY <1>1, <1>8, <4>1, <4>4
    <3> QED BY <3>1, <3>4, <3>6, <3>7
  <2> QED BY <2>2, <2>3
<1>9. p > iEnd \/ p <= iEnd
  BY <1>1
<1> QED BY <1>6, <1>7, <1>8, <1>9

(***************************************************************************)
(* A whole frame that begins before the first '\n' is the front of the     *)
(* synchronised buffer, ends at that '\n', and is the message handed over. *)
(***************************************************************************)
LEMMA FrontFrameIsHandedOver ==
  ASSUME ChecksumsAreDigits, NEW s \in Seq(0 .. 255),
         find_first(s, Nl) < Len(s), s[1] = Gt,
         \A i \in 2 .. find_first(s, Nl) : s[i] # Gt,
         NEW b, NEW e, IsFrameFrom(s, b, e), b <= find_first(s, Nl)
  PROVE  /\ b = 1 /\ Frame(get_message(s, FALSE).message) = SubSeq(s, b, e)
         /\ get_message(s, FALSE).err = "none"
<1> DEFINE iEnd == find_first(s, Nl)
           p == find_first(s, Dot)
           r == get_message(s, FALSE)
           N == NCHARCHECKSUM
           tail == Drop(s, p + 1)
           rest == Drop(tail, N + 1)
           data == Take(Drop(s, 4), p - 4)
           m == Message(s[2], s[3], s[4], data)
           f == SubSeq(s, 1, e)
<1>1. /\ Len(s) \in Nat /\ iEnd \in 0 .. Len(s) - 1 /\ p \in Nat
      /\ s[iEnd + 1] = Nl /\ \A i \in 1 .. iEnd : s[i] # Nl
      /\ p <= iEnd /\ p >= 4 /\ p < MAXMESSAGELEN - N - 1
           => r = IF ~frame_ends(tail) THEN Throws("INVALID_FRAME", tail)
                  ELSE IF Take(tail, N) # Crc(Take(s, p + 1)) THEN Nothing(rest)
                  ELSE [rest |-> rest, err |-> "none", message |-> m]
  <2>1. GetCases(s)
    BY Getting
  <2> QED BY <2>1 DEF GetCases
<1>2. /\ b \in 1 .. Len(s) /\ e \in 1 .. Len(s)
      /\ b + N + 5 <= e /\ e < b + MAXMESSAGELEN
      /\ s[b] = Gt /\ s[e] = Nl /\ s[e - N - 1] = Dot
      /\ \A i \in b .. e - 1 : s[i] # Nl
      /\ \A i \in b .. e - N - 2 : s[i] # Dot
  BY FrameInBuffer
<1>3. N \in Nat /\ N > 0 /\ MAXMESSAGELEN \in Nat
  BY Sizes
<1>4. b = 1 /\ e = iEnd + 1
  <2>1. ~(b \in 2 .. iEnd)
    BY <1>2
  <2>2. ~(e \in 1 .. iEnd)
    BY <1>1, <1>2
  <2> HIDE DEF iEnd
  <2>3. b = 1
    BY <1>1, <1>2, <2>1 DEF iEnd
  <2>4. ~(iEnd + 1 \in b .. e - 1)
    BY <1>1, <1>2
  <2> QED BY <1>1, <1>2, <2>2, <2>3, <2>4
<1>5. p = e - N - 2
  <2> DEFINE k == e - N - 2
  <2>1. k \in 0 .. Len(s) - 1 /\ k + 1 = e - N - 1
    <3>1. e \in Nat /\ e <= Len(s) /\ 1 + N + 5 <= e /\ N \in Nat /\ Len(s) \in Nat
      BY <1>1, <1>2, <1>3, <1>4
    <3> HIDE DEF N
    <3> QED BY <3>1
  <2>2. s[k + 1] = Dot /\ \A i \in 1 .. k : s[i] # Dot
    BY <1>2, <1>4, <2>1
  <2> HIDE DEF k
  <2>3. find_first(s, Dot) = k
    BY <2>1, <2>2, FirstIs
  <2> QED BY <2>3 DEF k
<1> HIDE DEF iEnd, p
<1>6. /\ p <= iEnd /\ p >= 4 /\ p < MAXMESSAGELEN - N - 1
      /\ p + 1 \in 0 .. Len(s) /\ p + 1 + (N + 1) = e /\ e <= Len(s)
  BY <1>1, <1>2, <1>3, <1>4, <1>5
<1>7. /\ tail \in Seq(0 .. 255) /\ Len(tail) = Len(s) - (p + 1)
      /\ \A i \in 1 .. Len(s) - (p + 1) : tail[i] = s[p + 1 + i]
  <2>1. IsDropped(tail, 0 .. 255, s, p + 1)
    BY <1>6, DropIs
  <2> QED BY <2>1 DEF IsDropped
<1> HIDE DEF tail
<1>8. frame_ends(tail)
  <2>1. N + 1 \in 1 .. Len(s) - (p + 1) /\ N + 1 <= Len(tail)
    BY <1>1, <1>3, <1>6, <1>7
  <2> QED BY <1>2, <1>6, <1>7, <2>1 DEF frame_ends
(* The characters of the frame. *)
<1>9. f \in Seq(0 .. 255) /\ Len(f) = e /\ \A i \in 1 .. e : f[i] = s[i]
  <2>1. e \in 0 .. Len(s)
    BY <1>1, <1>2
  <2> QED BY <2>1, Taking DEF Take
<1>10. IsFrame(f)
  BY <1>4 DEF IsFrameFrom
<1> HIDE DEF f
<1>11. /\ Frame(Message(f[2], f[3], f[4], SubSeq(f, 5, Len(f) - N - 2))) = f
       /\ \A i \in 1 .. N : f[Len(f) - N - 1 + i] = Crc(Take(f, Len(f) - N - 1))[i]
  BY <1>9, <1>10, FrameParts
(* The checksum is the right one. *)
<1>12. Take(f, Len(f) - N - 1) = Take(s, p + 1) /\ Len(f) - N - 1 = p + 1
  <2>1. Len(f) - N - 1 = p + 1 /\ p + 1 \in 0 .. Len(f)
    BY <1>1, <1>3, <1>6, <1>9
  <2> DEFINE u == Take(f, p + 1)
             v == Take(s, p + 1)
  <2>2. u \in Seq(0 .. 255) /\ Len(u) = p + 1 /\ \A i \in 1 .. p + 1 : u[i] = f[i]
    BY <1>9, <2>1, Taking
  <2>3. v \in Seq(0 .. 255) /\ Len(v) = p + 1 /\ \A i \in 1 .. p + 1 : v[i] = s[i]
    BY <1>6, Taking
  <2> HIDE DEF u, v
  <2>4. ASSUME NEW i \in 1 .. Len(u) PROVE u[i] = v[i]
    <3>1. i \in 1 .. p + 1 /\ i \in 1 .. e
      BY <1>1, <1>3, <1>6, <2>2
    <3> QED BY <1>9, <2>2, <2>3, <3>1
  <2>5. u = v
    BY <2>2, <2>3, <2>4, SeqEqual
  <2> QED BY <2>1, <2>5 DEF u, v
<1>13. Take(tail, N) = Crc(Take(s, p + 1))
  <2> DEFINE u == Take(tail, N)
             v == Crc(Take(s, p + 1))
  <2>1. N \in 0 .. Len(tail)
    BY <1>1, <1>3, <1>6, <1>7
  <2>2. u \in Seq(0 .. 255) /\ Len(u) = N /\ \A i \in 1 .. N : u[i] = tail[i]
    <3>1. IsTaken(u, 0 .. 255, tail, N)
      BY <1>7, <2>1, TakeIs
    <3> QED BY <3>1 DEF IsTaken
  <2>3. v \in Seq(0 .. 255) /\ Len(v) = N
    <3>1. Take(s, p + 1) \in Seq(0 .. 255)
      BY <1>6, Taking
    <3>2. v \in Seq((0 .. 255) \ Delimiters) /\ Len(v) = N
      BY <3>1 DEF ChecksumsAreDigits
    <3>3. \A i \in 1 .. N : v[i] \in (0 .. 255) \ Delimiters
      BY <3>2, ElementOfSeq
    <3> QED BY <3>2, <3>3
  <2> HIDE DEF u, v
  <2>4. ASSUME NEW i \in 1 .. Len(u) PROVE u[i] = v[i]
    <3>1. /\ i \in 1 .. N /\ i \in 1 .. Len(s) - (p + 1) /\ p + 1 + i \in 1 .. e
      BY <1>1, <1>3, <1>6, <2>2
    <3>2. u[i] = s[p + 1 + i]
      BY <1>7, <2>2, <3>1
    <3>3. v[i] = f[p + 1 + i]
      BY <1>11, <1>12, <3>1 DEF v
    <3> QED BY <1>9, <3>1, <3>2, <3>3
  <2>5. u = v
    BY <2>2, <2>3, <2>4, SeqEqual
  <2> QED BY <2>5 DEF u, v
(* So are the fields. *)
<1>14. SubSeq(f, 5, Len(f) - N - 2) = data
  <2> DEFINE d == SubSeq(f, 5, p)
             w == Drop(s, 4)
  <2>1. 4 \in 0 .. Len(s) /\ Len(f) - N - 2 = p /\ 5 \in Int /\ p \in Int
    <3>1. /\ Len(s) \in Nat /\ N \in Nat /\ p \in Nat /\ p >= 4 /\ Len(f) = e
          /\ p + 1 + (N + 1) = e /\ e <= Len(s)
      BY <1>1, <1>3, <1>6, <1>9
    <3> HIDE DEF N, d, w
    <3> QED BY <3>1
  <2>2. /\ w \in Seq(0 .. 255) /\ Len(w) = Len(s) - 4
        /\ \A i \in 1 .. Len(s) - 4 : w[i] = s[4 + i]
    <3>1. IsDropped(w, 0 .. 255, s, 4)
      BY <2>1, DropIs
    <3> QED BY <3>1 DEF IsDropped
  <2> HIDE DEF w
  <2>3. data \in Seq(0 .. 255) /\ Len(data) = p - 4 /\ \A i \in 1 .. p - 4 : data[i] = w[i]
    <3> DEFINE k == p - 4
    <3> HIDE DEF k
    <3>1. k \in 0 .. Len(w)
      <4>1. p \in Nat /\ p >= 4 /\ p + 1 <= Len(s) /\ Len(w) = Len(s) - 4 /\ Len(s) \in Nat
        BY <1>1, <1>6, <2>2
      <4> QED BY <4>1 DEF k
    <3>2. /\ Take(w, k) \in Seq(0 .. 255) /\ Len(Take(w, k)) = k
          /\ \A i \in 1 .. k : Take(w, k)[i] = w[i]
      <4>1. IsTaken(Take(w, k), 0 .. 255, w, k)
        BY <2>2, <3>1, TakeIs
      <4> QED BY <4>1 DEF IsTaken
    <3> QED BY <3>2 DEF k, w
  <2>4. \A i \in 5 .. p : f[i] \in 0 .. 255
    <3>1. \A i \in 1 .. Len(f) : f[i] \in 0 .. 255
      BY <1>9, ElementOfSeq
    <3>2. \A i \in 5 .. p : i \in 1 .. Len(f)
      BY <1>1, <1>3, <1>6, <1>9
    <3> HIDE DEF d
    <3> QED BY <3>1, <3>2
  <2>5. /\ d \in Seq(0 .. 255) /\ Len(d) = IF 5 <= p THEN p - 5 + 1 ELSE 0
        /\ \A i \in 1 .. p - 5 + 1 : d[i] = f[5 + i - 1]
    <3>1. HasSpan(0 .. 255, f, 5, p)
      BY <2>1, <2>4 DEF HasSpan
    <3>2. IsSpan(d, 0 .. 255, f, 5, p)
      BY <3>1, SpanIs
    <3> QED BY <3>2 DEF IsSpan
  <2> HIDE DEF d, data
  <2>6. Len(d) = p - 4
    BY <1>1, <1>6, <2>5
  <2>7. ASSUME NEW i \in 1 .. Len(d) PROVE d[i] = data[i]
    <3>1. /\ i \in 1 .. p - 5 + 1 /\ i \in 1 .. p - 4 /\ i \in 1 .. Len(s) - 4
          /\ 5 + i - 1 = 4 + i /\ 4 + i \in 1 .. e
      BY <1>1, <1>3, <1>6, <2>6
    <3>2. d[i] = f[4 + i]
      BY <2>5, <3>1
    <3>3. f[4 + i] = s[4 + i]
      BY <1>9, <3>1
    <3>4. data[i] = s[4 + i]
      BY <2>2, <2>3, <3>1
    <3> QED BY <3>2, <3>3, <3>4
  <2>8. d \in Seq(0 .. 255) /\ data \in Seq(0 .. 255) /\ Len(d) = Len(data)
    BY <2>3, <2>5, <2>6
  <2>9. d = data
    BY <2>7, <2>8, SeqEqual
  <2> QED BY <2>1, <2>9 DEF d
<1> HIDE DEF data
<1>15. f[2] = s[2] /\ f[3] = s[3] /\ f[4] = s[4]
  <2>1. 2 \in 1 .. e /\ 3 \in 1 .. e /\ 4 \in 1 .. e
    BY <1>1, <1>3, <1>6
  <2> QED BY <1>9, <2>1
<1>16. Frame(m) = f
  BY <1>11, <1>14, <1>15
<1>17. r.message = m /\ r.err = "none"
  <2>1. r = [rest |-> rest, err |-> "none", message |-> m]
    BY <1>1, <1>6, <1>8, <1>13
  <2> HIDE DEF r, m, rest
  <2> QED BY <2>1
<1> QED BY <1>4, <1>16, <1>17 DEF f, r

(***************************************************************************)
(* A call removes no whole frame but the first, and that one only by       *)
(* handing it over.                                                        *)
(***************************************************************************)
LEMMA FramesAreKept ==
  ASSUME ChecksumsAreDigits, NEW buf \in Seq(0 .. 255),
         NEW r \in get_message_from_input_buffer(buf, FALSE),
         NEW f \in FramesIn(buf) \ FramesIn(r.rest)
  PROVE  /\ Frame(r.message) = FrameAt(buf, f)
         /\ \A g \in FramesIn(buf) : g[1] <= f[1]
<1> DEFINE s == synchronised(buf)
           iEnd == find_first(s, Nl)
<1>1. Len(buf) \in Nat
  BY LenProperties
<1>2. s \in Seq(0 .. 255) /\ Len(s) \in Nat
  BY SynchronisedType
<1>3. r = get_message(s, FALSE)
  BY TheResult
<1>4. PICK b, e : IsFrameFrom(buf, b, e) /\ f = <<Len(buf) - b, Len(buf) - e>>
  BY FramesAre
<1>5. b \in 1 .. Len(buf) /\ e \in 1 .. Len(buf) /\ b <= e
  BY <1>4, FrameSpan
<1>6. PICK n \in Nat : n < b /\ s = Drop(buf, n)
  BY <1>1, <1>4, SynchronisedKeeps
<1> HIDE DEF s, iEnd
(* The frame is in the synchronised buffer. *)
<1>7. buf \in Seq(0 .. 255) /\ IsFrameFrom(buf, b, e) /\ b <= e /\ n \in Nat /\ n < b
  BY <1>1, <1>4, <1>5, <1>6
<1>8. IsSamePart(Drop(buf, n), b - n, e - n, buf, b, e)
  BY <1>7, FrameBehind
<1>9. /\ IsFrameFrom(Drop(buf, n), b - n, e - n)
       /\ Len(Drop(buf, n)) = Len(buf) - n
       /\ Len(Drop(buf, n)) - (b - n) = Len(buf) - b
       /\ Len(Drop(buf, n)) - (e - n) = Len(buf) - e
  BY <1>7, FrameBehind
<1> DEFINE x == b - n
           y == e - n
<1>10. /\ IsFrameFrom(s, x, y) /\ SubSeq(s, x, y) = SubSeq(buf, b, e)
      /\ Len(s) = Len(buf) - n
      /\ Len(s) - x = Len(buf) - b /\ Len(s) - y = Len(buf) - e
      /\ n + x = b /\ x \in Nat
  <2>1. n + x = b /\ x \in Nat
    BY <1>5, <1>6
  <2> QED BY <1>6, <1>8, <1>9, <2>1 DEF IsSamePart
<1> HIDE DEF x, y
<1>11. x \in 1 .. Len(s) /\ y \in 1 .. Len(s) /\ x <= y /\ s[y] = Nl
  <2>1. IsFrameFrom(s, x, y)
    BY <1>10
  <2> QED BY <1>2, <2>1, FrameSpan
<1>12. iEnd < Len(s)
  <2>1. /\ find_first(s, Nl) \in 0 .. Len(s)
        /\ \A i \in 1 .. find_first(s, Nl) : s[i] # Nl
    BY <1>2, FirstFound
  <2> QED BY <1>2, <1>11, <2>1 DEF iEnd
<1>13. s[1] = Gt /\ \A i \in 2 .. iEnd : s[i] # Gt
  <2>1. Gt # Nl
    BY DEF Gt, Nl
  <2>2. find_first(synchronised(buf), Nl) < Len(synchronised(buf))
    BY <1>12 DEF s, iEnd
  <2>3. \E k \in 0 .. Len(buf) - 1 :
          /\ synchronised(buf) = Drop(buf, k)
          /\ synchronised(buf)[1] = Gt
          /\ \A i \in 2 .. find_first(synchronised(buf), Nl) : synchronised(buf)[i] # Gt
    BY <1>1, <2>1, <2>2, Synchronising DEF synchronised
  <2> QED BY <2>3 DEF s, iEnd
(* The call takes bytes of it, so it is the front frame. *)
<1>14. PICK k \in 0 .. Len(s) :
         r.rest = Drop(s, k)
         /\ \A b1, e1 : IsFrameFrom(s, b1, e1) /\ b1 <= k => b1 <= iEnd
  BY <1>2, <1>3, <1>12, <1>13, TakesFromTheFront DEF iEnd
<1>15. x <= k
  <2> SUFFICES ASSUME k < x PROVE FALSE
    BY <1>2, <1>10
  <2> DEFINE t == Drop(s, k)
  <2>1. k \in Nat /\ k < x
    OBVIOUS
  <2>2. /\ IsFrameFrom(t, x - k, y - k)
        /\ Len(t) - (x - k) = Len(s) - x /\ Len(t) - (y - k) = Len(s) - y
    <3>1. s \in Seq(0 .. 255) /\ IsFrameFrom(s, x, y) /\ x <= y /\ k \in Nat /\ k < x
      BY <1>2, <1>10, <1>11, <2>1
    <3>2. /\ IsFrameFrom(Drop(s, k), x - k, y - k)
          /\ Len(Drop(s, k)) - (x - k) = Len(s) - x
          /\ Len(Drop(s, k)) - (y - k) = Len(s) - y
      BY <3>1, FrameBehind
    <3> QED BY <3>2
  <2>3. t = r.rest
    BY <1>3, <1>14
  <2> HIDE DEF t
  <2>4. f = <<Len(t) - (x - k), Len(t) - (y - k)>>
    BY <1>4, <1>10, <2>2
  <2>5. f \in FramesIn(t)
    BY <2>2, <2>4, FramesAre
  <2> QED BY <2>3, <2>5
<1>16. x = 1 /\ Frame(r.message) = SubSeq(s, x, y)
  <2>1. x <= iEnd
    BY <1>10, <1>14, <1>15
  <2> QED BY <1>2, <1>3, <1>10, <1>12, <1>13, <2>1, FrontFrameIsHandedOver DEF iEnd
<1>17. Frame(r.message) = FrameAt(buf, f)
  <2>1. f[1] = Len(buf) - b /\ f[2] = Len(buf) - e
    BY <1>4
  <2>2. Len(buf) - f[1] = b /\ Len(buf) - f[2] = e
    BY <1>1, <1>5, <2>1
  <2>3. FrameAt(buf, f) = SubSeq(buf, b, e)
    BY <2>2 DEF FrameAt
  <2> QED BY <1>3, <1>10, <1>16, <2>3
<1>18. ASSUME NEW g \in FramesIn(buf) PROVE g[1] <= f[1]
  <2>1. PICK c, d : IsFrameFrom(buf, c, d) /\ g = <<Len(buf) - c, Len(buf) - d>>
    BY <1>18, FramesAre
  <2>2. c \in 1 .. Len(buf)
    BY <2>1 DEF IsFrameFrom
  <2>3. PICK k2 \in Nat : k2 < c /\ synchronised(buf) = Drop(buf, k2)
    BY <1>1, <2>1, SynchronisedKeeps
  <2>4. Len(s) = Len(buf) - k2
    <3>1. k2 \in 0 .. Len(buf)
      BY <1>1, <2>2, <2>3
    <3>2. Len(Drop(buf, k2)) = Len(buf) - k2
      BY <1>1, <3>1, Dropping
    <3> QED BY <2>3, <3>2 DEF s
  <2>5. k2 = n
    BY <1>1, <1>10, <2>4
  <2>6. b <= c
    BY <1>5, <1>6, <1>10, <1>16, <2>2, <2>3, <2>5
  <2>7. g[1] = Len(buf) - c /\ f[1] = Len(buf) - b
    BY <1>4, <2>1
  <2> QED BY <1>1, <1>5, <2>2, <2>6, <2>7
<1> QED BY <1>17, <1>18

(***************************************************************************)
(* With the checksum in force, a call of get_message_from_input_buffer     *)
(* removes no whole frame but the first, and that one only by handing it   *)
(* over: whatever the line did, resynchronising never eats into a good     *)
(* frame.                                                                  *)
(***************************************************************************)
THEOREM InputKeepsGoodFrames ==
  ASSUME ChecksumsAreDigits
  PROVE  Spec => GoodFramesKept
<1> DEFINE P == GetMessage /\ ~ignoreCRCMismatch
                  => \A f \in FramesIn(in_buf) \ FramesIn(in_buf') :
                       /\ Frame(got'.message) = FrameAt(in_buf, f)
                       /\ \A g \in FramesIn(in_buf) : g[1] <= f[1]
<1>1. TypeOK /\ [Next]_vars => [P]_vars
  <2> SUFFICES ASSUME TypeOK, GetMessage, ~ignoreCRCMismatch,
                      NEW f \in FramesIn(in_buf) \ FramesIn(in_buf')
               PROVE  /\ Frame(got'.message) = FrameAt(in_buf, f)
                      /\ \A g \in FramesIn(in_buf) : g[1] <= f[1]
    OBVIOUS
  <2>1. in_buf \in Seq(0 .. 255) /\ ignoreCRCMismatch = FALSE
    BY DEF TypeOK
  <2>2. PICK r \in get_message_from_input_buffer(in_buf, FALSE) :
          in_buf' = r.rest /\ got' = [err |-> r.err, message |-> r.message]
    BY <2>1 DEF GetMessage
  <2>3. f \in FramesIn(in_buf) \ FramesIn(r.rest) /\ got'.message = r.message
    BY <2>2
  <2>4. /\ Frame(r.message) = FrameAt(in_buf, f)
        /\ \A g \in FramesIn(in_buf) : g[1] <= f[1]
    BY <2>1, <2>3, FramesAreKept
  <2> QED BY <2>3, <2>4
<1>2. Spec => []TypeOK
  BY InputTypeOK
<1> QED BY <1>1, <1>2, PTL DEF Spec, GoodFramesKept

(***************************************************************************)
(* A call that takes nothing of the buffer finds no '\n' in it, or refuses *)
(* what stands in front.                                                   *)
(***************************************************************************)
LEMMA Staying ==
  ASSUME NEW buf \in Seq(0 .. 255), NEW r \in get_message_from_input_buffer(buf, FALSE),
         Len(r.rest) = Len(buf)
  PROVE  r.rest = buf /\ (Where(buf, Nl) = {} \/ Refused(buf))
<1> DEFINE s == synchronised(buf)
           iEnd == find_first(s, Nl)
           p == find_first(s, Dot)
           err == checksum_error(Len(s), find_first(s, Gt), p)
           tail == Drop(s, p + 1)
           rest == Drop(tail, NCHARCHECKSUM + 1)
           c == [rest |-> rest, err |-> "none",
                 message |-> Message(s[2], s[3], s[4], Take(Drop(s, 4), p - 4))]
<1>1. s \in Seq(0 .. 255) /\ Len(s) \in Nat /\ Len(buf) \in Nat /\ IsRest(s, buf)
  BY SynchronisedType, SynchronisedRest, LenProperties
<1>2. r = get_message(s, FALSE)
  BY DEF get_message_from_input_buffer
<1>3. ASSUME Len(buf) <= Len(s) PROVE s = buf
  <2>1. PICK n \in 0 .. Len(buf) : s = Drop(buf, n)
    BY <1>1 DEF IsRest
  <2>2. Len(s) = Len(buf) - n
    BY <2>1, Dropping
  <2>3. n = 0
    BY <1>1, <1>3, <2>2
  <2> QED BY <1>1, <2>1, <2>3, SubSeqFull DEF Drop
<1>4. \A x, e : Throws(e, x).rest = x /\ Nothing(x).rest = x
  BY DEF Throws, Nothing
<1>5. iEnd \in 0 .. Len(s)
  BY <1>1, FirstFound
<1>6. CASE iEnd >= Len(s)
  <2>1. r = Nothing(s)
    BY <1>2, <1>6, Zenon DEF get_message
  <2>2. s = buf
    <3>1. Len(s) = Len(buf)
      BY <1>4, <2>1
    <3> QED BY <1>1, <1>3, <3>1
  <2>3. Where(s, Nl) = {}
    <3> SUFFICES ASSUME Where(s, Nl) # {} PROVE FALSE
      OBVIOUS
    <3>1. Where(s, Nl) \in SUBSET Nat
      BY <1>1, WhereType
    <3>2. Min(Where(s, Nl)) \in Where(s, Nl)
      BY <3>1, MinIsLeast
    <3>3. Min(Where(s, Nl)) \in 1 .. Len(s)
      BY <3>2 DEF Where
    <3>4. iEnd = Min(Where(s, Nl)) - 1
      BY DEF find_first
    <3> HIDE DEF s, iEnd
    <3> QED BY <1>1, <1>6, <3>3, <3>4
  <2> QED BY <1>4, <2>1, <2>2, <2>3
<1>7. CASE iEnd < Len(s)
  <2>1. s[1] = Gt
    <3>1. Gt # Nl
      BY DEF Gt, Nl
    <3>2. find_first(synchronised(buf), Nl) < Len(synchronised(buf))
      BY <1>7
    <3> QED BY <3>1, <3>2, Synchronising DEF synchronised
  <2> HIDE DEF s
  <2>2. /\ iEnd \in 0 .. Len(s) - 1 /\ p \in Nat
        /\ s[iEnd + 1] = Nl
        /\ p <= iEnd => s[p + 1] = Dot
        /\ p > iEnd => r = Throws("INVALID_FRAME_PERIOD", pop_bad_frame(s))
        /\ p <= iEnd /\ ~(p >= 4 /\ p < MAXMESSAGELEN - NCHARCHECKSUM - 1)
             => err # "none" /\ r = Throws(err, s)
        /\ p <= iEnd /\ p >= 4 /\ p < MAXMESSAGELEN - NCHARCHECKSUM - 1
             => r = IF ~frame_ends(tail) THEN Throws("INVALID_FRAME", tail)
                    ELSE IF Take(tail, NCHARCHECKSUM) # Crc(Take(s, p + 1)) THEN Nothing(rest)
                    ELSE c
    <3>1. GetCases(s)
      BY <1>1, <1>2, <1>7, <2>1, Getting
    <3> QED BY <1>1, <1>2, <1>7, <3>1 DEF GetCases
  <2>3. Where(s, Nl) # {} /\ Where(s, Nl) \in SUBSET Nat
    <3>1. iEnd + 1 \in 1 .. Len(s)
      BY <1>1, <2>2, LenProperties
    <3>2. iEnd + 1 \in Where(s, Nl)
      BY <2>2, <3>1 DEF Where
    <3>3. Where(s, Nl) \in SUBSET Nat
      BY <1>1, WhereType
    <3> HIDE DEF iEnd
    <3> QED BY <3>2, <3>3
  <2>4. Len(s) <= Len(buf)
    BY <1>1, RestType
  <2>5. ~(p > iEnd)
    <3> SUFFICES ASSUME p > iEnd PROVE FALSE
      OBVIOUS
    <3> DEFINE n == Min(Where(s, Nl))
    <3>1. n \in 1 .. Len(s)
      <4>1. n \in Where(s, Nl)
        BY <2>3, MinIsLeast
      <4> QED BY <4>1 DEF Where
    <3>2. r.rest = Drop(s, n)
      BY <1>4, <2>2, <2>3 DEF pop_bad_frame, remove_front_to
    <3> HIDE DEF n
    <3>3. Len(Drop(s, n)) = Len(s) - n
      <4>1. n \in 0 .. Len(s)
        BY <1>1, <3>1
      <4> QED BY <1>1, <4>1, Dropping
    <3> QED BY <1>1, <2>4, <3>1, <3>2, <3>3
  <2> HIDE DEF iEnd, p
  <2>6. p <= iEnd
    BY <2>2, <2>5
  <2>7. ~(p >= 4 /\ p < MAXMESSAGELEN - NCHARCHECKSUM - 1)
    <3> SUFFICES ASSUME p >= 4, p < MAXMESSAGELEN - NCHARCHECKSUM - 1 PROVE FALSE
      OBVIOUS
    <3>1. c.rest = rest
      OBVIOUS
    <3>2. p + 1 \in 0 .. Len(s)
      BY <1>1, <2>2, <2>6
    <3>3. tail \in Seq(0 .. 255) /\ Len(tail) = Len(s) - (p + 1)
      BY <1>1, <3>2, Dropping
    <3>4. Len(rest) <= Len(tail)
      <4> HIDE DEF tail
      <4>1. NCHARCHECKSUM + 1 \in Nat
        BY Sizes
      <4> QED BY <3>3, <4>1, DropType
    <3> HIDE DEF c, rest, tail
    <3>5. r.rest = tail \/ r.rest = rest
      BY <1>4, <2>2, <2>6, <3>1
    <3>6. Len(rest) \in Nat
      <4>1. rest \in Seq(0 .. 255)
        <5>1. NCHARCHECKSUM + 1 \in Nat
          BY Sizes
        <5> QED BY <3>3, <5>1, DropType DEF rest
      <4> QED BY <4>1, LenProperties
    <3> QED BY <1>1, <2>2, <2>4, <3>3, <3>4, <3>5, <3>6
  <2>8. err # "none" /\ r.rest = s
    BY <1>4, <2>2, <2>6, <2>7
  <2>9. s = buf
    BY <1>1, <1>3, <2>8
  <2>10. p < iEnd
    <3>1. Dot # Nl
      BY DEF Dot, Nl
    <3> QED BY <2>2, <2>6, <3>1
  <2>11. Refused(buf)
    BY <1>7, <2>8, <2>10 DEF Refused, s, iEnd, p
  <2> QED BY <2>8, <2>9, <2>11
<1> QED BY <1>1, <1>5, <1>6, <1>7
----------------------------------------------------------------------------
(* What a host hears.                                                      *)

(* A frame in what is left of a queue is one of the queue. *)
LEMMA FrameOfRest ==
  ASSUME NEW s \in Seq(0 .. 255), NEW k \in 0 .. Len(s), NEW x, NEW y,
         IsFrameFrom(Drop(s, k), x, y), x <= y
  PROVE  /\ IsFrameFrom(s, k + x, k + y)
         /\ IsSamePart(Drop(s, k), x, y, s, k + x, k + y)
         /\ Len(s) - (k + x) = Len(Drop(s, k)) - x
         /\ Len(s) - (k + y) = Len(Drop(s, k)) - y
<1> DEFINE r == Drop(s, k)
           b == k + x
           e == k + y
           p == SubSeq(s, b, e)
           q == SubSeq(r, x, y)
<1>1. r \in Seq(0 .. 255) /\ Len(r) = Len(s) - k /\ \A i \in 1 .. Len(s) - k : r[i] = s[k + i]
  BY Dropping
<1>2. /\ x \in 1 .. Len(r) /\ y \in 1 .. Len(r) /\ Len(s) \in Nat /\ k \in Nat
      /\ r[x] = Gt /\ r[y] = Nl /\ IsFrame(q)
  BY LenProperties DEF IsFrameFrom
<1> HIDE DEF r
<1>3. b \in 1 .. Len(s) /\ e \in b .. Len(s) /\ e \in 1 .. Len(s) /\ y \in x .. Len(r)
  BY <1>1, <1>2
<1>4. Len(s) - b = Len(r) - x /\ Len(s) - e = Len(r) - y /\ e - b = y - x
  BY <1>1, <1>2
<1>5. s[b] = Gt /\ s[e] = Nl
  BY <1>1, <1>2
<1> HIDE DEF b, e
<1>6. q \in Seq(0 .. 255) /\ Len(q) = y - x + 1 /\ \A i \in 1 .. y - x + 1 : q[i] = r[x + i - 1]
  <2>1. r \in Seq(0 .. 255) /\ x \in 1 .. Len(r) /\ y \in x .. Len(r)
    BY <1>1, <1>2, <1>3
  <2>2. IsPart(q, 0 .. 255, r, x, y)
    BY <2>1, PartIs
  <2> QED BY <2>2 DEF IsPart
<1>7. p \in Seq(0 .. 255) /\ Len(p) = e - b + 1 /\ \A i \in 1 .. e - b + 1 : p[i] = s[b + i - 1]
  <2>1. IsPart(p, 0 .. 255, s, b, e)
    BY <1>3, PartIs
  <2> QED BY <2>1 DEF IsPart
<1> HIDE DEF p, q
<1>8. Len(q) = Len(p)
  BY <1>2, <1>3, <1>4, <1>6, <1>7
<1>9. ASSUME NEW i \in 1 .. Len(q) PROVE q[i] = p[i]
  <2>1. i \in 1 .. y - x + 1 /\ i \in 1 .. e - b + 1
    BY <1>4, <1>6
  <2>2. x + i - 1 \in 1 .. Len(s) - k /\ k + (x + i - 1) = b + i - 1
    BY <1>1, <1>2, <2>1 DEF b
  <2> QED BY <1>1, <1>6, <1>7, <2>1, <2>2
<1>10. q = p
  BY <1>6, <1>7, <1>8, <1>9, SeqEqual
<1>11. IsFrameFrom(s, b, e)
  BY <1>2, <1>3, <1>5, <1>10 DEF IsFrameFrom, p
<1>12. IsSamePart(r, x, y, s, b, e)
  BY <1>10 DEF IsSamePart, p, q
<1> QED BY <1>4, <1>11, <1>12 DEF r, b, e

(* The places of a frame. *)
LEMMA FramePlaces ==
  ASSUME ChecksumsAreDigits, NEW s \in Seq(0 .. 255), NEW f \in FramesIn(s)
  PROVE  \E b \in 1 .. Len(s), e \in 1 .. Len(s) :
            /\ IsFrameFrom(s, b, e) /\ b + 6 <= e
            /\ f = <<Len(s) - b, Len(s) - e>>
            /\ FrameAt(s, f) = SubSeq(s, b, e)
<1>1. PICK b, e : IsFrameFrom(s, b, e) /\ f = <<Len(s) - b, Len(s) - e>>
  BY FramesAre
<1>2. /\ b \in 1 .. Len(s) /\ e \in 1 .. Len(s) /\ Len(s) \in Nat
      /\ b + NCHARCHECKSUM + 5 <= e
  BY <1>1, FrameInBuffer
<1>3. b + 6 <= e
  BY <1>2, Sizes
<1>4. f[1] = Len(s) - b /\ f[2] = Len(s) - e
  BY <1>1
<1>5. Len(s) - f[1] = b /\ Len(s) - f[2] = e
  BY <1>2, <1>4
<1>6. FrameAt(s, f) = SubSeq(s, b, e)
  BY <1>5 DEF FrameAt
<1> QED BY <1>1, <1>2, <1>3, <1>6

(* What is left of a queue has no other frames, and they are the same. *)
LEMMA FramesOfRest ==
  ASSUME ChecksumsAreDigits, NEW s \in Seq(0 .. 255), NEW r, IsRest(r, s),
         NEW f \in FramesIn(r)
  PROVE  f \in FramesIn(s) /\ FrameAt(r, f) = FrameAt(s, f) /\ f[1] < Len(r)
<1>1. PICK k \in 0 .. Len(s) : r = Drop(s, k)
  BY DEF IsRest
<1>2. r \in Seq(0 .. 255) /\ Len(r) \in Nat /\ Len(s) \in Nat
  BY RestType, LenProperties
<1>3. PICK x \in 1 .. Len(r), y \in 1 .. Len(r) :
        /\ IsFrameFrom(r, x, y) /\ x + 6 <= y
        /\ f = <<Len(r) - x, Len(r) - y>>
        /\ FrameAt(r, f) = SubSeq(r, x, y)
  BY <1>2, FramePlaces
<1>4. x <= y
  BY <1>2, <1>3
<1>5. /\ IsFrameFrom(s, k + x, k + y)
      /\ IsSamePart(r, x, y, s, k + x, k + y)
      /\ Len(s) - (k + x) = Len(r) - x /\ Len(s) - (k + y) = Len(r) - y
  <2>1. IsFrameFrom(Drop(s, k), x, y)
    BY <1>1, <1>3
  <2>2. /\ IsFrameFrom(s, k + x, k + y)
        /\ IsSamePart(Drop(s, k), x, y, s, k + x, k + y)
        /\ Len(s) - (k + x) = Len(Drop(s, k)) - x /\ Len(s) - (k + y) = Len(Drop(s, k)) - y
    BY <1>4, <2>1, FrameOfRest
  <2> QED BY <1>1, <2>2
<1>6. f \in FramesIn(s)
  <2>1. f = <<Len(s) - (k + x), Len(s) - (k + y)>>
    BY <1>3, <1>5
  <2>2. IsFrameFrom(s, k + x, k + y)
    BY <1>5
  <2> QED BY <2>1, <2>2, FrameIsIn
<1>7. f[1] = Len(r) - x /\ f[2] = Len(r) - y
  BY <1>3
<1>8. Len(s) - f[1] = k + x /\ Len(s) - f[2] = k + y
  <2>1. Len(s) - (Len(r) - x) = k + x /\ Len(s) - (Len(r) - y) = k + y
    <3>1. /\ Len(s) \in Int /\ Len(r) \in Int /\ k \in Int /\ x \in Int /\ y \in Int
          /\ Len(s) - (k + x) = Len(r) - x /\ Len(s) - (k + y) = Len(r) - y
      BY <1>2, <1>5
    <3>2. k + x \in Int /\ k + y \in Int
      BY <3>1
    <3>3. Len(s) - (Len(s) - (k + x)) = k + x /\ Len(s) - (Len(s) - (k + y)) = k + y
      BY <3>1, <3>2, FromTheBack
    <3> QED BY <3>1, <3>3, Zenon
  <2> QED BY <1>7, <2>1
<1>9. FrameAt(s, f) = FrameAt(r, f)
  BY <1>3, <1>5, <1>8 DEF FrameAt, IsSamePart
<1> QED BY <1>2, <1>6, <1>7, <1>9

(* Where a frame begins tells where it ends. *)
LEMMA FramesBeginApart ==
  ASSUME ChecksumsAreDigits, NEW s \in Seq(0 .. 255),
         NEW f \in FramesIn(s), NEW g \in FramesIn(s), f[1] = g[1]
  PROVE  f = g
<1>1. PICK b, e : IsFrameFrom(s, b, e) /\ f = <<Len(s) - b, Len(s) - e>>
  BY FramesAre
<1>2. PICK c, d : IsFrameFrom(s, c, d) /\ g = <<Len(s) - c, Len(s) - d>>
  BY FramesAre
<1>3. /\ b \in 1 .. Len(s) /\ e \in 1 .. Len(s) /\ Len(s) \in Nat
      /\ b + NCHARCHECKSUM + 5 <= e /\ s[e] = Nl /\ \A i \in b .. e - 1 : s[i] # Nl
  BY <1>1, FrameInBuffer
<1>4. /\ c \in 1 .. Len(s) /\ d \in 1 .. Len(s)
      /\ c + NCHARCHECKSUM + 5 <= d /\ s[d] = Nl /\ \A i \in c .. d - 1 : s[i] # Nl
  BY <1>2, FrameInBuffer
<1>5. b = c
  <2>1. f[1] = Len(s) - b /\ g[1] = Len(s) - c
    BY <1>1, <1>2
  <2>2. Len(s) - b = Len(s) - c
    BY <2>1
  <2> QED BY <1>3, <1>4, <2>2
<1>6. e = d
  <2>1. ~(e \in b .. d - 1) /\ ~(d \in b .. e - 1) /\ b <= e /\ b <= d
    BY <1>3, <1>4, <1>5, Sizes
  <2> QED BY <1>3, <1>4, <2>1
<1> QED BY <1>1, <1>2, <1>5, <1>6

(* The characters of the frame of a message. *)
LEMMA FrameShape ==
  ASSUME ChecksumsAreDigits, NEW m, IsMessage(m)
  PROVE  LET f == Frame(m)
             d == Len(m.data)
         IN  /\ f \in Seq(0 .. 255) /\ d \in Nat /\ Len(f) = d + NCHARCHECKSUM + 6
             /\ f[1] = Gt /\ f[2] = m.ascVersion /\ f[3] = m.appVersion /\ f[4] = m.command
             /\ \A i \in 1 .. d : f[4 + i] = m.data[i]
             /\ f[d + 5] = Dot /\ f[d + NCHARCHECKSUM + 6] = Nl
             /\ \A i \in d + 6 .. d + NCHARCHECKSUM + 5 : f[i] \notin Delimiters
<1> DEFINE head == <<Gt, m.ascVersion, m.appVersion, m.command>>
           data == m.data
           last == <<Dot>>
           b == head \o data \o last
           c == Crc(b)
           nl == <<Nl>>
           d == Len(data)
           f == b \o c \o nl
           N == NCHARCHECKSUM
<1>1. /\ head \in Seq(0 .. 255) /\ Len(head) = 4
      /\ head[1] = Gt /\ head[2] = m.ascVersion /\ head[3] = m.appVersion /\ head[4] = m.command
  BY DEF IsMessage, MessageRecords, Gt
<1>2. data \in Seq(0 .. 255) /\ d \in Nat
  BY LenProperties DEF IsMessage, MessageRecords
<1>3. last \in Seq(0 .. 255) /\ Len(last) = 1 /\ last[1] = Dot
  BY DEF Dot
<1>4. nl \in Seq(0 .. 255) /\ Len(nl) = 1 /\ nl[1] = Nl
  BY DEF Nl
<1>5. Frame(m) = f
  BY DEF Frame, Body
<1> HIDE DEF head, data, last, nl
<1>6. /\ b \in Seq(0 .. 255) /\ Len(b) = 4 + d + 1
      /\ \A i \in 1 .. 4 : b[i] = head[i]
      /\ \A i \in 1 .. d : b[4 + i] = data[i]
      /\ \A i \in 1 .. 1 : b[4 + d + i] = last[i]
  <2>1. IsRow(0 .. 255, head, data, last, b)
    BY <1>1, <1>2, <1>3, ThreeInARow
  <2> HIDE DEF b
  <2> QED BY <1>1, <1>2, <1>3, <2>1 DEF IsRow
<1> HIDE DEF b
<1>7. c \in Seq((0 .. 255) \ Delimiters) /\ Len(c) = N /\ c \in Seq(0 .. 255)
  <2>1. c \in Seq((0 .. 255) \ Delimiters) /\ Len(c) = N
    BY <1>6 DEF ChecksumsAreDigits
  <2> HIDE DEF c
  <2> QED BY <2>1
<1>8. N \in Nat /\ N > 0
  BY Sizes
<1> HIDE DEF c
<1>9. /\ f \in Seq(0 .. 255) /\ Len(f) = 4 + d + 1 + N + 1
      /\ \A i \in 1 .. 4 + d + 1 : f[i] = b[i]
      /\ \A i \in 1 .. N : f[4 + d + 1 + i] = c[i]
      /\ \A i \in 1 .. 1 : f[4 + d + 1 + N + i] = nl[i]
  <2>1. IsRow(0 .. 255, b, c, nl, f)
    BY <1>4, <1>6, <1>7, ThreeInARow
  <2> HIDE DEF f
  <2> QED BY <1>4, <1>6, <1>7, <2>1 DEF IsRow
<1> HIDE DEF f, d, N
<1>10. f \in Seq(0 .. 255) /\ d \in Nat /\ Len(f) = d + N + 6
  BY <1>2, <1>8, <1>9
<1>11. f[1] = Gt /\ f[2] = m.ascVersion /\ f[3] = m.appVersion /\ f[4] = m.command
  <2>1. \A i \in 1 .. 4 : f[i] = head[i]
    BY <1>2, <1>6, <1>9
  <2> QED BY <1>1, <2>1
<1>12. ASSUME NEW i \in 1 .. d PROVE f[4 + i] = data[i]
  <2>1. 4 + i \in 1 .. 4 + d + 1
    BY <1>2
  <2> QED BY <1>6, <1>9, <2>1
<1>13. f[d + 5] = Dot
  <2>1. 4 + d + 1 \in 1 .. 4 + d + 1 /\ 4 + d + 1 = d + 5 /\ 1 \in 1 .. 1
    BY <1>2
  <2>2. b[4 + d + 1] = last[1]
    BY <1>6, <2>1
  <2> QED BY <1>3, <1>9, <2>1, <2>2
<1>14. f[d + N + 6] = Nl
  <2>1. 4 + d + 1 + N + 1 = d + N + 6 /\ 1 \in 1 .. 1
    BY <1>2, <1>8
  <2>2. f[4 + d + 1 + N + 1] = nl[1]
    BY <1>9, <2>1
  <2> QED BY <1>4, <2>1, <2>2
<1>15. ASSUME NEW i \in d + 6 .. d + N + 5 PROVE f[i] \notin Delimiters
  <2> DEFINE j == i - (d + 5)
  <2>1. j \in 1 .. N /\ 4 + d + 1 + j = i
    BY <1>2, <1>8
  <2> HIDE DEF j
  <2>2. f[i] = c[j]
    BY <1>9, <2>1
  <2>3. c[j] \in (0 .. 255) \ Delimiters
    BY <1>7, <2>1, ElementOfSeq
  <2> QED BY <2>2, <2>3
<1> QED BY <1>5, <1>10, <1>11, <1>12, <1>13, <1>14, <1>15 DEF f, d, data, N
(* Characters are bytes. *)
LEMMA TextIsBytes ==
  ASSUME NEW s \in Seq(1 .. 255)
  PROVE  s \in Seq(0 .. 255) /\ Len(s) \in Nat /\ \A i \in 1 .. Len(s) : s[i] \in 1 .. 255
<1>1. Len(s) \in Nat /\ \A i \in 1 .. Len(s) : s[i] \in 1 .. 255
  BY LenProperties, ElementOfSeq
<1>2. s \in Seq(0 .. 255)
  OBVIOUS
<1> QED BY <1>1, <1>2

(***************************************************************************)
(* A call hands over the frame in front and takes no other; or it hands    *)
(* over nothing, and all frames stay.                                      *)
(***************************************************************************)
LEMMA OneFrameIsTaken ==
  ASSUME ChecksumsAreDigits, NEW s \in Seq(1 .. 255),
         NEW r \in get_message_from_input_buffer(s, FALSE)
  PROVE  /\ IsRest(r.rest, s) /\ IsMessage(r.message)
         /\ r.message = NoMessage => FramesIn(r.rest) = FramesIn(s)
         /\ r.message # NoMessage
              => \E f \in FramesIn(s) :
                    /\ FrameAt(s, f) = Frame(r.message)
                    /\ FramesIn(r.rest) = FramesIn(s) \ {f}
                    /\ \A g \in FramesIn(r.rest) : g[1] < f[1]
<1>1. s \in Seq(0 .. 255) /\ Len(s) \in Nat /\ \A i \in 1 .. Len(s) : s[i] \in 1 .. 255
  BY TextIsBytes
<1>2. IsRest(r.rest, s) /\ IsMessage(r.message)
  BY <1>1, GetMessageType DEF IsResult
<1>3. \A g \in FramesIn(r.rest) : g \in FramesIn(s) /\ g[1] < Len(r.rest)
  BY <1>1, <1>2, FramesOfRest
<1>4. ASSUME NEW f \in FramesIn(s) \ FramesIn(r.rest)
      PROVE  /\ Frame(r.message) = FrameAt(s, f)
             /\ \A g \in FramesIn(s) : g[1] <= f[1]
  BY <1>1, <1>4, FramesAreKept
<1>5. ASSUME NEW f \in FramesIn(s) PROVE f[1] \in Int /\ FrameAt(s, f)[2] \in 1 .. 255
  <2>1. PICK b \in 1 .. Len(s), e \in 1 .. Len(s) :
          /\ IsFrameFrom(s, b, e) /\ b + 6 <= e
          /\ f = <<Len(s) - b, Len(s) - e>>
          /\ FrameAt(s, f) = SubSeq(s, b, e)
    BY <1>1, <1>5, FramePlaces
  <2>2. f[1] \in Int
    BY <1>1, <2>1
  <2>3. e \in b .. Len(s) /\ 2 \in 1 .. e - b + 1
    BY <1>1, <2>1
  <2>4. SubSeq(s, b, e) \in Seq(1 .. 255) /\ Len(SubSeq(s, b, e)) = e - b + 1
    <3>1. IsPart(SubSeq(s, b, e), 1 .. 255, s, b, e)
      BY <2>1, <2>3, PartIs
    <3> QED BY <3>1 DEF IsPart
  <2>5. SubSeq(s, b, e)[2] \in 1 .. 255
    BY <2>3, <2>4, ElementOfSeq
  <2> QED BY <2>1, <2>2, <2>5
<1>6. ASSUME r.message = NoMessage PROVE FramesIn(r.rest) = FramesIn(s)
  <2> SUFFICES ASSUME NEW f \in FramesIn(s), f \notin FramesIn(r.rest) PROVE FALSE
    BY <1>3
  <2>1. IsMessage(NoMessage) /\ NoMessage.ascVersion = 0
    BY <1>2, <1>6 DEF NoMessage, Message
  <2>2. Frame(NoMessage)[2] = 0
    BY <2>1, FrameShape
  <2>3. FrameAt(s, f) = Frame(NoMessage)
    BY <1>4, <1>6
  <2>4. FrameAt(s, f)[2] \in 1 .. 255
    BY <1>5
  <2>5. FrameAt(s, f)[2] = 0
    BY <2>2, <2>3, Zenon
  <2> QED BY <2>4, <2>5
<1>7. ASSUME r.message # NoMessage
      PROVE  \E f \in FramesIn(s) :
                /\ FrameAt(s, f) = Frame(r.message)
                /\ FramesIn(r.rest) = FramesIn(s) \ {f}
                /\ \A g \in FramesIn(r.rest) : g[1] < f[1]
  <2> DEFINE frame == Frame(r.message)
             L == Len(frame)
             R == Len(r.rest)
  <2>1. PICK n \in 0 .. Len(s) - 1 :
          /\ IsFrame(frame)
          /\ Drop(s, n) = frame \o r.rest
          /\ L \in Nat /\ R \in Nat
          /\ Len(s) - n = L + R
    BY <1>1, <1>7, MessageIsAFrame
  <2>2. frame \in Seq(0 .. 255) /\ L > 6 /\ frame[1] = Gt /\ frame[L] = Nl
    <3>1. /\ frame \in Seq(0 .. 255) /\ Len(r.message.data) \in Nat
          /\ L = Len(r.message.data) + NCHARCHECKSUM + 6
          /\ frame[1] = Gt /\ frame[Len(r.message.data) + NCHARCHECKSUM + 6] = Nl
      BY <1>2, FrameShape
    <3> HIDE DEF frame, L
    <3> QED BY <3>1, Sizes
  <2>3. r.rest \in Seq(0 .. 255)
    BY <1>1, <1>2, RestType
  <2> HIDE DEF frame
  <2>4. ASSUME NEW i \in 1 .. L PROVE s[n + i] = frame[i]
    <3> DEFINE t == Drop(s, n)
               u == frame \o r.rest
    <3>1. /\ Len(t) = Len(s) - n /\ \A j \in 1 .. Len(s) - n : t[j] = s[n + j]
      <4>1. n \in 0 .. Len(s)
        BY <1>1
      <4> QED BY <1>1, <4>1, Dropping
    <3>2. \A j \in 1 .. L + R : u[j] = IF j <= L THEN frame[j] ELSE r.rest[j - L]
      BY <2>2, <2>3, ConcatProperties
    <3>3. t = u
      BY <2>1
    <3> HIDE DEF t, u, L, R
    <3>4. i \in 1 .. Len(s) - n /\ i \in 1 .. L + R /\ i <= L
      BY <1>1, <2>1
    <3> QED BY <3>1, <3>2, <3>3, <3>4
  <2> DEFINE b == n + 1
             e == n + L
             f == <<Len(s) - b, Len(s) - e>>
             p == SubSeq(s, b, e)
  <2>5. /\ b \in 1 .. Len(s) /\ e \in b .. Len(s) /\ e \in 1 .. Len(s) /\ e - b + 1 = L
        /\ Len(s) - b >= R
    <3> HIDE DEF L, R
    <3> QED BY <1>1, <2>1, <2>2
  <2>6. s[b] = Gt /\ s[e] = Nl
    <3>1. 1 \in 1 .. L /\ L \in 1 .. L
      BY <2>1, <2>2
    <3> QED BY <2>2, <2>4, <3>1
  <2>7. p = frame
    <3>1. p \in Seq(1 .. 255) /\ Len(p) = e - b + 1 /\ \A i \in 1 .. e - b + 1 : p[i] = s[b + i - 1]
      <4> HIDE DEF b, e
      <4>1. IsPart(p, 1 .. 255, s, b, e)
        BY <2>5, PartIs
      <4> QED BY <4>1 DEF IsPart
    <3>2. p \in Seq(0 .. 255) /\ Len(p) = L
      BY <2>5, <3>1, TextIsBytes
    <3> HIDE DEF p
    <3>3. ASSUME NEW i \in 1 .. L PROVE p[i] = frame[i]
      <4>1. i \in 1 .. e - b + 1 /\ b + i - 1 = n + i
        BY <2>1, <2>5
      <4> HIDE DEF b, e, L
      <4> QED BY <2>4, <3>1, <4>1
    <3> QED BY <2>2, <3>2, <3>3, SeqEqual
  <2>8. IsFrameFrom(s, b, e)
    BY <2>1, <2>5, <2>6, <2>7 DEF IsFrameFrom
  <2> HIDE DEF b, e
  <2>9. f \in FramesIn(s)
    BY <2>8, FramesAre
  <2>10. f[1] = Len(s) - b
    OBVIOUS
  <2> HIDE DEF f
  <2>11. f \notin FramesIn(r.rest)
    <3> SUFFICES ASSUME f \in FramesIn(r.rest) PROVE FALSE
      OBVIOUS
    <3>1. Len(s) - b < R
      BY <1>3, <2>10
    <3> QED BY <1>1, <2>1, <2>5, <3>1
  <2>12. FrameAt(s, f) = Frame(r.message) /\ \A g \in FramesIn(s) : g[1] <= f[1]
    BY <1>4, <2>9, <2>11
  <2>13. ASSUME NEW g \in FramesIn(s), g \notin FramesIn(r.rest) PROVE g = f
    <3>1. f[1] <= g[1] /\ g[1] <= f[1]
      BY <1>4, <2>9, <2>12, <2>13
    <3>2. f[1] = g[1]
      BY <1>5, <2>9, <3>1
    <3> QED BY <1>1, <2>9, <3>2, FramesBeginApart
  <2>14. FramesIn(r.rest) = FramesIn(s) \ {f}
    BY <1>3, <2>11, <2>13
  <2>15. ASSUME NEW g \in FramesIn(r.rest) PROVE g[1] < f[1]
    <3>1. g \in FramesIn(s) /\ g[1] < R
      BY <1>3
    <3>2. g[1] \in Int
      BY <1>5, <3>1
    <3> HIDE DEF R
    <3> QED BY <1>1, <2>1, <2>5, <2>10, <3>1, <3>2
  <2> QED BY <2>9, <2>12, <2>14, <2>15
<1> QED BY <1>2, <1>6, <1>7

(* Each '>' is followed by a '.', no further away than in any frame. *)
Followed(s) ==
  \A i \in 1 .. Len(s) :
     s[i] = Gt => \E j \in i + 1 .. Len(s) : j <= i + MAXDATALEN + 4 /\ s[j] = Dot

(* What is left of it has no other '>' and '.'. *)
LEMMA FollowedRest ==
  ASSUME NEW s \in Seq(0 .. 255), NEW r, IsRest(r, s)
  PROVE  /\ Followed(s) => Followed(r)
         /\ ~Malformed(s) => ~Malformed(r)
<1>1. PICK k \in 0 .. Len(s) : r = Drop(s, k)
  BY DEF IsRest
<1>2. Len(s) \in Nat /\ Len(r) = Len(s) - k /\ \A i \in 1 .. Len(s) - k : r[i] = s[k + i]
  <2>1. Len(s) \in Nat
    BY LenProperties
  <2>2. IsDropped(r, 0 .. 255, s, k)
    BY <1>1, <2>1, DropIs
  <2> QED BY <2>1, <2>2 DEF IsDropped
<1>3. ASSUME Followed(s), NEW i \in 1 .. Len(r), r[i] = Gt
      PROVE  \E j \in i + 1 .. Len(r) : j <= i + MAXDATALEN + 4 /\ r[j] = Dot
  <2>1. k + i \in 1 .. Len(s) /\ s[k + i] = Gt
    BY <1>2, <1>3
  <2>2. PICK j \in k + i + 1 .. Len(s) : j <= k + i + MAXDATALEN + 4 /\ s[j] = Dot
    BY <1>3, <2>1 DEF Followed
  <2> DEFINE l == j - k
  <2>3. l \in i + 1 .. Len(r) /\ l \in 1 .. Len(s) - k /\ k + l = j /\ l <= i + MAXDATALEN + 4
    BY <1>2, <2>2, Sizes
  <2> HIDE DEF l
  <2>4. r[l] = Dot
    BY <1>2, <2>2, <2>3
  <2> QED BY <2>3, <2>4
<1>4. ASSUME Malformed(r) PROVE Malformed(s)
  <2>1. PICK i \in Where(r, Gt), j \in Where(r, Dot) : j - i \in 1 .. 3
    BY <1>4 DEF Malformed
  <2>2. /\ i \in 1 .. Len(r) /\ r[i] = Gt /\ j \in 1 .. Len(r) /\ r[j] = Dot
    BY DEF Where
  <2>3. PICK x \in 1 .. Len(s) : x = k + i
    BY <1>2, <2>2
  <2>4. PICK y \in 1 .. Len(s) : y = k + j
    BY <1>2, <2>2
  <2>5. i \in 1 .. Len(s) - k /\ j \in 1 .. Len(s) - k
    BY <1>2, <2>2
  <2>6. s[x] = Gt /\ s[y] = Dot
    BY <1>2, <2>2, <2>3, <2>4, <2>5
  <2>7. x \in Where(s, Gt) /\ y \in Where(s, Dot)
    BY <2>6 DEF Where
  <2>8. y - x \in 1 .. 3
    BY <2>1, <2>3, <2>4, <2>5
  <2> QED BY <2>7, <2>8 DEF Malformed
<1> QED BY <1>3, <1>4 DEF Followed

(* compute_checksum refuses no frame of such bytes. *)
LEMMA NoneIsRefused ==
  ASSUME NEW buf \in Seq(0 .. 255), Followed(buf), ~Malformed(buf)
  PROVE  ~Refused(buf)
<1> DEFINE s == synchronised(buf)
           iEnd == find_first(s, Nl)
           p == find_first(s, Dot)
           err == checksum_error(Len(s), find_first(s, Gt), p)
<1> SUFFICES ASSUME p < iEnd, iEnd < Len(s), err # "none" PROVE FALSE
  BY DEF Refused
<1>1. s \in Seq(0 .. 255) /\ Followed(s) /\ ~Malformed(s)
  BY SynchronisedRest, SynchronisedType, FollowedRest
<1>2. s[1] = Gt
  <2>1. Gt # Nl
    BY DEF Gt, Nl
  <2>2. find_first(synchronised(buf), Nl) < Len(synchronised(buf))
    OBVIOUS
  <2> QED BY <2>1, <2>2, Synchronising DEF synchronised
<1> HIDE DEF s
<1>3. /\ Len(s) \in Nat /\ iEnd \in 0 .. Len(s) - 1 /\ p \in Nat
      /\ s[p + 1] = Dot /\ \A i \in 1 .. p : s[i] # Dot
  <2>1. /\ Len(s) \in Nat /\ iEnd \in 0 .. Len(s) - 1 /\ p \in Nat
        /\ p <= iEnd => s[p + 1] = Dot
    <3>1. GetCases(s)
      BY <1>1, <1>2, Getting
    <3> QED BY <3>1 DEF GetCases
  <2>2. \A i \in 1 .. p : s[i] # Dot
    BY <1>1, FirstFound
  <2> HIDE DEF p, iEnd
  <2> QED BY <2>1, <2>2
<1>4. p >= 4
  <2>1. p # 0
    BY <1>2, <1>3 DEF Gt, Dot
  <2>2. 1 \in Where(s, Gt) /\ p + 1 \in Where(s, Dot) /\ (p + 1) - 1 = p
    <3> HIDE DEF p, iEnd
    <3> QED BY <1>2, <1>3 DEF Where
  <2>3. ~(p \in 1 .. 3)
    BY <1>1, <2>2 DEF Malformed
  <2> HIDE DEF p
  <2> QED BY <1>3, <2>1, <2>3
<1>5. p < MAXMESSAGELEN - NCHARCHECKSUM - 1
  <2>1. 1 \in 1 .. Len(s)
    BY <1>3
  <2>2. PICK j \in 1 + 1 .. Len(s) : j <= 1 + MAXDATALEN + 4 /\ s[j] = Dot
    BY <1>1, <1>2, <2>1 DEF Followed
  <2> HIDE DEF p
  <2>3. ~(j \in 1 .. p)
    BY <1>3, <2>2
  <2> QED BY <1>3, <2>2, <2>3, Sizes
<1>6. err = "none"
  <2>1. find_first(s, Gt) = 0
    <3>1. 0 \in 0 .. Len(s) - 1 /\ s[0 + 1] = Gt /\ \A i \in 1 .. 0 : s[i] # Gt
      BY <1>2, <1>3
    <3> QED BY <1>1, <3>1, FirstIs
  <2>2. ~(0 >= Len(s)) /\ ~(p >= Len(s)) /\ ~(p >= MAXMESSAGELEN - NCHARCHECKSUM - 1)
        /\ ~(p - 0 < 4)
    <3> HIDE DEF p, iEnd
    <3> QED BY <1>3, <1>4, <1>5, Sizes
  <2> HIDE DEF p
  <2> QED BY <1>3, <2>1, <2>2 DEF checksum_error
<1> QED BY <1>6

(* A call takes some of such bytes, if a '\n' is among those it leaves. *)
LEMMA CallMoves ==
  ASSUME NEW s \in Seq(0 .. 255), Followed(s), ~Malformed(s),
         NEW r \in get_message_from_input_buffer(s, FALSE)
  PROVE  Where(r.rest, Nl) = {} \/ Len(r.rest) < Len(s)
<1>1. IsRest(r.rest, s)
  BY GetMessageType DEF IsResult
<1>2. Len(r.rest) \in Nat /\ Len(s) \in Nat /\ Len(r.rest) <= Len(s)
  BY <1>1, RestType, LenProperties
<1>3. Len(r.rest) = Len(s) => r.rest = s /\ Where(s, Nl) = {}
  BY Staying, NoneIsRefused
<1> QED BY <1>2, <1>3
(* A host that calls n times, from the first call on. *)
IsCalls(bytes, n, after) ==
  after = [k \in 0 .. n |-> IF k = 0 THEN [rest |-> bytes, got |-> <<>>] ELSE Call(after[k - 1])]

(* It can. *)
LEMMA CallsExist ==
  ASSUME NEW bytes, NEW n \in Nat
  PROVE  \E after : IsCalls(bytes, n, after)
<1> DEFINE first == [rest |-> bytes, got |-> <<>>]
           wrong == {m \in 0 .. n : ~\E after : IsCalls(bytes, m, after)}
<1>1. wrong = {}
  <2> SUFFICES ASSUME wrong # {} PROVE FALSE
    OBVIOUS
  <2> DEFINE m == Min(wrong)
  <2>1. m \in wrong /\ \A j \in wrong : m <= j
    <3>1. wrong \in SUBSET Nat
      OBVIOUS
    <3> HIDE DEF wrong
    <3> QED BY <3>1, MinIsLeast
  <2> HIDE DEF m
  <2>2. m \in 0 .. n /\ ~\E after : IsCalls(bytes, m, after)
    BY <2>1
  <2>3. m # 0
    <3> SUFFICES ASSUME m = 0 PROVE FALSE
      OBVIOUS
    <3> DEFINE a == [k \in 0 .. 0 |-> first]
    <3>1. a = [k \in 0 .. 0 |-> IF k = 0 THEN first ELSE Call(a[k - 1])]
      OBVIOUS
    <3>2. IsCalls(bytes, 0, a)
      BY <3>1, Zenon DEF IsCalls
    <3> QED BY <2>2, <3>2
  <2>4. PICK a : IsCalls(bytes, m - 1, a)
    <3>1. m - 1 \in 0 .. n /\ ~(m <= m - 1)
      BY <2>2, <2>3
    <3>2. m - 1 \notin wrong
      BY <2>1, <3>1
    <3> QED BY <3>1, <3>2
  <2> DEFINE b == [k \in 0 .. m |-> IF k < m THEN a[k] ELSE Call(a[m - 1])]
  <2>5. ASSUME NEW k \in 0 .. m
        PROVE  b[k] = IF k = 0 THEN first ELSE Call(b[k - 1])
    <3>1. \A j \in 0 .. m - 1 : a[j] = IF j = 0 THEN first ELSE Call(a[j - 1])
      BY <2>4 DEF IsCalls
    <3>2. CASE k = 0
      BY <2>2, <2>3, <3>1, <3>2
    <3>3. CASE k # 0
      <4>1. k - 1 \in 0 .. m /\ k - 1 < m
        BY <2>2, <3>3
      <4>2. b[k - 1] = a[k - 1]
        BY <4>1
      <4>3. CASE k < m
        BY <2>2, <3>1, <3>3, <4>2, <4>3
      <4>4. CASE k = m
        BY <2>2, <3>3, <4>2, <4>4
      <4> QED BY <2>2, <4>3, <4>4
    <3> QED BY <3>2, <3>3
  <2>6. b = [k \in 0 .. m |-> IF k = 0 THEN first ELSE Call(b[k - 1])]
    BY <2>5, Zenon
  <2>7. IsCalls(bytes, m, b)
    BY <2>6, Zenon DEF IsCalls
  <2> QED BY <2>2, <2>7
<1>2. n \in 0 .. n
  OBVIOUS
<1> QED BY <1>1, <1>2

(* What it got from the last call is what it heard. *)
LEMMA HeardIs ==
  ASSUME NEW bytes, Len(bytes) \in Nat
  PROVE  \E after : IsCalls(bytes, Len(bytes), after) /\ Heard(bytes) = after[Len(bytes)].got
<1> DEFINE after == CHOOSE a : IsCalls(bytes, Len(bytes), a)
<1>1. IsCalls(bytes, Len(bytes), after)
  BY CallsExist
<1>2. Heard(bytes) = after[Len(bytes)].got
  BY DEF Heard, IsCalls
<1> QED BY <1>1, <1>2

(***************************************************************************)
(* msgs are messages whose frames are, in this order, those of s that are   *)
(* no longer in the rest of it, and stand in front of it: fs says which.   *)
(***************************************************************************)
Enumerates(fs, msgs, s, rest) ==
  /\ fs \in [1 .. Len(msgs) -> FramesIn(s) \ FramesIn(rest)]
  /\ \A f \in FramesIn(s) \ FramesIn(rest) : \E i \in 1 .. Len(msgs) : fs[i] = f
  /\ \A i, j \in 1 .. Len(msgs) : i < j => fs[j][1] < fs[i][1]
  /\ \A i \in 1 .. Len(msgs), g \in FramesIn(rest) : g[1] < fs[i][1]
  /\ \A i \in 1 .. Len(msgs) : Frame(msgs[i]) = FrameAt(s, fs[i])

HasHeard(s, host) ==
  /\ IsRest(host.rest, s)
  /\ host.got \in Seq(MessageRecords)
  /\ \E fs : Enumerates(fs, host.got, s, host.rest)

(* One more call. *)
LEMMA HearsMore ==
  ASSUME ChecksumsAreDigits, NEW s \in Seq(1 .. 255), Followed(s), ~Malformed(s),
         NEW host, HasHeard(s, host)
  PROVE  /\ HasHeard(s, Call(host))
         /\ IsRest(Call(host).rest, host.rest)
         /\ Where(Call(host).rest, Nl) = {} \/ Len(Call(host).rest) < Len(host.rest)
<1> DEFINE result == CHOOSE r \in get_message_from_input_buffer(host.rest, FALSE) : TRUE
           msgs == host.got
           rest == host.rest
           left == result.rest
<1>1. result \in get_message_from_input_buffer(rest, FALSE)
  BY DEF get_message_from_input_buffer
<1>2. /\ Call(host).rest = left
      /\ Call(host).got = IF result.message = NoMessage THEN msgs ELSE Append(msgs, result.message)
  BY DEF Call
<1> HIDE DEF result
<1>3. s \in Seq(0 .. 255)
  BY TextIsBytes
<1>4. rest \in Seq(1 .. 255) /\ IsRest(rest, s)
  BY RestType DEF HasHeard
<1>5. rest \in Seq(0 .. 255) /\ Followed(rest) /\ ~Malformed(rest)
  BY <1>3, <1>4, TextIsBytes, FollowedRest
<1> HIDE DEF rest
<1>6. /\ IsRest(left, rest) /\ IsMessage(result.message)
      /\ result.message = NoMessage => FramesIn(left) = FramesIn(rest)
      /\ result.message # NoMessage
           => \E f \in FramesIn(rest) :
                 /\ FrameAt(rest, f) = Frame(result.message)
                 /\ FramesIn(left) = FramesIn(rest) \ {f}
                 /\ \A g \in FramesIn(left) : g[1] < f[1]
  BY <1>1, <1>4, OneFrameIsTaken
<1>7. Where(left, Nl) = {} \/ Len(left) < Len(rest)
  BY <1>1, <1>5, CallMoves
<1>8. IsRest(left, s)
  BY <1>3, <1>4, <1>6, RestOfRest
<1>9. msgs \in Seq(MessageRecords) /\ Len(msgs) \in Nat
  BY LenProperties DEF HasHeard
<1> HIDE DEF left
<1>10. PICK fs : Enumerates(fs, msgs, s, rest)
  BY DEF HasHeard, rest
<1> HIDE DEF msgs
<1>11. CASE result.message = NoMessage
  <2>1. FramesIn(left) = FramesIn(rest)
    BY <1>6, <1>11
  <2>2. Enumerates(fs, msgs, s, left)
    BY <1>10, <2>1 DEF Enumerates
  <2>3. Call(host).got = msgs
    BY <1>2, <1>11
  <2> QED BY <1>2, <1>6, <1>7, <1>8, <1>9, <2>2, <2>3 DEF HasHeard, rest
<1>12. CASE result.message # NoMessage
  <2> DEFINE m == result.message
             n == Len(msgs)
             more == Append(msgs, m)
             old == FramesIn(s) \ FramesIn(rest)
             new == FramesIn(s) \ FramesIn(left)
  <2>1. PICK f \in FramesIn(rest) :
          /\ FrameAt(rest, f) = Frame(m)
          /\ FramesIn(left) = FramesIn(rest) \ {f}
          /\ \A g \in FramesIn(left) : g[1] < f[1]
    BY <1>6, <1>12
  <2>2. f \in FramesIn(s) /\ FrameAt(rest, f) = FrameAt(s, f)
    BY <1>3, <1>4, FramesOfRest
  <2>3. m \in MessageRecords
    BY <1>6 DEF IsMessage
  <2> HIDE DEF m
  <2>4. /\ more \in Seq(MessageRecords) /\ Len(more) = n + 1
        /\ \A i \in 1 .. n : more[i] = msgs[i]
        /\ more[n + 1] = m
    BY <1>9, <2>3, AppendProperties
  <2>5. new = old \cup {f} /\ f \notin old
    BY <2>1, <2>2
  <2>6. /\ fs \in [1 .. n -> old]
        /\ \A g \in old : \E i \in 1 .. n : fs[i] = g
        /\ \A i, j \in 1 .. n : i < j => fs[j][1] < fs[i][1]
        /\ \A i \in 1 .. n, g \in FramesIn(rest) : g[1] < fs[i][1]
        /\ \A i \in 1 .. n : Frame(msgs[i]) = FrameAt(s, fs[i])
    BY <1>10 DEF Enumerates
  <2> DEFINE gs == [i \in 1 .. n + 1 |-> IF i <= n THEN fs[i] ELSE f]
  <2> HIDE DEF more, old, new
  <2>7. n \in Nat /\ \A i \in 1 .. n + 1 : i \in 1 .. n \/ i = n + 1
    BY <1>9
  <2> HIDE DEF n
  <2>8. (\A i \in 1 .. n : gs[i] = fs[i]) /\ gs[n + 1] = f
    BY <2>7
  <2>9. gs \in [1 .. n + 1 -> new]
    <3>1. ASSUME NEW i \in 1 .. n + 1 PROVE gs[i] \in new
      BY <2>5, <2>6, <2>7, <2>8
    <3> QED BY <3>1
  <2>10. gs \in [1 .. Len(more) -> new]
    BY <2>4, <2>9
  <2> HIDE DEF gs
  <2>11. ASSUME NEW g \in new PROVE \E i \in 1 .. Len(more) : gs[i] = g
    <3>1. CASE g \in old
      <4>1. PICK i \in 1 .. n : fs[i] = g
        BY <2>6, <3>1
      <4>2. i \in 1 .. n + 1
        BY <2>7
      <4> QED BY <2>4, <2>8, <4>1, <4>2
    <3>2. CASE g = f
      <4>1. n + 1 \in 1 .. n + 1
        BY <2>7
      <4> QED BY <2>4, <2>8, <3>2, <4>1
    <3> QED BY <2>5, <3>1, <3>2
  <2>12. ASSUME NEW i \in 1 .. Len(more), NEW j \in 1 .. Len(more), i < j
         PROVE  gs[j][1] < gs[i][1]
    <3>1. i \in 1 .. n
      BY <2>4, <2>7, <2>12
    <3>2. CASE j \in 1 .. n
      BY <2>6, <2>8, <2>12, <3>1, <3>2
    <3>3. CASE j = n + 1
      BY <2>1, <2>6, <2>8, <3>1, <3>3
    <3> QED BY <2>4, <2>7, <3>2, <3>3
  <2>13. ASSUME NEW i \in 1 .. Len(more), NEW g \in FramesIn(left)
         PROVE  g[1] < gs[i][1]
    <3>1. g \in FramesIn(rest) /\ g[1] < f[1]
      BY <2>1
    <3>2. i \in 1 .. n \/ i = n + 1
      BY <2>4, <2>7
    <3> QED BY <2>6, <2>8, <3>1, <3>2
  <2>14. ASSUME NEW i \in 1 .. Len(more) PROVE Frame(more[i]) = FrameAt(s, gs[i])
    <3>1. CASE i \in 1 .. n
      BY <2>4, <2>6, <2>8, <3>1
    <3>2. CASE i = n + 1
      <4>1. more[i] = m /\ gs[i] = f
        BY <2>4, <2>8, <3>2
      <4> QED BY <2>1, <2>2, <4>1
    <3> QED BY <2>4, <2>7, <3>1, <3>2
  <2>15. Enumerates(gs, more, s, left)
    BY <2>10, <2>11, <2>12, <2>13, <2>14 DEF Enumerates, new
  <2>16. Call(host).got = more
    BY <1>2, <1>12 DEF more, m
  <2> QED BY <1>2, <1>6, <1>7, <1>8, <2>4, <2>15, <2>16 DEF HasHeard, rest
<1> QED BY <1>11, <1>12

(* What is left of bytes without '\n' has none either, and no frame. *)
LEMMA NoNlNoFrame ==
  ASSUME NEW s \in Seq(0 .. 255), Where(s, Nl) = {}
  PROVE  FramesIn(s) = {} /\ \A r : IsRest(r, s) => Where(r, Nl) = {}
<1>1. FramesIn(s) = {}
  BY DEF FramesIn
<1>2. ASSUME NEW r, IsRest(r, s), NEW i \in Where(r, Nl) PROVE FALSE
  <2>1. PICK k \in 0 .. Len(s) : r = Drop(s, k)
    BY <1>2 DEF IsRest
  <2>2. /\ Len(r) = Len(s) - k /\ Len(s) \in Nat
        /\ \A j \in 1 .. Len(s) - k : r[j] = s[k + j]
    <3>1. Len(s) \in Nat
      BY LenProperties
    <3>2. IsDropped(r, 0 .. 255, s, k)
      BY <2>1, <3>1, DropIs
    <3> QED BY <3>1, <3>2 DEF IsDropped
  <2>3. i \in 1 .. Len(s) - k /\ r[i] = Nl
    BY <1>2, <2>2 DEF Where
  <2>4. k + i \in 1 .. Len(s) /\ s[k + i] = Nl
    BY <2>2, <2>3
  <2> QED BY <2>4 DEF Where
<1> QED BY <1>1, <1>2

(* After k calls the host has taken k bytes at least, or there is no '\n'. *)
Heeded(s, host, k) ==
  /\ HasHeard(s, host)
  /\ Where(host.rest, Nl) = {} \/ Len(host.rest) <= Len(s) - k

(* Before the first call. *)
LEMMA HeardNothing ==
  ASSUME NEW s \in Seq(1 .. 255)
  PROVE  Heeded(s, [rest |-> s, got |-> <<>>], 0)
<1> DEFINE host == [rest |-> s, got |-> <<>>]
           none == <<>>
<1>1. host.rest = s /\ host.got = none
  OBVIOUS
<1>2. Len(s) \in Nat /\ IsRest(s, s)
  BY LenProperties, AllAndNothingAreRests
<1>3. none \in Seq(MessageRecords) /\ Len(none) = 0
  OBVIOUS
<1> HIDE DEF host, none
<1>4. Enumerates([i \in 1 .. 0 |-> 0], none, s, s)
  BY <1>3 DEF Enumerates
<1>5. Len(host.rest) <= Len(s) - 0
  BY <1>1, <1>2
<1>6. HasHeard(s, host)
  BY <1>1, <1>2, <1>3, <1>4 DEF HasHeard
<1>7. Heeded(s, host, 0)
  BY <1>5, <1>6 DEF Heeded
<1> QED BY <1>7 DEF host, none

(* After one more call. *)
LEMMA HeedsMore ==
  ASSUME ChecksumsAreDigits, NEW s \in Seq(1 .. 255), Followed(s), ~Malformed(s),
         NEW host, NEW k \in Nat, Heeded(s, host, k)
  PROVE  Heeded(s, Call(host), k + 1)
<1> DEFINE next == Call(host)
           rest == host.rest
<1>1. HasHeard(s, host) /\ (Where(rest, Nl) = {} \/ Len(rest) <= Len(s) - k)
  BY DEF Heeded
<1>2. /\ HasHeard(s, next) /\ IsRest(next.rest, rest)
      /\ Where(next.rest, Nl) = {} \/ Len(next.rest) < Len(rest)
  BY <1>1, HearsMore
<1>3. rest \in Seq(1 .. 255) /\ Len(rest) \in Nat /\ Len(s) \in Nat
  BY <1>1, RestType, LenProperties DEF HasHeard
<1>4. next.rest \in Seq(1 .. 255) /\ Len(next.rest) \in Nat
  BY <1>2, <1>3, RestType
<1>5. CASE Where(rest, Nl) = {}
  <2>1. Where(next.rest, Nl) = {}
    BY <1>2, <1>3, <1>5, TextIsBytes, NoNlNoFrame
  <2> QED BY <1>2, <2>1 DEF Heeded
<1>6. CASE Len(rest) <= Len(s) - k /\ Len(next.rest) < Len(rest)
  <2>1. Len(next.rest) <= Len(s) - (k + 1)
    BY <1>3, <1>4, <1>6
  <2> QED BY <1>2, <2>1 DEF Heeded
<1>7. CASE Where(next.rest, Nl) = {}
  BY <1>2, <1>7 DEF Heeded
<1> QED BY <1>1, <1>2, <1>5, <1>6, <1>7

(* After any number of calls. *)
LEMMA HeedsAll ==
  ASSUME ChecksumsAreDigits, NEW s \in Seq(1 .. 255), Followed(s), ~Malformed(s),
         NEW n \in Nat, NEW after, IsCalls(s, n, after)
  PROVE  Heeded(s, after[n], n)
<1> DEFINE wrong == {k \in 0 .. n : ~Heeded(s, after[k], k)}
<1>1. wrong = {}
  <2> SUFFICES ASSUME wrong # {} PROVE FALSE
    OBVIOUS
  <2> DEFINE m == Min(wrong)
  <2>1. m \in wrong /\ \A j \in wrong : m <= j
    <3>1. wrong \in SUBSET Nat
      OBVIOUS
    <3> HIDE DEF wrong
    <3> QED BY <3>1, MinIsLeast
  <2> HIDE DEF m
  <2>2. m \in 0 .. n /\ ~Heeded(s, after[m], m)
    BY <2>1
  <2>3. \A k \in 0 .. n :
           after[k] = IF k = 0 THEN [rest |-> s, got |-> <<>>] ELSE Call(after[k - 1])
    BY DEF IsCalls
  <2>4. m # 0
    <3> SUFFICES ASSUME m = 0 PROVE FALSE
      OBVIOUS
    <3>1. after[m] = [rest |-> s, got |-> <<>>]
      BY <2>2, <2>3
    <3> QED BY <2>2, <3>1, HeardNothing
  <2>5. m - 1 \in 0 .. n /\ ~(m <= m - 1) /\ m - 1 \in Nat /\ m - 1 + 1 = m
    BY <2>2, <2>4
  <2>6. Heeded(s, after[m - 1], m - 1)
    BY <2>1, <2>5
  <2>7. after[m] = Call(after[m - 1])
    BY <2>2, <2>3, <2>4
  <2>8. Heeded(s, Call(after[m - 1]), m - 1 + 1)
    BY <2>5, <2>6, HeedsMore
  <2> QED BY <2>2, <2>5, <2>7, <2>8
<1>2. n \in 0 .. n
  OBVIOUS
<1> QED BY <1>1, <1>2

(***************************************************************************)
(* The messages a host hears are those of the frames it was sent, one for  *)
(* each of them, in their order.                                           *)
(***************************************************************************)
LEMMA AllIsHeard ==
  ASSUME ChecksumsAreDigits, NEW s \in Seq(1 .. 255), Followed(s), ~Malformed(s)
  PROVE  LET heard == Heard(s)
             n == Len(heard)
         IN  /\ heard \in Seq(MessageRecords) /\ n \in Nat
             /\ \E fs \in [1 .. n -> FramesIn(s)] :
                   /\ \A f \in FramesIn(s) : \E i \in 1 .. n : fs[i] = f
                   /\ \A i, j \in 1 .. n : i < j => fs[j][1] < fs[i][1]
                   /\ \A i \in 1 .. n : Frame(heard[i]) = FrameAt(s, fs[i])
<1>1. Len(s) \in Nat
  BY LenProperties
<1>2. PICK after : IsCalls(s, Len(s), after) /\ Heard(s) = after[Len(s)].got
  BY <1>1, HeardIs
<1> DEFINE host == after[Len(s)]
           rest == host.rest
<1>3. Heeded(s, host, Len(s))
  BY <1>1, <1>2, HeedsAll
<1> HIDE DEF host
<1>4. rest \in Seq(0 .. 255) /\ Len(rest) \in Nat
  <2>1. rest \in Seq(1 .. 255)
    BY <1>3, RestType DEF Heeded, HasHeard
  <2> QED BY <2>1, TextIsBytes
<1>5. FramesIn(rest) = {}
  <2>1. CASE Where(rest, Nl) = {}
    BY <1>4, <2>1, NoNlNoFrame
  <2>2. CASE Len(rest) <= Len(s) - Len(s)
    <3>1. Len(rest) = 0
      BY <1>1, <1>4, <2>2
    <3>2. Where(rest, Nl) = {}
      BY <3>1 DEF Where
    <3> QED BY <1>4, <3>2, NoNlNoFrame
  <2> QED BY <1>3, <2>1, <2>2 DEF Heeded
<1>6. PICK fs : Enumerates(fs, host.got, s, rest)
  BY <1>3 DEF Heeded, HasHeard
<1>7. Heard(s) = host.got /\ host.got \in Seq(MessageRecords)
  BY <1>2, <1>3 DEF Heeded, HasHeard, host
<1>8. Len(host.got) \in Nat
  BY <1>7, LenProperties
<1>9. FramesIn(s) \ FramesIn(rest) = FramesIn(s)
  BY <1>5
<1>10. /\ fs \in [1 .. Len(host.got) -> FramesIn(s)]
       /\ \A f \in FramesIn(s) : \E i \in 1 .. Len(host.got) : fs[i] = f
       /\ \A i, j \in 1 .. Len(host.got) : i < j => fs[j][1] < fs[i][1]
       /\ \A i \in 1 .. Len(host.got) : Frame(host.got[i]) = FrameAt(s, fs[i])
  BY <1>6, <1>9 DEF Enumerates
<1> QED BY <1>7, <1>8, <1>10

(* As many as there are frames, and all of them. *)
LEMMA AllFramesAreHeard ==
  ASSUME ChecksumsAreDigits, NEW s \in Seq(1 .. 255), Followed(s), ~Malformed(s)
  PROVE  /\ {Frame(Heard(s)[i]) : i \in DOMAIN Heard(s)} = {FrameAt(s, f) : f \in FramesIn(s)}
         /\ Len(Heard(s)) = Cardinality(FramesIn(s))
<1> DEFINE heard == Heard(s)
           n == Len(heard)
<1>1. /\ heard \in Seq(MessageRecords) /\ n \in Nat
      /\ \E fs \in [1 .. n -> FramesIn(s)] :
            /\ \A f \in FramesIn(s) : \E i \in 1 .. n : fs[i] = f
            /\ \A i, j \in 1 .. n : i < j => fs[j][1] < fs[i][1]
            /\ \A i \in 1 .. n : Frame(heard[i]) = FrameAt(s, fs[i])
  BY AllIsHeard
<1>2. DOMAIN heard = 1 .. n
  BY <1>1, LenProperties
<1> HIDE DEF n, heard
<1>3. PICK fs \in [1 .. n -> FramesIn(s)] :
         /\ \A f \in FramesIn(s) : \E i \in 1 .. n : fs[i] = f
         /\ \A i, j \in 1 .. n : i < j => fs[j][1] < fs[i][1]
         /\ \A i \in 1 .. n : Frame(heard[i]) = FrameAt(s, fs[i])
  BY <1>1
<1>4. ASSUME NEW f \in FramesIn(s) PROVE f[1] \in Int
  <2>1. s \in Seq(0 .. 255) /\ Len(s) \in Nat
    BY TextIsBytes
  <2>2. PICK b \in 1 .. Len(s), e \in 1 .. Len(s) : f = <<Len(s) - b, Len(s) - e>>
    BY <2>1, FramePlaces
  <2> QED BY <2>1, <2>2
<1>5. ASSUME NEW i \in 1 .. n, NEW j \in 1 .. n, fs[i] = fs[j] PROVE i = j
  <2>1. fs[i][1] \in Int
    BY <1>4
  <2>2. ~(fs[i][1] < fs[j][1]) /\ ~(fs[j][1] < fs[i][1])
    BY <1>5, <2>1
  <2>3. ~(i < j) /\ ~(j < i)
    BY <1>3, <2>2
  <2> QED BY <1>1, <2>3
<1>6. {Frame(heard[i]) : i \in 1 .. n} = {FrameAt(s, f) : f \in FramesIn(s)}
  <2>1. ASSUME NEW i \in 1 .. n
        PROVE  \E f \in FramesIn(s) : Frame(heard[i]) = FrameAt(s, f)
    BY <1>3
  <2>2. ASSUME NEW f \in FramesIn(s)
        PROVE  \E i \in 1 .. n : FrameAt(s, f) = Frame(heard[i])
    BY <1>3
  <2> QED BY <2>1, <2>2
<1>7. n = Cardinality(FramesIn(s))
  <2>1. IsFiniteSet(1 .. n) /\ Cardinality(1 .. n) = n
    <3>1. 1 \in Int /\ n \in Int
      BY <1>1
    <3>2. Cardinality(1 .. n) = (IF 1 > n THEN 0 ELSE n - 1 + 1) /\ IsFiniteSet(1 .. n)
      BY <3>1, FS_Interval
    <3> QED BY <1>1, <3>2
  <2>2. fs \in Bijection(1 .. n, FramesIn(s))
    BY <1>3, <1>5 DEF Bijection, Injection, Surjection, IsInjective
  <2>3. ExistsBijection(1 .. n, FramesIn(s))
    BY <2>2 DEF ExistsBijection
  <2> QED BY <2>1, <2>3, FS_Bijection
<1> QED BY <1>2, <1>6, <1>7 DEF heard, n

----------------------------------------------------------------------------
(* A frame behind what was there before.                                   *)

(* A plain message makes a whole frame. *)
LEMMA PlainFrame ==
  ASSUME ChecksumsAreDigits, NEW m, IsMessage(m), Plain(m), Len(m.data) <= MAXDATALEN
  PROVE  LET F == Frame(m)
             d == Len(m.data)
         IN  /\ F \in Seq(0 .. 255) /\ d \in Nat /\ Len(F) = d + NCHARCHECKSUM + 6
             /\ F[1] = Gt /\ F[d + 5] = Dot /\ F[Len(F)] = Nl
             /\ \A i \in 2 .. Len(F) : F[i] # Gt
             /\ \A i \in 1 .. Len(F) - 1 : F[i] # Nl
             /\ \A i \in 1 .. d + 4 : F[i] # Dot
             /\ \A i \in d + 6 .. Len(F) : F[i] # Dot
             /\ IsFrame(F)
<1> DEFINE F == Frame(m)
           data == m.data
           d == Len(data)
           N == NCHARCHECKSUM
           part == SubSeq(F, 5, Len(F) - N - 2)
<1>1. /\ F \in Seq(0 .. 255) /\ d \in Nat /\ Len(F) = d + N + 6
      /\ F[1] = Gt /\ F[2] = m.ascVersion /\ F[3] = m.appVersion /\ F[4] = m.command
      /\ \A i \in 1 .. d : F[4 + i] = data[i]
      /\ F[d + 5] = Dot /\ F[d + N + 6] = Nl
      /\ \A i \in d + 6 .. d + N + 5 : F[i] \notin Delimiters
  BY FrameShape
<1>2. N \in Nat /\ N > 0 /\ d <= MAXDATALEN /\ MAXMESSAGELEN = MAXDATALEN + N + 6
      /\ MAXDATALEN \in Nat
  BY Sizes
<1>3. /\ m.ascVersion \notin Delimiters /\ m.appVersion \notin Delimiters
      /\ m.command \notin Delimiters
      /\ \A i \in 1 .. d : data[i] \notin Delimiters
  BY DEF Plain
<1>4. data \in Seq(0 .. 255)
  BY DEF IsMessage, MessageRecords
<1>5. Message(m.ascVersion, m.appVersion, m.command, data) = m
  BY DEF Message, IsMessage, MessageRecords
<1> HIDE DEF F, data, d, N
<1>6. ASSUME NEW i \in 2 .. d + 4 PROVE F[i] \notin Delimiters
  <2>1. CASE i <= 4
    <3>1. i = 2 \/ i = 3 \/ i = 4
      BY <2>1
    <3> QED BY <1>1, <1>3, <3>1
  <2>2. CASE i > 4
    <3>1. i - 4 \in 1 .. d /\ 4 + (i - 4) = i
      BY <1>1, <2>2
    <3>2. F[4 + (i - 4)] = data[i - 4] /\ data[i - 4] \notin Delimiters
      BY <1>1, <1>3, <3>1
    <3> QED BY <3>1, <3>2
  <2> QED BY <2>1, <2>2
<1>7. ASSUME NEW i \in 1 .. Len(F)
      PROVE  i = 1 \/ i \in 2 .. d + 4 \/ i = d + 5 \/ i \in d + 6 .. d + N + 5 \/ i = d + N + 6
  BY <1>1, <1>2
<1>8. Gt \in Delimiters /\ Dot \in Delimiters /\ Nl \in Delimiters
      /\ Gt # Dot /\ Gt # Nl /\ Dot # Nl
  BY DEF Delimiters, Gt, Dot, Nl
<1>9. ASSUME NEW i \in 2 .. Len(F) PROVE F[i] # Gt
  <2>1. i \in 1 .. Len(F) /\ i # 1
    BY <1>1, <1>2
  <2> QED BY <1>1, <1>6, <1>7, <1>8, <2>1
<1>10. ASSUME NEW i \in 1 .. Len(F) - 1 PROVE F[i] # Nl
  <2>1. i \in 1 .. Len(F) /\ i # d + N + 6
    BY <1>1, <1>2
  <2> QED BY <1>1, <1>6, <1>7, <1>8, <2>1
<1>11. ASSUME NEW i \in 1 .. d + 4 PROVE F[i] # Dot
  <2>1. i = 1 \/ i \in 2 .. d + 4
    BY <1>1
  <2> QED BY <1>1, <1>6, <1>8, <2>1
<1>12. ASSUME NEW i \in d + 6 .. Len(F) PROVE F[i] # Dot
  <2>1. i \in d + 6 .. d + N + 5 \/ i = d + N + 6
    BY <1>1, <1>2
  <2> QED BY <1>1, <1>8, <2>1
<1>13. part = data
  <2> DEFINE z == Len(F) - N - 2
  <2>1. z = d + 4 /\ z \in Int
    BY <1>1, <1>2
  <2> HIDE DEF z
  <2>2. \A i \in 5 .. z : F[i] \in 0 .. 255
    <3>1. \A i \in 5 .. z : i \in 1 .. Len(F)
      BY <1>1, <1>2, <2>1
    <3>2. \A i \in 1 .. Len(F) : F[i] \in 0 .. 255
      BY <1>1, ElementOfSeq
    <3> QED BY <3>1, <3>2
  <2> DEFINE q == SubSeq(F, 5, z)
  <2>3. /\ q \in Seq(0 .. 255)
        /\ Len(q) = IF 5 <= z THEN z - 5 + 1 ELSE 0
        /\ \A i \in 1 .. z - 5 + 1 : q[i] = F[5 + i - 1]
    <3>1. HasSpan(0 .. 255, F, 5, z)
      BY <2>1, <2>2 DEF HasSpan
    <3>2. IsSpan(q, 0 .. 255, F, 5, z)
      BY <3>1, SpanIs
    <3> HIDE DEF q
    <3> QED BY <3>2 DEF IsSpan
  <2>4. part = q
    BY DEF z
  <2> HIDE DEF q
  <2>5. Len(q) = Len(data) /\ Len(q) = d
    <3>1. Len(q) = d
      BY <1>1, <2>1, <2>3
    <3> QED BY <3>1 DEF d
  <2>6. ASSUME NEW i \in 1 .. Len(q) PROVE q[i] = data[i]
    <3>1. i \in 1 .. d /\ i \in 1 .. z - 5 + 1 /\ 5 + i - 1 = 4 + i
      BY <1>1, <2>1, <2>5
    <3> QED BY <1>1, <2>3, <3>1
  <2> QED BY <1>4, <2>3, <2>4, <2>5, <2>6, SeqEqual
<1> HIDE DEF part
<1>14. Len(F) \in N + 6 .. MAXMESSAGELEN
  BY <1>1, <1>2
<1>15. IsFrame(F)
  <2>1. Message(F[2], F[3], F[4], part) = m
    BY <1>1, <1>5, <1>13
  <2>2. IsFrame(F) <=> /\ Len(F) \in NCHARCHECKSUM + 6 .. MAXMESSAGELEN
                       /\ Plain(Message(F[2], F[3], F[4], part))
                       /\ F = Frame(Message(F[2], F[3], F[4], part))
    BY DEF IsFrame, part, N
  <2> QED BY <1>14, <2>1, <2>2 DEF F, N
<1> QED BY <1>1, <1>9, <1>10, <1>11, <1>12, <1>15 DEF F, d, data, N

(* No two messages make the same frame. *)
LEMMA FrameIsOfOne ==
  ASSUME ChecksumsAreDigits, NEW m \in MessageRecords, NEW q \in MessageRecords,
         Frame(m) = Frame(q)
  PROVE  m = q
<1> DEFINE F == Frame(m)
           d == Len(m.data)
           e == Len(q.data)
<1>1. IsMessage(m) /\ IsMessage(q)
  BY DEF IsMessage
<1>2. /\ d \in Nat /\ Len(F) = d + NCHARCHECKSUM + 6
      /\ F[2] = m.ascVersion /\ F[3] = m.appVersion /\ F[4] = m.command
      /\ \A i \in 1 .. d : F[4 + i] = m.data[i]
  BY <1>1, FrameShape
<1>3. /\ e \in Nat /\ Len(F) = e + NCHARCHECKSUM + 6
      /\ F[2] = q.ascVersion /\ F[3] = q.appVersion /\ F[4] = q.command
      /\ \A i \in 1 .. e : F[4 + i] = q.data[i]
  BY <1>1, FrameShape
<1> HIDE DEF F, d, e
<1>4. d = e
  BY <1>2, <1>3, Sizes
<1>5. m.data = q.data
  <2>1. m.data \in Seq(0 .. 255) /\ q.data \in Seq(0 .. 255)
    BY DEF MessageRecords
  <2>2. Len(m.data) = Len(q.data) /\ \A i \in 1 .. Len(m.data) : m.data[i] = q.data[i]
    BY <1>2, <1>3, <1>4 DEF d, e
  <2> QED BY <2>1, <2>2, SeqEqual
<1>6. ASSUME NEW x \in MessageRecords
      PROVE  x = [ascVersion |-> x.ascVersion, appVersion |-> x.appVersion,
                  command |-> x.command, data |-> x.data]
  BY DEF MessageRecords
<1>7. /\ m = [ascVersion |-> m.ascVersion, appVersion |-> m.appVersion,
              command |-> m.command, data |-> m.data]
      /\ q = [ascVersion |-> q.ascVersion, appVersion |-> q.appVersion,
              command |-> q.command, data |-> q.data]
  BY <1>6
<1>8. m.ascVersion = q.ascVersion /\ m.appVersion = q.appVersion /\ m.command = q.command
  BY <1>2, <1>3
<1> QED BY <1>5, <1>7, <1>8, Zenon

(* What the frame F behind s adds to the frames of s. *)
AreTogether(s, F) ==
  LET a == s \o F
      L == Len(F)
  IN  /\ \A f \in FramesIn(s) :
            /\ <<f[1] + L, f[2] + L>> \in FramesIn(a)
            /\ FrameAt(a, <<f[1] + L, f[2] + L>>) = FrameAt(s, f)
      /\ <<L - 1, 0>> \in FramesIn(a) /\ FrameAt(a, <<L - 1, 0>>) = F
      /\ \A g \in FramesIn(a) :
            g = <<L - 1, 0>> \/ \E f \in FramesIn(s) : g = <<f[1] + L, f[2] + L>>

(* What stands in the first of two queues stands there in both together. *)
LEMMA FrameInFront ==
  ASSUME NEW s \in Seq(0 .. 255), NEW t \in Seq(0 .. 255),
         NEW b \in 1 .. Len(s), NEW e \in 1 .. Len(s)
  PROVE  /\ SubSeq(s \o t, b, e) = SubSeq(s, b, e)
         /\ IsFrameFrom(s \o t, b, e) <=> IsFrameFrom(s, b, e)
<1> DEFINE a == s \o t
           n == Len(s)
           L == Len(t)
<1>1. n \in Nat /\ L \in Nat
  BY LenProperties
<1>2. Len(a) = n + L /\ \A i \in 1 .. n + L : a[i] = IF i <= n THEN s[i] ELSE t[i - n]
  BY ConcatProperties
<1>3. SubSeq(a, b, e) = SubSeq(s, b, e)
  BY SubSeqOfConcat1
<1> HIDE DEF a, n, L
<1>4. b \in 1 .. n /\ e \in 1 .. n
  BY DEF n
<1>5. b \in 1 .. n + L /\ e \in 1 .. n + L /\ b <= n /\ e <= n
  BY <1>1, <1>4
<1>6. a[b] = s[b] /\ a[e] = s[e]
  BY <1>2, <1>5
<1>7. IsFrameFrom(a, b, e) <=> IsFrameFrom(s, b, e)
  BY <1>2, <1>3, <1>5, <1>6 DEF IsFrameFrom
<1> QED BY <1>3, <1>7 DEF a

(* A whole frame behind other bytes is one there. *)
LEMMA FrameAtTheEnd ==
  ASSUME NEW s \in Seq(0 .. 255), NEW F \in Seq(0 .. 255), Len(F) > 0,
         F[1] = Gt, F[Len(F)] = Nl, IsFrame(F)
  PROVE  /\ SubSeq(s \o F, Len(s) + 1, Len(s) + Len(F)) = F
         /\ IsFrameFrom(s \o F, Len(s) + 1, Len(s) + Len(F))
<1> DEFINE a == s \o F
           n == Len(s)
           L == Len(F)
<1>1. n \in Nat /\ L \in Nat /\ L > 0
  BY LenProperties
<1>2. Len(a) = n + L /\ \A i \in 1 .. n + L : a[i] = IF i <= n THEN s[i] ELSE F[i - n]
  BY ConcatProperties
<1>3. SubSeq(a, n + 1, n + L) = F
  <2>1. n + 1 \in Len(s) + 1 .. Len(s) + Len(F) /\ n + L \in Len(s) + 1 .. Len(s) + Len(F)
    BY <1>1
  <2>2. SubSeq(a, n + 1, n + L) = SubSeq(F, n + 1 - Len(s), n + L - Len(s))
    BY <2>1, SubSeqOfConcat2
  <2>3. n + 1 - Len(s) = 1 /\ n + L - Len(s) = Len(F)
    BY <1>1
  <2>4. SubSeq(F, 1, Len(F)) = F
    BY SubSeqFull
  <2> QED BY <2>2, <2>3, <2>4
<1> HIDE DEF a, n
<1>4. PICK x \in 1 .. n + L : x = n + 1
  BY <1>1
<1>5. PICK y \in 1 .. n + L : y = n + L
  BY <1>1
<1>6. ~(x <= n) /\ x - n = 1 /\ ~(y <= n) /\ y - n = L
  BY <1>1, <1>4, <1>5
<1>7. a[x] = Gt /\ a[y] = Nl
  BY <1>2, <1>6
<1>8. IsFrameFrom(a, x, y)
  BY <1>2, <1>3, <1>4, <1>5, <1>7 DEF IsFrameFrom
<1> QED BY <1>3, <1>4, <1>5, <1>8 DEF a, n

(***************************************************************************)
(* A frame behind other bytes: it is a frame there, and the other frames   *)
(* are those that were there before.                                       *)
(***************************************************************************)
LEMMA FramesTogether ==
  ASSUME ChecksumsAreDigits, NEW s \in Seq(0 .. 255),
         NEW m, IsMessage(m), Plain(m), Len(m.data) <= MAXDATALEN
  PROVE  AreTogether(s, Frame(m))
<1> DEFINE F == Frame(m)
           L == Len(F)
           n == Len(s)
           a == s \o F
<1>1. /\ F \in Seq(0 .. 255) /\ L \in Nat /\ L > 0
      /\ F[1] = Gt /\ F[L] = Nl
      /\ \A i \in 2 .. L : F[i] # Gt
      /\ \A i \in 1 .. L - 1 : F[i] # Nl
      /\ IsFrame(F)
  <2>1. /\ F \in Seq(0 .. 255) /\ Len(m.data) \in Nat
        /\ L = Len(m.data) + NCHARCHECKSUM + 6
    BY PlainFrame
  <2>2. L \in Nat /\ L > 0
    <3> HIDE DEF L
    <3> QED BY <2>1, Sizes
  <2> QED BY <2>1, <2>2, PlainFrame
<1>2. n \in Nat
  BY LenProperties
<1> HIDE DEF F
<1>3. /\ a \in Seq(0 .. 255) /\ Len(a) = n + L
      /\ \A i \in 1 .. n + L : a[i] = IF i <= n THEN s[i] ELSE F[i - n]
  BY <1>1, ConcatProperties
<1>3a. ASSUME NEW k \in 1 .. L PROVE n + k \in 1 .. n + L /\ a[n + k] = F[k]
  <2> HIDE DEF a, n, L
  <2>1. PICK q \in 1 .. n + L : q = n + k
    BY <1>1, <1>2
  <2>2. ~(q <= n) /\ q - n = k
    BY <1>1, <1>2, <2>1
  <2>3. a[q] = F[q - n]
    BY <1>3, <2>2
  <2> QED BY <2>1, <2>2, <2>3
<1>4. ASSUME NEW b \in 1 .. n, NEW e \in 1 .. n
      PROVE  /\ SubSeq(a, b, e) = SubSeq(s, b, e)
             /\ IsFrameFrom(a, b, e) <=> IsFrameFrom(s, b, e)
  <2>1. F \in Seq(0 .. 255)
    BY <1>1
  <2> QED BY <2>1, FrameInFront
<1>5. SubSeq(a, n + 1, n + L) = F /\ IsFrameFrom(a, n + 1, n + L)
  BY <1>1, FrameAtTheEnd
<1>6. ASSUME NEW f \in FramesIn(s)
      PROVE  /\ <<f[1] + L, f[2] + L>> \in FramesIn(a)
             /\ FrameAt(a, <<f[1] + L, f[2] + L>>) = FrameAt(s, f)
  <2>1. PICK b \in 1 .. n, e \in 1 .. n :
           /\ IsFrameFrom(s, b, e) /\ f = <<n - b, n - e>>
           /\ FrameAt(s, f) = SubSeq(s, b, e)
    BY FramePlaces
  <2>2. IsFrameFrom(a, b, e) /\ SubSeq(a, b, e) = SubSeq(s, b, e)
    BY <1>4, <2>1
  <2> HIDE DEF a, n, L
  <2>3. /\ Len(a) - b = f[1] + L /\ Len(a) - e = f[2] + L
        /\ Len(a) - (f[1] + L) = b /\ Len(a) - (f[2] + L) = e
    <3>1. f[1] = n - b /\ f[2] = n - e
      BY <2>1
    <3> QED BY <1>1, <1>2, <1>3, <3>1
  <2>4. <<f[1] + L, f[2] + L>> \in FramesIn(a)
    BY <2>2, <2>3, FramesAre
  <2>5. FrameAt(a, <<f[1] + L, f[2] + L>>) = SubSeq(a, b, e)
    BY <2>3 DEF FrameAt
  <2> QED BY <2>1, <2>2, <2>4, <2>5
<1>7. <<L - 1, 0>> \in FramesIn(a) /\ FrameAt(a, <<L - 1, 0>>) = F
  <2> HIDE DEF a, n, L
  <2>1. /\ Len(a) - (n + 1) = L - 1 /\ Len(a) - (n + L) = 0
        /\ Len(a) - (L - 1) = n + 1 /\ Len(a) - 0 = n + L
    BY <1>1, <1>2, <1>3
  <2>2. <<L - 1, 0>> \in FramesIn(a)
    BY <1>5, <2>1, FramesAre
  <2>3. FrameAt(a, <<L - 1, 0>>) = SubSeq(a, n + 1, n + L)
    BY <2>1 DEF FrameAt
  <2> QED BY <1>5, <2>2, <2>3
<1>8. ASSUME NEW g \in FramesIn(a)
      PROVE  g = <<L - 1, 0>> \/ \E f \in FramesIn(s) : g = <<f[1] + L, f[2] + L>>
  <2>1. PICK b, e : IsFrameFrom(a, b, e) /\ g = <<Len(a) - b, Len(a) - e>>
    BY FramesAre
  <2>2. /\ b \in 1 .. n + L /\ e \in 1 .. n + L /\ b < e
        /\ a[b] = Gt /\ a[e] = Nl /\ \A i \in b + 1 .. e : a[i] # Gt
    <3> HIDE DEF a, n, L
    <3>1. /\ b \in 1 .. Len(a) /\ e \in 1 .. Len(a) /\ b + NCHARCHECKSUM + 5 <= e
          /\ a[b] = Gt /\ a[e] = Nl /\ \A i \in b + 1 .. e : a[i] # Gt
      BY <1>3, <2>1, FrameInBuffer
    <3> QED BY <1>1, <1>2, <1>3, <3>1, Sizes
  <2>3. CASE e <= n
    <3>1. b \in 1 .. n /\ e \in 1 .. n
      BY <1>2, <2>2, <2>3
    <3>2. IsFrameFrom(s, b, e)
      BY <1>4, <2>1, <3>1
    <3> DEFINE f == <<n - b, n - e>>
    <3>3. f \in FramesIn(s)
      BY <3>2, FramesAre
    <3> HIDE DEF a, n, L
    <3>4. f[1] = n - b /\ f[2] = n - e
      OBVIOUS
    <3>5. g = <<f[1] + L, f[2] + L>>
      <4>1. Len(a) - b = f[1] + L /\ Len(a) - e = f[2] + L
        BY <1>1, <1>2, <1>3, <3>1, <3>4
      <4> QED BY <2>1, <4>1
    <3> QED BY <3>3, <3>5
  <2>4. CASE ~(e <= n)
    <3> HIDE DEF a, n, L
    <3>1. e - n \in 1 .. L /\ a[e] = F[e - n]
      BY <1>1, <1>2, <1>3, <2>2, <2>4
    <3>2. e = n + L
      <4>1. ~(e - n \in 1 .. L - 1)
        BY <1>1, <2>2, <3>1
      <4> QED BY <1>1, <1>2, <2>2, <3>1, <4>1
    <3>3. 1 \in 1 .. L
      BY <1>1
    <3>4. a[n + 1] = Gt
      BY <1>1, <1>3a, <3>3
    <3>5. ~(n + 1 \in b + 1 .. e)
      BY <2>2, <3>4
    <3>6. b >= n + 1
      BY <1>1, <1>2, <2>2, <3>2, <3>5
    <3>7. b - n \in 1 .. L /\ a[b] = F[b - n]
      BY <1>1, <1>2, <1>3, <2>2, <3>6
    <3>8. ~(b - n \in 2 .. L)
      BY <1>1, <2>2, <3>7
    <3>9. b = n + 1
      BY <1>1, <1>2, <2>2, <3>7, <3>8
    <3>10. Len(a) - b = L - 1 /\ Len(a) - e = 0
      BY <1>1, <1>2, <1>3, <3>2, <3>9
    <3> QED BY <2>1, <3>10
  <2> QED BY <2>3, <2>4
<1> QED BY <1>6, <1>7, <1>8 DEF F, AreTogether

(* A plain frame behind other bytes leaves each '>' with a '.' that is not  *)
(* too far away nor too near.                                              *)
LEMMA LegibleWithAFrame ==
  ASSUME ChecksumsAreDigits, NEW s \in Seq(0 .. 255), Followed(s), ~Malformed(s),
         NEW m, IsMessage(m), Plain(m), Len(m.data) <= MAXDATALEN
  PROVE  Followed(s \o Frame(m)) /\ ~Malformed(s \o Frame(m))
<1> DEFINE F == Frame(m)
           L == Len(F)
           n == Len(s)
           a == s \o F
           d == Len(m.data)
<1>1. /\ F \in Seq(0 .. 255) /\ d \in Nat /\ L = d + NCHARCHECKSUM + 6
      /\ F[1] = Gt /\ F[d + 5] = Dot
      /\ \A i \in 2 .. L : F[i] # Gt
      /\ \A i \in 1 .. d + 4 : F[i] # Dot
  BY PlainFrame
<1>2. n \in Nat /\ d <= MAXDATALEN
  BY LenProperties
<1> HIDE DEF F, d
<1>3. L \in Nat /\ L >= d + 5
  <2> HIDE DEF L
  <2> QED BY <1>1, Sizes
<1>4. /\ a \in Seq(0 .. 255) /\ Len(a) = n + L
      /\ \A i \in 1 .. n + L : a[i] = IF i <= n THEN s[i] ELSE F[i - n]
  <2>1. F \in Seq(0 .. 255)
    BY <1>1
  <2> QED BY <2>1, ConcatProperties
<1>5. \A i \in 1 .. n : s[i] = Gt => \E j \in i + 1 .. n : j <= i + MAXDATALEN + 4 /\ s[j] = Dot
  BY DEF Followed
<1>6. \A i, j \in 1 .. n : s[i] = Gt /\ s[j] = Dot => j - i \notin 1 .. 3
  BY DEF Malformed, Where
<1> HIDE DEF a, n, L
<1>7. \A i \in 1 .. n + L : i <= n => i \in 1 .. n /\ a[i] = s[i]
  BY <1>2, <1>3, <1>4
<1>8. \A i \in 1 .. n + L : ~(i <= n) => i - n \in 1 .. L /\ a[i] = F[i - n]
  BY <1>2, <1>3, <1>4
<1>9. ASSUME NEW i \in 1 .. n + L, ~(i <= n), a[i] = Gt PROVE i = n + 1
  <2>1. i - n \in 1 .. L /\ ~(i - n \in 2 .. L)
    BY <1>1, <1>8, <1>9
  <2> QED BY <1>2, <1>3, <1>9, <2>1
<1>10. ASSUME NEW i \in 1 .. n + L, a[i] = Gt
       PROVE  \E j \in i + 1 .. n + L : j <= i + MAXDATALEN + 4 /\ a[j] = Dot
  <2>1. CASE i <= n
    <3>1. i \in 1 .. n /\ s[i] = Gt
      BY <1>7, <1>10, <2>1
    <3>2. PICK j \in i + 1 .. n : j <= i + MAXDATALEN + 4 /\ s[j] = Dot
      BY <1>5, <3>1
    <3>3. j \in i + 1 .. n + L /\ j \in 1 .. n + L /\ j <= n
      BY <1>2, <1>3, <3>1, <3>2
    <3> QED BY <1>7, <3>2, <3>3
  <2>2. CASE ~(i <= n)
    <3>1. i = n + 1
      BY <1>9, <1>10, <2>2
    <3>2. PICK j \in Nat : j = n + d + 5
      BY <1>1, <1>2
    <3>3. j \in i + 1 .. n + L /\ j \in 1 .. n + L /\ ~(j <= n) /\ j - n = d + 5
          /\ j <= i + MAXDATALEN + 4
      BY <1>1, <1>2, <1>3, <3>1, <3>2, Sizes
    <3>4. a[j] = F[j - n]
      BY <1>8, <3>3
    <3>5. a[j] = Dot
      BY <1>1, <3>3, <3>4
    <3> QED BY <3>3, <3>5
  <2> QED BY <2>1, <2>2
<1>11. Followed(a)
  BY <1>4, <1>10 DEF Followed
<1>12. ASSUME NEW i \in 1 .. n + L, NEW j \in 1 .. n + L, a[i] = Gt, a[j] = Dot, j - i \in 1 .. 3
       PROVE  FALSE
  <2>1. CASE j <= n
    <3>1. i <= n /\ i \in 1 .. n /\ j \in 1 .. n
      BY <1>2, <1>3, <1>12, <2>1
    <3>2. s[i] = Gt /\ s[j] = Dot
      BY <1>7, <1>12, <2>1, <3>1
    <3> QED BY <1>6, <1>12, <3>1, <3>2
  <2>2. CASE ~(j <= n)
    <3>1. j - n \in 1 .. L /\ F[j - n] = Dot
      BY <1>8, <1>12, <2>2
    <3>2. ~(j - n \in 1 .. d + 4)
      BY <1>1, <3>1
    <3>3. j >= n + d + 5
      BY <1>1, <1>2, <1>3, <3>1, <3>2
    <3>4. ~(i <= n)
      BY <1>1, <1>2, <1>12, <3>3
    <3>5. i = n + 1
      BY <1>9, <1>12, <3>4
    <3> QED BY <1>1, <1>2, <1>12, <3>3, <3>5
  <2> QED BY <2>1, <2>2
<1>13. ~Malformed(a)
  BY <1>4, <1>12 DEF Malformed, Where
<1> QED BY <1>11, <1>13 DEF a, F

(* fs counts the members of T downwards by their first components. *)
CountsDown(T, n, fs) ==
  /\ n \in Nat /\ fs \in [1 .. n -> T]
  /\ \A f \in T : f[1] \in Int
  /\ \A f \in T : \E i \in 1 .. n : fs[i] = f
  /\ \A i, j \in 1 .. n : i < j => fs[j][1] < fs[i][1]

(* One count is never behind another at the first place where they differ. *)
LEMMA CountsAgree ==
  ASSUME NEW T, NEW n, NEW fs, CountsDown(T, n, fs), NEW p, NEW gs, CountsDown(T, p, gs),
         NEW k \in 1 .. n, k \in 1 .. p, \A i \in 1 .. k - 1 : fs[i] = gs[i]
  PROVE  fs[k][1] <= gs[k][1] /\ fs[k][1] \in Int
<1>1. /\ n \in Nat /\ p \in Nat /\ fs[k] \in T /\ gs[k] \in T
      /\ fs[k][1] \in Int /\ gs[k][1] \in Int
  BY DEF CountsDown
<1>2. PICK j \in 1 .. p : gs[j] = fs[k]
  BY <1>1 DEF CountsDown
<1>3. CASE j < k
  <2>1. j \in 1 .. k - 1 /\ j \in 1 .. n
    BY <1>1, <1>3
  <2>2. fs[j] = fs[k]
    BY <1>2, <2>1
  <2>3. fs[k][1] < fs[j][1]
    BY <1>3, <2>1 DEF CountsDown
  <2> QED BY <1>1, <2>2, <2>3
<1>4. CASE j = k
  BY <1>1, <1>2, <1>4
<1>5. CASE k < j
  <2>1. gs[j][1] < gs[k][1]
    BY <1>5 DEF CountsDown
  <2> QED BY <1>1, <1>2, <2>1
<1> QED BY <1>1, <1>3, <1>4, <1>5

(* So there is one such count. *)
LEMMA CountsAreEqual ==
  ASSUME NEW T, NEW n, NEW fs, CountsDown(T, n, fs), NEW p, NEW gs, CountsDown(T, p, gs)
  PROVE  n = p /\ \A i \in 1 .. n : fs[i] = gs[i]
<1> DEFINE wrong == {k \in 1 .. n : k \in 1 .. p /\ fs[k] # gs[k]}
<1>1. n \in Nat /\ p \in Nat
  BY DEF CountsDown
<1>2. wrong = {}
  <2> SUFFICES ASSUME wrong # {} PROVE FALSE
    OBVIOUS
  <2> DEFINE k == Min(wrong)
  <2>1. k \in wrong /\ \A j \in wrong : k <= j
    <3>1. wrong \in SUBSET Nat
      OBVIOUS
    <3> HIDE DEF wrong
    <3> QED BY <3>1, MinIsLeast
  <2> HIDE DEF k
  <2>2. k \in 1 .. n /\ k \in 1 .. p /\ fs[k] # gs[k]
    BY <2>1
  <2>3. ASSUME NEW i \in 1 .. k - 1 PROVE fs[i] = gs[i]
    <3>1. i \in 1 .. n /\ i \in 1 .. p /\ ~(k <= i)
      BY <1>1, <2>2
    <3> QED BY <2>1, <3>1
  <2>4. fs[k][1] <= gs[k][1] /\ fs[k][1] \in Int
    BY <2>2, <2>3, CountsAgree
  <2>5. gs[k][1] <= fs[k][1] /\ gs[k][1] \in Int
    <3>1. \A i \in 1 .. k - 1 : gs[i] = fs[i]
      BY <2>3
    <3> QED BY <2>2, <3>1, CountsAgree
  <2>6. fs[k][1] = gs[k][1]
    BY <2>4, <2>5
  <2>7. PICK j \in 1 .. p : gs[j] = fs[k]
    BY <2>2 DEF CountsDown
  <2>8. j # k /\ gs[j][1] = gs[k][1]
    BY <2>2, <2>6, <2>7
  <2>9. j < k \/ k < j
    BY <1>1, <2>2, <2>8
  <2>10. gs[k][1] < gs[j][1] \/ gs[j][1] < gs[k][1]
    BY <2>2, <2>9 DEF CountsDown
  <2> QED BY <2>5, <2>8, <2>10
<1>3. ASSUME n < p PROVE FALSE
  <2>1. n + 1 \in 1 .. p
    BY <1>1, <1>3
  <2>2. PICK i \in 1 .. n : fs[i] = gs[n + 1]
    BY <2>1 DEF CountsDown
  <2>3. i \in 1 .. p /\ i < n + 1
    BY <1>1, <1>3
  <2>4. gs[i] = gs[n + 1]
    BY <1>2, <2>2, <2>3
  <2>5. gs[n + 1][1] < gs[i][1] /\ gs[i][1] \in Int
    BY <2>1, <2>3 DEF CountsDown
  <2> QED BY <2>4, <2>5
<1>4. ASSUME p < n PROVE FALSE
  <2>1. p + 1 \in 1 .. n
    BY <1>1, <1>4
  <2>2. PICK i \in 1 .. p : gs[i] = fs[p + 1]
    BY <2>1 DEF CountsDown
  <2>3. i \in 1 .. n /\ i < p + 1
    BY <1>1, <1>4
  <2>4. fs[i] = fs[p + 1]
    BY <1>2, <2>2, <2>3
  <2>5. fs[p + 1][1] < fs[i][1] /\ fs[i][1] \in Int
    BY <2>1, <2>3 DEF CountsDown
  <2> QED BY <2>4, <2>5
<1>5. n = p
  BY <1>1, <1>3, <1>4
<1> QED BY <1>2, <1>5

(* The frames heard, counted. *)
LEMMA HeardCountsDown ==
  ASSUME ChecksumsAreDigits, NEW s \in Seq(1 .. 255), Followed(s), ~Malformed(s)
  PROVE  /\ Heard(s) \in Seq(MessageRecords)
         /\ \E fs : /\ CountsDown(FramesIn(s), Len(Heard(s)), fs)
                    /\ \A i \in 1 .. Len(Heard(s)) : Frame(Heard(s)[i]) = FrameAt(s, fs[i])
<1> DEFINE heard == Heard(s)
           n == Len(heard)
<1>1. /\ heard \in Seq(MessageRecords) /\ n \in Nat
      /\ \E fs \in [1 .. n -> FramesIn(s)] :
            /\ \A f \in FramesIn(s) : \E i \in 1 .. n : fs[i] = f
            /\ \A i, j \in 1 .. n : i < j => fs[j][1] < fs[i][1]
            /\ \A i \in 1 .. n : Frame(heard[i]) = FrameAt(s, fs[i])
  BY AllIsHeard
<1> HIDE DEF heard, n
<1>2. ASSUME NEW f \in FramesIn(s) PROVE f[1] \in Int
  <2>1. s \in Seq(0 .. 255) /\ Len(s) \in Nat
    BY TextIsBytes
  <2>2. PICK b \in 1 .. Len(s), e \in 1 .. Len(s) : f = <<Len(s) - b, Len(s) - e>>
    BY <2>1, FramePlaces
  <2> QED BY <2>1, <2>2
<1>3. \E fs : /\ CountsDown(FramesIn(s), n, fs)
              /\ \A i \in 1 .. n : Frame(heard[i]) = FrameAt(s, fs[i])
  BY <1>1, <1>2 DEF CountsDown
<1> QED BY <1>1, <1>3 DEF heard, n

(***************************************************************************)
(* The message of a frame that stands behind other bytes is heard, and     *)
(* behind those that would be heard anyway.                                *)
(***************************************************************************)
LEMMA FrameIsHeardLast ==
  ASSUME ChecksumsAreDigits, NEW s \in Seq(1 .. 255), Followed(s), ~Malformed(s),
         NEW m, IsMessage(m), Plain(m), Len(m.data) <= MAXDATALEN,
         Frame(m) \in Seq(1 .. 255)
  PROVE  Heard(s \o Frame(m)) = Append(Heard(s), m)
<1> DEFINE F == Frame(m)
           L == Len(F)
           a == s \o F
           heard == Heard(s)
           n == Len(heard)
           all == Heard(a)
           more == Append(heard, m)
           last == <<L - 1, 0>>
           old == FramesIn(s)
           new == FramesIn(a)
<1>1. /\ \A f \in old :
            /\ <<f[1] + L, f[2] + L>> \in new
            /\ FrameAt(a, <<f[1] + L, f[2] + L>>) = FrameAt(s, f)
      /\ last \in new /\ FrameAt(a, last) = F
      /\ \A g \in new : g = last \/ \E f \in old : g = <<f[1] + L, f[2] + L>>
  <2>1. s \in Seq(0 .. 255)
    BY TextIsBytes
  <2>2. AreTogether(s, F)
    BY <2>1, FramesTogether
  <2> QED BY <2>2 DEF AreTogether
<1>2. heard \in Seq(MessageRecords) /\ n \in Nat
  BY HeardCountsDown, LenProperties
<1>3. PICK fs : /\ CountsDown(old, n, fs)
                /\ \A i \in 1 .. n : Frame(heard[i]) = FrameAt(s, fs[i])
  BY HeardCountsDown
<1>4. a \in Seq(1 .. 255) /\ Followed(a) /\ ~Malformed(a)
  <2>1. a \in Seq(1 .. 255)
    BY ConcatProperties
  <2> QED BY <2>1, TextIsBytes, LegibleWithAFrame
<1>5. L \in Nat
  <2>1. F \in Seq(1 .. 255)
    OBVIOUS
  <2> HIDE DEF F
  <2> QED BY <2>1, LenProperties
<1> HIDE DEF a
<1>6. /\ all \in Seq(MessageRecords)
      /\ \E gs : /\ CountsDown(new, Len(all), gs)
                 /\ \A i \in 1 .. Len(all) : Frame(all[i]) = FrameAt(a, gs[i])
  BY <1>4, HeardCountsDown
<1>7. PICK gs : /\ CountsDown(new, Len(all), gs)
                /\ \A i \in 1 .. Len(all) : Frame(all[i]) = FrameAt(a, gs[i])
  BY <1>6
<1>8. m \in MessageRecords
  BY DEF IsMessage
<1>9. /\ more \in Seq(MessageRecords) /\ Len(more) = n + 1
      /\ \A i \in 1 .. n : more[i] = heard[i]
      /\ more[n + 1] = m
  BY <1>2, <1>8, AppendProperties
<1> HIDE DEF heard, n, all, more, old, new, L
<1> DEFINE hs == [i \in 1 .. n + 1 |-> IF i <= n THEN <<fs[i][1] + L, fs[i][2] + L>> ELSE last]
<1>10. /\ \A i \in 1 .. n : hs[i] = <<fs[i][1] + L, fs[i][2] + L>>
       /\ hs[n + 1] = last
       /\ \A i \in 1 .. n + 1 : i \in 1 .. n \/ i = n + 1
  BY <1>2
<1>11. /\ \A i \in 1 .. n : fs[i] \in old
       /\ \A f \in old : f[1] \in Int
       /\ \A f \in old : \E i \in 1 .. n : fs[i] = f
       /\ \A i, j \in 1 .. n : i < j => fs[j][1] < fs[i][1]
  BY <1>3 DEF CountsDown
<1>12. \A g \in new : g[1] \in Int
  BY <1>7 DEF CountsDown
<1>13. \A f \in old : f[1] >= 0
  <2>1. ASSUME NEW f \in FramesIn(s) PROVE f[1] >= 0
    <3>1. s \in Seq(0 .. 255) /\ Len(s) \in Nat
      BY TextIsBytes
    <3>2. PICK b \in 1 .. Len(s), e \in 1 .. Len(s) : f = <<Len(s) - b, Len(s) - e>>
      BY <3>1, FramePlaces
    <3> QED BY <3>1, <3>2
  <2> QED BY <2>1 DEF old
<1>14. hs \in [1 .. n + 1 -> new]
  <2>1. ASSUME NEW i \in 1 .. n + 1 PROVE hs[i] \in new
    BY <1>1, <1>10, <1>11
  <2> QED BY <2>1
<1> HIDE DEF hs
<1>15. ASSUME NEW g \in new PROVE \E i \in 1 .. n + 1 : hs[i] = g
  <2>1. CASE g = last
    <3>1. n + 1 \in 1 .. n + 1
      BY <1>2
    <3> QED BY <1>10, <2>1, <3>1
  <2>2. ASSUME NEW f \in old, g = <<f[1] + L, f[2] + L>>
        PROVE  \E i \in 1 .. n + 1 : hs[i] = g
    <3>1. PICK i \in 1 .. n : fs[i] = f
      BY <1>11
    <3>2. i \in 1 .. n + 1 /\ hs[i] = g
      BY <1>2, <1>10, <2>2, <3>1
    <3> QED BY <3>2
  <2> QED BY <1>1, <2>1, <2>2
<1>16. ASSUME NEW i \in 1 .. n + 1, NEW j \in 1 .. n + 1, i < j PROVE hs[j][1] < hs[i][1]
  <2>1. i \in 1 .. n
    BY <1>2, <1>16
  <2>2. hs[i][1] = fs[i][1] + L /\ fs[i][1] \in Int /\ fs[i][1] >= 0
    BY <1>10, <1>11, <1>13, <2>1
  <2>3. CASE j \in 1 .. n
    <3>1. hs[j][1] = fs[j][1] + L /\ fs[j][1] \in Int /\ fs[j][1] < fs[i][1]
      BY <1>10, <1>11, <1>16, <2>1, <2>3
    <3> QED BY <1>5, <2>2, <3>1
  <2>4. CASE j = n + 1
    <3>1. hs[j][1] = L - 1
      BY <1>10, <2>4
    <3> QED BY <1>5, <2>2, <3>1
  <2> QED BY <1>10, <2>3, <2>4
<1>17. CountsDown(new, n + 1, hs)
  <2>1. n + 1 \in Nat
    BY <1>2
  <2> QED BY <1>12, <1>14, <1>15, <1>16, <2>1 DEF CountsDown
<1>18. Len(all) = n + 1 /\ \A i \in 1 .. n + 1 : gs[i] = hs[i]
  BY <1>7, <1>17, CountsAreEqual
<1>19. ASSUME NEW i \in 1 .. n + 1 PROVE all[i] = more[i]
  <2>1. Frame(all[i]) = FrameAt(a, hs[i])
    BY <1>7, <1>18
  <2>2. CASE i \in 1 .. n
    <3>1. FrameAt(a, hs[i]) = FrameAt(s, fs[i])
      BY <1>1, <1>10, <1>11, <2>2
    <3>2. Frame(more[i]) = FrameAt(s, fs[i])
      BY <1>3, <1>9, <2>2
    <3> QED BY <1>6, <1>9, <1>18, <2>1, <3>1, <3>2, FrameIsOfOne, ElementOfSeq
  <2>3. CASE i = n + 1
    <3>1. FrameAt(a, hs[i]) = Frame(m)
      BY <1>1, <1>10, <2>3
    <3>2. all[i] \in MessageRecords
      BY <1>6, <1>18, ElementOfSeq
    <3> QED BY <1>8, <1>9, <2>1, <2>3, <3>1, <3>2, FrameIsOfOne
  <2> QED BY <1>10, <2>2, <2>3
<1>20. all = more
  BY <1>6, <1>9, <1>18, <1>19, SeqEqual
<1> QED BY <1>20 DEF all, more, heard, a

----------------------------------------------------------------------------
(* A line without errors.                                                  *)

(* A sequence is its first element and its tail. *)
LEMMA HeadTailIsAll ==
  ASSUME NEW S, NEW s \in Seq(S), s # <<>>
  PROVE  <<Head(s)>> \o Tail(s) = s
<1> DEFINE h == <<Head(s)>>
           t == Tail(s)
           a == h \o t
           n == Len(t)
<1>1. /\ Head(s) \in S /\ t \in Seq(S) /\ Len(t) = Len(s) - 1 /\ Len(s) \in Nat /\ n \in Nat
      /\ \A i \in 1 .. Len(t) : t[i] = s[i + 1]
  BY HeadTailProperties, LenProperties
<1>2. h \in Seq(S) /\ Len(h) = 1 /\ h[1] = s[1]
  BY <1>1
<1> HIDE DEF h, t
<1>3. /\ a \in Seq(S) /\ Len(a) = 1 + Len(t)
      /\ \A i \in 1 .. 1 + Len(t) : a[i] = IF i <= 1 THEN h[i] ELSE t[i - 1]
  <2>1. h \in Seq(S) /\ t \in Seq(S)
    BY <1>1, <1>2
  <2>2. IsJoined(a, S, h, t)
    BY <2>1, JoinIs
  <2> QED BY <1>2, <2>2 DEF IsJoined
<1> HIDE DEF a
<1>4. ASSUME NEW i \in 1 .. Len(s) PROVE a[i] = s[i]
  <2>1. i \in 1 .. 1 + Len(t)
    BY <1>1
  <2>2. CASE i = 1
    BY <1>2, <1>3, <2>1, <2>2
  <2>3. CASE i # 1
    <3>1. i - 1 \in 1 .. Len(t) /\ ~(i <= 1) /\ (i - 1) + 1 = i
      BY <1>1, <2>1, <2>3
    <3>2. a[i] = t[i - 1]
      BY <1>3, <2>1, <3>1
    <3>3. t[i - 1] = s[(i - 1) + 1]
      BY <1>1, <3>1
    <3> QED BY <3>1, <3>2, <3>3
  <2> QED BY <2>2, <2>3
<1>5. Len(a) = Len(s)
  BY <1>1, <1>3
<1>6. a = s
  BY <1>3, <1>4, <1>5, SeqEqual
<1> QED BY <1>6 DEF a, h, t

(* It does not matter which two of three are put together first.           *)
Associate(s, t, u) == (s \o t) \o u = s \o (t \o u)

(* For queues it is so. *)
LEMMA QueuesAssociate ==
  ASSUME NEW S, NEW s \in Seq(S), NEW t \in Seq(S), NEW u \in Seq(S)
  PROVE  Associate(s, t, u)
  BY ConcatAssociative DEF Associate

(* A rest of the first of two queues is in front of a rest of both. *)
LEMMA RestInFront ==
  ASSUME NEW S, NEW s \in Seq(S), NEW r, IsRest(r, s), NEW t \in Seq(S)
  PROVE  IsRest(r \o t, s \o t)
<1>1. PICK n \in 0 .. Len(s) : r = Drop(s, n)
  BY DEF IsRest
<1> DEFINE p == Take(s, n)
<1>2. Len(s) \in Nat /\ p \in Seq(S) /\ Len(p) = n /\ p \o r = s
  <2>1. Len(s) \in Nat
    BY LenProperties
  <2>2. IsTaken(p, S, s, n)
    BY TakeIs
  <2>3. p \o r = s
    <3>1. 1 \in 1 .. Len(s) + 1 /\ n \in 1 - 1 .. Len(s) /\ Len(s) \in n .. Len(s)
      BY <2>1
    <3>2. SubSeq(s, 1, n) \o SubSeq(s, n + 1, Len(s)) = SubSeq(s, 1, Len(s))
      BY <3>1, ConcatAdjacentSubSeq
    <3>3. SubSeq(s, 1, Len(s)) = s
      BY SubSeqFull
    <3> QED BY <1>1, <3>2, <3>3 DEF Take, Drop
  <2> QED BY <2>1, <2>2, <2>3 DEF IsTaken
<1> HIDE DEF p
<1>3. r \in Seq(S)
  BY RestType
<1> DEFINE u == r \o t
<1>4. s \o t = p \o u
  <2>1. Associate(p, r, t)
    BY <1>2, <1>3, QueuesAssociate
  <2> QED BY <1>2, <2>1 DEF Associate
<1>5. u \in Seq(S) /\ Len(u) \in Nat
  <2>1. u \in Seq(S)
    BY <1>3, ConcatProperties
  <2> HIDE DEF u
  <2> QED BY <2>1, LenProperties
<1> HIDE DEF u
<1> DEFINE a == p \o u
<1>6. a \in Seq(S) /\ Len(a) = n + Len(u)
  BY <1>2, <1>5, ConcatProperties
<1>7. Drop(a, n) = u
  <2>1. CASE Len(u) = 0
    <3>1. u = <<>>
      BY <1>5, <2>1, EmptySeq
    <3>2. Len(a) = n
      BY <1>6, <2>1
    <3>3. SubSeq(a, n + 1, n) = <<>>
      BY SubSeqEmpty
    <3> QED BY <3>1, <3>2, <3>3 DEF Drop
  <2>2. CASE Len(u) > 0
    <3>1. /\ n + 1 \in Len(p) + 1 .. Len(p) + Len(u)
          /\ n + Len(u) \in Len(p) + 1 .. Len(p) + Len(u)
      BY <1>2, <1>5, <2>2
    <3>2. SubSeq(a, n + 1, n + Len(u)) = SubSeq(u, n + 1 - Len(p), n + Len(u) - Len(p))
      BY <1>2, <1>5, <3>1, SubSeqOfConcat2
    <3>3. n + 1 - Len(p) = 1 /\ n + Len(u) - Len(p) = Len(u)
      BY <1>2, <1>5
    <3>4. SubSeq(u, 1, Len(u)) = u
      BY <1>5, SubSeqFull
    <3> QED BY <1>6, <3>2, <3>3, <3>4 DEF Drop
  <2> QED BY <1>5, <2>1, <2>2
<1>8. n \in 0 .. Len(a)
  BY <1>2, <1>5, <1>6
<1> HIDE DEF a
<1>9. IsRest(u, a)
  BY <1>7, <1>8 DEF IsRest
<1> QED BY <1>4, <1>9 DEF a, u

(***************************************************************************)
(* What a host sends that keeps to the format: messages with no frame      *)
(* character in their fields and no more data than a frame holds, and not  *)
(* the one that means that there is none.                                  *)
(***************************************************************************)
PlainMessages ==
  \A m \in Messages :
     IsMessage(m) /\ Plain(m) /\ Len(m.data) <= MAXDATALEN /\ m # NoMessage

(* At i, a whole frame of the host begins. *)
BeginsAFrame(s, i) ==
  \E e : IsFrameFrom(s, i, e) /\ \E m \in Messages : SubSeq(s, i, e) = Frame(m)

(* One begins wherever there is a '>'. *)
Clean(s) == \A i \in 1 .. Len(s) : s[i] = Gt => BeginsAFrame(s, i)

(* What is left of such bytes is such. *)
LEMMA CleanRest ==
  ASSUME ChecksumsAreDigits, NEW s \in Seq(0 .. 255), NEW r, IsRest(r, s), Clean(s)
  PROVE  Clean(r)
<1>1. PICK k \in 0 .. Len(s) : r = Drop(s, k)
  BY DEF IsRest
<1>2. Len(s) \in Nat /\ Len(r) = Len(s) - k /\ \A i \in 1 .. Len(s) - k : r[i] = s[k + i]
  <2>1. Len(s) \in Nat
    BY LenProperties
  <2>2. IsDropped(r, 0 .. 255, s, k)
    BY <1>1, <2>1, DropIs
  <2> QED BY <2>1, <2>2 DEF IsDropped
<1>3. ASSUME NEW i \in 1 .. Len(r), r[i] = Gt PROVE BeginsAFrame(r, i)
  <2>1. PICK j \in 1 .. Len(s) : j = k + i
    BY <1>2
  <2>2. s[j] = Gt
    BY <1>2, <1>3, <2>1
  <2>3. PICK e : IsFrameFrom(s, j, e) /\ \E m \in Messages : SubSeq(s, j, e) = Frame(m)
    BY <2>2 DEF Clean, BeginsAFrame
  <2>4. j <= e
    BY <2>3, FrameSpan
  <2>5. k \in Nat /\ k < j /\ j - k = i
    BY <2>1
  <2>6. /\ IsFrameFrom(Drop(s, k), j - k, e - k)
        /\ IsSamePart(Drop(s, k), j - k, e - k, s, j, e)
    BY <2>3, <2>4, <2>5, FrameBehind
  <2>7. IsFrameFrom(r, i, e - k) /\ SubSeq(r, i, e - k) = SubSeq(s, j, e)
    BY <1>1, <2>5, <2>6 DEF IsSamePart
  <2> QED BY <2>3, <2>7 DEF BeginsAFrame
<1> QED BY <1>3 DEF Clean

(* So are they with a further frame of the host behind them. *)
LEMMA CleanWithAFrame ==
  ASSUME ChecksumsAreDigits, PlainMessages,
         NEW s \in Seq(0 .. 255), Clean(s), NEW m \in Messages
  PROVE  Clean(s \o Frame(m))
<1> DEFINE F == Frame(m)
           L == Len(F)
           n == Len(s)
           a == s \o F
<1>1. /\ F \in Seq(0 .. 255) /\ L > 0 /\ F[1] = Gt /\ F[L] = Nl
      /\ \A i \in 2 .. L : F[i] # Gt
      /\ IsFrame(F)
  <2>1. IsMessage(m) /\ Plain(m) /\ Len(m.data) <= MAXDATALEN
    BY DEF PlainMessages
  <2>2. /\ F \in Seq(0 .. 255) /\ Len(m.data) \in Nat
        /\ L = Len(m.data) + NCHARCHECKSUM + 6
        /\ F[1] = Gt /\ F[L] = Nl /\ \A i \in 2 .. L : F[i] # Gt
        /\ IsFrame(F)
    BY <2>1, PlainFrame
  <2> HIDE DEF F
  <2> QED BY <2>2, Sizes
<1> HIDE DEF F
<1>2. n \in Nat /\ L \in Nat
  BY <1>1, LenProperties
<1>3. Len(a) = n + L /\ \A i \in 1 .. n + L : a[i] = IF i <= n THEN s[i] ELSE F[i - n]
  BY <1>1, ConcatProperties
<1>4. SubSeq(a, n + 1, n + L) = F /\ IsFrameFrom(a, n + 1, n + L)
  BY <1>1, FrameAtTheEnd
<1>5. ASSUME NEW i \in 1 .. n + L, a[i] = Gt PROVE BeginsAFrame(a, i)
  <2>1. CASE i <= n
    <3>1. i \in 1 .. Len(s) /\ s[i] = Gt
      BY <1>2, <1>3, <1>5, <2>1
    <3>2. PICK e : IsFrameFrom(s, i, e) /\ \E q \in Messages : SubSeq(s, i, e) = Frame(q)
      BY <3>1 DEF Clean, BeginsAFrame
    <3>3. e \in 1 .. Len(s)
      BY <3>2 DEF IsFrameFrom
    <3>4. SubSeq(a, i, e) = SubSeq(s, i, e) /\ IsFrameFrom(a, i, e)
      BY <1>1, <3>1, <3>2, <3>3, FrameInFront
    <3> HIDE DEF a, n, L
    <3> QED BY <3>2, <3>4 DEF BeginsAFrame
  <2>2. CASE ~(i <= n)
    <3> HIDE DEF a, n, L
    <3>1. i - n \in 1 .. L /\ F[i - n] = Gt
      BY <1>2, <1>3, <1>5, <2>2
    <3>2. ~(i - n \in 2 .. L)
      BY <1>1, <3>1
    <3>3. i = n + 1
      BY <1>2, <3>1, <3>2
    <3> QED BY <1>4, <3>3 DEF BeginsAFrame, F
  <2> QED BY <2>1, <2>2
<1>6. Clean(a)
  <2> HIDE DEF a, n, L
  <2> QED BY <1>3, <1>5 DEF Clean
<1> QED BY <1>6 DEF a, F

(* A buffer with a whole frame has a '\n' left when it is synchronised. *)
LEMMA FramesHaveEnds ==
  ASSUME ChecksumsAreDigits, NEW buf \in Seq(0 .. 255), FramesIn(buf) # {}
  PROVE  find_first(synchronised(buf), Nl) < Len(synchronised(buf))
<1> DEFINE s == synchronised(buf)
<1>1. PICK f \in FramesIn(buf) : TRUE
  OBVIOUS
<1>2. PICK b, e : IsFrameFrom(buf, b, e)
  BY <1>1, FramesAre
<1>3. b \in 1 .. Len(buf) /\ b <= e /\ Len(buf) \in Nat
  BY <1>2, FrameSpan
<1>4. PICK n \in Nat : n < b /\ s = Drop(buf, n)
  BY <1>2, SynchronisedKeeps
<1>5. IsFrameFrom(Drop(buf, n), b - n, e - n)
  BY <1>2, <1>3, <1>4, FrameBehind
<1>6. s \in Seq(0 .. 255) /\ Len(s) \in Nat
  BY SynchronisedType
<1>7. IsFrameFrom(s, b - n, e - n)
  BY <1>4, <1>5
<1> HIDE DEF s
<1>8. e - n \in 1 .. Len(s) /\ s[e - n] = Nl
  BY <1>7 DEF IsFrameFrom
<1>9. find_first(s, Nl) \in 0 .. Len(s) /\ \A i \in 1 .. find_first(s, Nl) : s[i] # Nl
  BY <1>6, FirstFound
<1>10. ~(e - n \in 1 .. find_first(s, Nl))
  BY <1>8, <1>9
<1>11. find_first(s, Nl) < Len(s)
  BY <1>6, <1>8, <1>9, <1>10
<1> QED BY <1>11 DEF s

(* What is handed over with the checksum in force is so without it. *)
LEMMA HandedOverAnyway ==
  ASSUME NEW s, NEW ignore \in BOOLEAN, get_message(s, FALSE).message # NoMessage
  PROVE  get_message(s, ignore) = get_message(s, FALSE)
<1> DEFINE iEnd == find_first(s, Nl)
           iPeriod == find_first(s, Dot)
           err == checksum_error(Len(s), find_first(s, Gt), iPeriod)
<1>1. \A x, y : Throws(y, x).message = NoMessage /\ Nothing(x).message = NoMessage
  BY DEF Throws, Nothing
<1>2. ASSUME NEW i \in BOOLEAN
      PROVE  get_message(s, i)
               = IF iEnd >= Len(s) THEN Nothing(s)
                 ELSE IF iPeriod > iEnd THEN Throws("INVALID_FRAME_PERIOD", pop_bad_frame(s))
                 ELSE IF ~i /\ err # "none" THEN Throws(err, s)
                 ELSE unpack(s, i)
  BY DEF get_message
<1> HIDE DEF iEnd, iPeriod, err
<1>3. ~(iEnd >= Len(s)) /\ ~(iPeriod > iEnd) /\ get_message(s, FALSE) = unpack(s, FALSE)
  BY <1>1, <1>2
<1>4. get_message(s, TRUE) = unpack(s, TRUE)
  BY <1>2, <1>3
<1>5. unpack(s, TRUE) = unpack(s, FALSE)
  <2> DEFINE body == Drop(s, 4)
             dataLen == find_first(body, Dot)
             popped == 4 + dataLen + (IF find_first(s, Dot) >= 4 THEN 1 ELSE 2)
             tail == Drop(s, popped)
             rest == Drop(tail, NCHARCHECKSUM + 1)
             c == [rest |-> rest, err |-> "none",
                   message |-> Message(s[2], s[3], s[4], Take(body, dataLen))]
             wrong == Take(tail, NCHARCHECKSUM) # input_checksum(s)
  <2>1. ASSUME NEW i \in BOOLEAN
        PROVE  unpack(s, i)
                 = IF popped > Len(s) THEN Throws("CB_POP_EMPTY", <<>>)
                   ELSE IF ~frame_ends(tail) THEN Throws("INVALID_FRAME", tail)
                   ELSE IF ~i /\ wrong THEN Nothing(rest)
                   ELSE c
    BY DEF unpack
  <2> HIDE DEF popped, tail, rest, c, wrong
  <2> QED BY <1>1, <1>3, <2>1
<1> QED BY <1>3, <1>4, <1>5

(***************************************************************************)
(* get_message, with the input buffer in front of the bytes that are still *)
(* to come, and both together clean: it throws nothing, and hands over a   *)
(* message of the host if there is a whole frame.                          *)
(***************************************************************************)
LEMMA CleanIsUnderstood ==
  ASSUME ChecksumsAreDigits, PlainMessages,
         NEW buf \in Seq(0 .. 255), NEW t \in Seq(0 .. 255), Clean(buf \o t),
         NEW ignore \in BOOLEAN, NEW r \in get_message_from_input_buffer(buf, ignore)
  PROVE  /\ r.err = "none" /\ r.message \in Messages \cup {NoMessage}
         /\ FramesIn(buf) # {} => r.message # NoMessage
<1> DEFINE s == synchronised(buf)
           iEnd == find_first(s, Nl)
           u == s \o t
           r0 == get_message(s, FALSE)
<1>1. s \in Seq(0 .. 255) /\ Len(s) \in Nat /\ IsRest(s, buf) /\ iEnd \in 0 .. Len(s)
  <2>1. s \in Seq(0 .. 255) /\ Len(s) \in Nat /\ IsRest(s, buf)
    BY SynchronisedType, SynchronisedRest
  <2> HIDE DEF s
  <2> QED BY <2>1, FirstFound
<1>2. r = get_message(s, ignore)
  BY DEF get_message_from_input_buffer
<1>3. CASE ~(iEnd < Len(s))
  <2>1. r = Nothing(s)
    <3>1. iEnd >= Len(s)
      BY <1>1, <1>3
    <3> QED BY <1>2, <3>1, Zenon DEF get_message
  <2>2. r.err = "none" /\ r.message = NoMessage
    BY <2>1 DEF Nothing
  <2>3. FramesIn(buf) = {}
    BY <1>3, FramesHaveEnds
  <2> QED BY <2>2, <2>3
<1>4. CASE iEnd < Len(s)
  <2>1. s[1] = Gt /\ \A i \in 2 .. iEnd : s[i] # Gt
    <3>1. Gt # Nl
      BY DEF Gt, Nl
    <3> QED BY <1>4, <3>1, Synchronising DEF synchronised
  <2>2. Clean(u)
    <3>1. buf \o t \in Seq(0 .. 255)
      BY ConcatProperties
    <3>2. IsRest(u, buf \o t)
      BY <1>1, RestInFront
    <3> QED BY <3>1, <3>2, CleanRest
  <2>3. s[iEnd + 1] = Nl
    BY <1>1, <1>4, FirstFound
  <2> HIDE DEF s
  <2>4. /\ u \in Seq(0 .. 255) /\ Len(u) = Len(s) + Len(t) /\ Len(t) \in Nat
        /\ \A i \in 1 .. Len(s) : i \in 1 .. Len(u) /\ u[i] = s[i]
    <3>1. /\ u \in Seq(0 .. 255) /\ Len(u) = Len(s) + Len(t)
          /\ \A i \in 1 .. Len(s) + Len(t) : u[i] = IF i <= Len(s) THEN s[i] ELSE t[i - Len(s)]
      BY <1>1, ConcatProperties
    <3>2. Len(t) \in Nat
      BY LenProperties
    <3> HIDE DEF u
    <3> QED BY <1>1, <3>1, <3>2
  <2> HIDE DEF u, iEnd
  <2>5. 1 \in 1 .. Len(s) /\ iEnd + 1 \in 1 .. Len(s)
    BY <1>1, <1>4
  <2>6. PICK e : IsFrameFrom(u, 1, e) /\ \E m \in Messages : SubSeq(u, 1, e) = Frame(m)
    BY <2>1, <2>2, <2>4, <2>5 DEF Clean, BeginsAFrame
  <2>7. e \in 1 .. Len(s)
    <3>1. e \in 1 .. Len(u) /\ \A i \in 1 .. e - 1 : u[i] # Nl
      <4>1. u \in Seq(0 .. 255) /\ IsFrameFrom(u, 1, e)
        BY <2>4, <2>6
      <4> QED BY <4>1, FrameInBuffer
    <3>2. u[iEnd + 1] = Nl
      BY <2>3, <2>4, <2>5
    <3>3. ~(iEnd + 1 \in 1 .. e - 1)
      BY <3>1, <3>2
    <3> QED BY <1>1, <2>4, <2>5, <3>1, <3>3
  <2>8. IsFrameFrom(s, 1, e) /\ SubSeq(u, 1, e) = SubSeq(s, 1, e)
    BY <1>1, <2>5, <2>6, <2>7, FrameInFront DEF u
  <2>9. PICK m \in Messages : SubSeq(s, 1, e) = Frame(m)
    BY <2>6, <2>8
  <2>10. 1 <= iEnd
    <3>1. iEnd # 0
      BY <2>1, <2>3 DEF Gt, Nl
    <3> QED BY <1>1, <3>1
  <2>11. Frame(r0.message) = Frame(m) /\ r0.err = "none"
    BY <1>1, <1>4, <2>1, <2>8, <2>9, <2>10, FrontFrameIsHandedOver DEF iEnd
  <2>12. r0.message \in MessageRecords
    <3>1. r0 \in get_message_from_input_buffer(buf, FALSE)
      BY DEF get_message_from_input_buffer, s
    <3> HIDE DEF r0
    <3>2. IsResult(r0, buf)
      BY <3>1, GetMessageType
    <3> QED BY <3>2 DEF IsResult, IsMessage
  <2>13. m \in MessageRecords /\ m # NoMessage
    BY DEF PlainMessages, IsMessage
  <2> HIDE DEF r0
  <2>14. r0.message = m
    BY <2>11, <2>12, <2>13, FrameIsOfOne
  <2>15. r = r0
    BY <1>2, <2>13, <2>14, HandedOverAnyway DEF r0
  <2> QED BY <2>11, <2>13, <2>14, <2>15
<1> QED BY <1>3, <1>4

(* Without an error of the line, what the host sent is in front and whole. *)
LineIsClean ==
  errors = 0 => Clean(in_buf \o line) /\ CleanLineIsUnderstood

(* A call leaves the end of it. *)
LEMMA CallKeepsClean ==
  ASSUME ChecksumsAreDigits, PlainMessages, TypeOK, LineIsClean, GetMessage
  PROVE  LineIsClean'
<1> SUFFICES ASSUME errors' = 0 PROVE Clean(in_buf' \o line') /\ CleanLineIsUnderstood'
  BY DEF LineIsClean
<1>1. PICK r \in get_message_from_input_buffer(in_buf, ignoreCRCMismatch) :
        in_buf' = r.rest /\ got' = [err |-> r.err, message |-> r.message]
  BY DEF GetMessage
<1>2. /\ in_buf \in Seq(0 .. 255) /\ line \in Seq(0 .. 255) /\ ignoreCRCMismatch \in BOOLEAN
      /\ Clean(in_buf \o line) /\ line' = line
  BY DEF TypeOK, LineIsClean, GetMessage
<1>3. r.err = "none" /\ r.message \in Messages \cup {NoMessage}
  BY <1>2, CleanIsUnderstood
<1>4. IsRest(in_buf', in_buf)
  <2>1. IsResult(r, in_buf)
    BY <1>2, GetMessageType
  <2> QED BY <1>1, <2>1 DEF IsResult
<1>5. Clean(in_buf' \o line')
  <2>1. in_buf \o line \in Seq(0 .. 255)
    BY <1>2, ConcatProperties
  <2>2. IsRest(in_buf' \o line, in_buf \o line)
    BY <1>2, <1>4, RestInFront
  <2> QED BY <1>2, <2>1, <2>2, CleanRest
<1>6. got'.err = "none" /\ got'.message \in Messages \cup {NoMessage}
  BY <1>1, <1>3
<1> QED BY <1>5, <1>6 DEF CleanLineIsUnderstood

(* A byte that arrives is the next of it, or the first of a further frame. *)
LEMMA SendingKeepsClean ==
  ASSUME ChecksumsAreDigits, PlainMessages, TypeOK, LineIsClean, SendByte
  PROVE  LineIsClean'
<1> SUFFICES ASSUME errors' = 0 PROVE Clean(in_buf' \o line') /\ CleanLineIsUnderstood'
  BY DEF LineIsClean
<1>1. PICK frame \in Sending : Arrive(Head(frame)) /\ line' = Tail(frame)
  BY DEF SendByte
<1>2. /\ in_buf \in Seq(0 .. 255) /\ line \in Seq(0 .. 255)
      /\ Clean(in_buf \o line) /\ CleanLineIsUnderstood /\ got' = got /\ errors = 0
  BY DEF TypeOK, LineIsClean, SendByte
<1>3. frame \in Seq(0 .. 255) /\ frame # <<>> /\ Clean(in_buf \o frame)
  <2>1. CASE line = <<>>
    <3>1. PICK m \in Messages : frame = Frame(m)
      BY <2>1 DEF Sending
    <3>2. frame \in Seq(0 .. 255) /\ frame # <<>>
      BY <3>1, LineAssumption
    <3>3. Clean(in_buf)
      BY <1>2, <2>1, ConcatEmptySeq
    <3> QED BY <1>2, <3>1, <3>2, <3>3, CleanWithAFrame
  <2>2. CASE line # <<>>
    BY <1>2, <2>2 DEF Sending
  <2> QED BY <2>1, <2>2
<1> DEFINE h == Head(frame)
           t == Tail(frame)
           a == Append(in_buf, h)
<1>4. h \in 0 .. 255 /\ t \in Seq(0 .. 255)
  BY <1>3, HeadTailProperties
<1>5. a \in Seq(0 .. 255) /\ a \o t = in_buf \o frame
  <2>1. <<h>> \in Seq(0 .. 255)
    BY <1>4
  <2>2. <<h>> \o t = frame
    BY <1>3, HeadTailIsAll
  <2>3. a = in_buf \o <<h>>
    BY <1>2, <1>4, AppendIsConcat
  <2>4. (in_buf \o <<h>>) \o t = in_buf \o (<<h>> \o t)
    <3>1. Associate(in_buf, <<h>>, t)
      BY <1>2, <1>4, <2>1, QueuesAssociate
    <3> QED BY <3>1 DEF Associate
  <2>5. a \in Seq(0 .. 255)
    BY <1>2, <1>4, AppendProperties
  <2> HIDE DEF h, t, a
  <2> QED BY <2>2, <2>3, <2>4, <2>5
<1>6. IsRest(in_buf', a)
  <2>1. in_buf' = KeepLast(a, MAXMESSAGELEN)
    BY <1>1 DEF Arrive
  <2> HIDE DEF a
  <2>2. Len(a) \in Nat /\ MAXMESSAGELEN \in Nat
    BY <1>5, LenProperties, Sizes
  <2>3. CASE Len(a) > MAXMESSAGELEN
    <3>1. Len(a) - MAXMESSAGELEN \in 0 .. Len(a)
      BY <2>2, <2>3
    <3>2. in_buf' = Drop(a, Len(a) - MAXMESSAGELEN)
      BY <2>1, <2>3 DEF KeepLast
    <3> QED BY <3>1, <3>2 DEF IsRest
  <2>4. CASE ~(Len(a) > MAXMESSAGELEN)
    <3>1. in_buf' = a
      BY <2>1, <2>4 DEF KeepLast
    <3> QED BY <1>5, <3>1, AllAndNothingAreRests
  <2> QED BY <2>3, <2>4
<1>7. Clean(in_buf' \o line')
  <2>1. line' = t
    BY <1>1
  <2> HIDE DEF a, t
  <2>2. in_buf \o frame \in Seq(0 .. 255)
    BY <1>2, <1>3, ConcatProperties
  <2>3. IsRest(in_buf' \o t, a \o t)
    BY <1>4, <1>5, <1>6, RestInFront
  <2>4. IsRest(in_buf' \o line', in_buf \o frame)
    BY <1>5, <2>1, <2>3
  <2> QED BY <1>3, <2>2, <2>4, CleanRest
<1> QED BY <1>2, <1>7 DEF CleanLineIsUnderstood

(* So it is clean as long as the line makes no error. *)
LEMMA LineStaysClean ==
  ASSUME ChecksumsAreDigits, PlainMessages
  PROVE  Spec => [](TypeOK /\ LineIsClean)
<1>1. Init => LineIsClean
  <2> SUFFICES ASSUME Init PROVE Clean(in_buf \o line) /\ CleanLineIsUnderstood
    BY DEF LineIsClean
  <2>1. in_buf = <<>> /\ line = <<>> /\ got = [err |-> "none", message |-> NoMessage]
    BY DEF Init
  <2>2. in_buf \o line = <<>> /\ Len(<<>>) = 0
    <3>1. <<>> \in Seq(0 .. 255) /\ Len(<<>>) = 0
      BY EmptySeq
    <3>2. <<>> \o <<>> = <<>>
      BY <3>1, ConcatEmptySeq
    <3> QED BY <2>1, <3>1, <3>2
  <2>3. Clean(in_buf \o line)
    BY <2>2 DEF Clean
  <2>4. got.err = "none" /\ got.message = NoMessage
    BY <2>1
  <2> QED BY <2>3, <2>4 DEF CleanLineIsUnderstood
<1>2. TypeOK /\ LineIsClean /\ [Next]_vars => LineIsClean'
  <2> SUFFICES ASSUME TypeOK, LineIsClean, [Next]_vars PROVE LineIsClean'
    OBVIOUS
  <2>1. CASE GetMessage
    BY <2>1, CallKeepsClean
  <2>2. CASE SendByte
    BY <2>2, SendingKeepsClean
  <2>3. CASE set_ignore_CRC_mismatch \/ unset_ignore_CRC_mismatch \/ UNCHANGED vars
    <3>1. in_buf' = in_buf /\ line' = line /\ got' = got /\ errors' = errors
      BY <2>3 DEF set_ignore_CRC_mismatch, unset_ignore_CRC_mismatch, vars
    <3> QED BY <3>1 DEF LineIsClean, CleanLineIsUnderstood
  <2>4. CASE LoseByte \/ AlterByte \/ AddByte
    <3>1. errors' = errors + 1 /\ errors \in Nat
      BY <2>4 DEF LoseByte, AlterByte, AddByte, TypeOK
    <3>2. errors' # 0
      BY <3>1
    <3> QED BY <3>2 DEF LineIsClean
  <2> QED BY <2>1, <2>2, <2>3, <2>4 DEF Next
<1>3. Spec => []TypeOK
  BY InputTypeOK
<1> QED BY <1>1, <1>2, <1>3, PTL DEF Spec

(***************************************************************************)
(* Without an error of the line, get_message_from_input_buffer never       *)
(* throws and hands over only what the host sent, whatever it sends within *)
(* the format, however often the full input buffer has torn its frames by  *)
(* overwriting, and whether the checksum is in force or not.               *)
(***************************************************************************)
THEOREM InputUnderstandsACleanLine ==
  ASSUME ChecksumsAreDigits, PlainMessages
  PROVE  Spec => []CleanLineIsUnderstood
<1>1. LineIsClean => CleanLineIsUnderstood
  BY DEF LineIsClean, CleanLineIsUnderstood
<1>2. Spec => [](TypeOK /\ LineIsClean)
  BY LineStaysClean
<1> QED BY <1>1, <1>2, PTL

(***************************************************************************)
(* Without an error of the line, each call of get_message_from_input_-     *)
(* buffer hands over a message if there is a whole frame in the buffer.    *)
(***************************************************************************)
THEOREM InputUnpacksACleanLineAtOnce ==
  ASSUME ChecksumsAreDigits, PlainMessages
  PROVE  Spec => CleanLineIsUnpackedAtOnce
<1> DEFINE P == GetMessage /\ errors = 0 /\ FramesIn(in_buf) # {} => Unpacks
<1>1. TypeOK /\ LineIsClean /\ [Next]_vars => [P]_vars
  <2> SUFFICES ASSUME TypeOK, LineIsClean, GetMessage, errors = 0, FramesIn(in_buf) # {}
               PROVE  Unpacks
    OBVIOUS
  <2>1. PICK r \in get_message_from_input_buffer(in_buf, ignoreCRCMismatch) :
          got' = [err |-> r.err, message |-> r.message]
    BY DEF GetMessage
  <2>2. /\ in_buf \in Seq(0 .. 255) /\ line \in Seq(0 .. 255)
        /\ ignoreCRCMismatch \in BOOLEAN /\ Clean(in_buf \o line)
    BY DEF TypeOK, LineIsClean
  <2>3. r.message # NoMessage
    BY <2>2, CleanIsUnderstood
  <2> QED BY <2>1, <2>3 DEF Unpacks
<1>2. Spec => [](TypeOK /\ LineIsClean)
  BY LineStaysClean
<1> QED BY <1>1, <1>2, PTL DEF Spec, CleanLineIsUnpackedAtOnce

(* unpack takes something of a buffer that holds anything. *)
LEMMA UnpackTakes ==
  ASSUME NEW s \in Seq(0 .. 255), NEW ignore \in BOOLEAN, Len(s) > 0
  PROVE  Len(unpack(s, ignore).rest) < Len(s)
<1> DEFINE body == Drop(s, 4)
           dataLen == find_first(body, Dot)
           popped == 4 + dataLen + (IF find_first(s, Dot) >= 4 THEN 1 ELSE 2)
           tail == Drop(s, popped)
           rest == Drop(tail, NCHARCHECKSUM + 1)
           c == [rest |-> rest, err |-> "none",
                 message |-> Message(s[2], s[3], s[4], Take(body, dataLen))]
           r == unpack(s, ignore)
<1>1. Len(s) \in Nat
  BY LenProperties
<1>2. popped \in Nat /\ popped > 0
  <2>1. body \in Seq(0 .. 255)
    BY DropType
  <2> HIDE DEF body
  <2>2. dataLen \in 0 .. Len(body) /\ Len(body) \in Nat
    BY <2>1, FirstFound, LenProperties
  <2> HIDE DEF dataLen
  <2> QED BY <2>2
<1>3. r = IF popped > Len(s) THEN Throws("CB_POP_EMPTY", <<>>)
          ELSE IF ~frame_ends(tail) THEN Throws("INVALID_FRAME", tail)
          ELSE IF ~ignore /\ Take(tail, NCHARCHECKSUM) # input_checksum(s) THEN Nothing(rest)
          ELSE c
  BY DEF unpack
<1>4. \A x, y : Throws(y, x).rest = x /\ Nothing(x).rest = x
  BY DEF Throws, Nothing
<1>5. c.rest = rest
  OBVIOUS
<1> HIDE DEF popped, r, c
<1>6. CASE popped > Len(s)
  <2>1. r.rest = <<>> /\ Len(<<>>) = 0
    BY <1>3, <1>4, <1>6, EmptySeq
  <2> QED BY <1>1, <2>1 DEF r
<1>7. CASE ~(popped > Len(s))
  <2>1. tail \in Seq(0 .. 255) /\ Len(tail) = Len(s) - popped
    <3>1. popped \in 0 .. Len(s)
      BY <1>1, <1>2, <1>7
    <3> QED BY <3>1, Dropping
  <2> HIDE DEF tail
  <2>2. Len(rest) \in Nat /\ Len(rest) <= Len(tail)
    <3>1. NCHARCHECKSUM + 1 \in Nat
      BY Sizes
    <3> QED BY <2>1, <3>1, DropType
  <2>3. r.rest = tail \/ r.rest = rest
    BY <1>3, <1>4, <1>5, <1>7
  <2> HIDE DEF rest
  <2>4. Len(r.rest) < Len(s)
    BY <1>1, <1>2, <2>1, <2>2, <2>3
  <2> QED BY <2>4 DEF r
<1> QED BY <1>6, <1>7

(* So does a call on a buffer with a whole frame, unless it refuses the    *)
(* front.                                                                  *)
LEMMA Moving ==
  ASSUME ChecksumsAreDigits, NEW buf \in Seq(0 .. 255), FramesIn(buf) # {},
         NEW ignore \in BOOLEAN, ignore \/ ~Refused(buf),
         NEW r \in get_message_from_input_buffer(buf, ignore)
  PROVE  Len(r.rest) < Len(buf)
<1>1. Len(r.rest) \in Nat /\ Len(r.rest) <= Len(buf) /\ Len(buf) \in Nat
  <2>1. IsRest(r.rest, buf)
    BY GetMessageType DEF IsResult
  <2> QED BY <2>1, RestType, LenProperties
<1>2. CASE ignore = FALSE
  <2>1. Len(r.rest) = Len(buf) => FALSE
    BY <1>2, Staying, NoNlNoFrame
  <2> QED BY <1>1, <2>1
<1>3. CASE ignore = TRUE
  <2> DEFINE s == synchronised(buf)
             iEnd == find_first(s, Nl)
             n == Min(Where(s, Nl))
  <2>1. s \in Seq(0 .. 255) /\ Len(s) \in Nat /\ Len(s) <= Len(buf)
    BY SynchronisedType
  <2>2. iEnd < Len(s)
    BY FramesHaveEnds
  <2>3. r = get_message(s, TRUE)
    BY <1>3 DEF get_message_from_input_buffer
  <2> HIDE DEF s
  <2>4. iEnd \in 0 .. Len(s) - 1 /\ s[iEnd + 1] = Nl
    <3>1. iEnd \in 0 .. Len(s) /\ (iEnd < Len(s) => s[iEnd + 1] = Nl)
      BY <2>1, FirstFound
    <3> HIDE DEF iEnd
    <3> QED BY <2>1, <2>2, <3>1
  <2>5. r = Throws("INVALID_FRAME_PERIOD", pop_bad_frame(s)) \/ r = unpack(s, TRUE)
    <3>1. ~(iEnd >= Len(s))
      BY <2>1, <2>4
    <3> QED BY <2>3, <3>1, Zenon DEF get_message
  <2>6. Len(pop_bad_frame(s)) < Len(s)
    <3>1. Where(s, Nl) # {} /\ Where(s, Nl) \in SUBSET Nat
      <4>1. iEnd + 1 \in 1 .. Len(s)
        BY <2>1, <2>4
      <4> HIDE DEF iEnd
      <4> QED BY <2>1, <2>4, <4>1, WhereType DEF Where
    <3>2. n \in 1 .. Len(s)
      <4>1. n \in Where(s, Nl)
        BY <3>1, MinIsLeast
      <4> QED BY <4>1 DEF Where
    <3>3. pop_bad_frame(s) = Drop(s, n)
      BY <3>1 DEF pop_bad_frame, remove_front_to
    <3> HIDE DEF n
    <3>4. Len(Drop(s, n)) = Len(s) - n
      <4>1. n \in 0 .. Len(s)
        BY <2>1, <3>2
      <4> QED BY <2>1, <4>1, Dropping
    <3> QED BY <2>1, <3>2, <3>3, <3>4
  <2>7. Len(unpack(s, TRUE).rest) < Len(s)
    <3>1. Len(s) > 0
      BY <2>1, <2>4
    <3> QED BY <2>1, <3>1, UnpackTakes
  <2>8. Len(r.rest) < Len(s)
    <3>1. \A x, y : Throws(y, x).rest = x
      BY DEF Throws
    <3> QED BY <2>5, <2>6, <2>7, <3>1
  <2> QED BY <1>1, <2>1, <2>8
<1> QED BY <1>2, <1>3

(***************************************************************************)
(* However the line tore the bytes, a call of get_message_from_input_-     *)
(* buffer with a whole frame in the buffer takes some of them, unless      *)
(* compute_checksum refuses those in front.  The buffer being finite,      *)
(* repeated calls come to the frame.                                       *)
(***************************************************************************)
THEOREM InputCallsMakeProgress ==
  ASSUME ChecksumsAreDigits
  PROVE  Spec => CallsMakeProgress
<1> DEFINE P == GetMessage /\ FramesIn(in_buf) # {} /\ (ignoreCRCMismatch \/ ~Refused(in_buf))
                  => Len(in_buf') < Len(in_buf)
<1>1. TypeOK /\ [Next]_vars => [P]_vars
  <2> SUFFICES ASSUME TypeOK, GetMessage, FramesIn(in_buf) # {},
                      ignoreCRCMismatch \/ ~Refused(in_buf)
               PROVE  Len(in_buf') < Len(in_buf)
    OBVIOUS
  <2>1. PICK r \in get_message_from_input_buffer(in_buf, ignoreCRCMismatch) : in_buf' = r.rest
    BY DEF GetMessage
  <2>2. in_buf \in Seq(0 .. 255) /\ ignoreCRCMismatch \in BOOLEAN
    BY DEF TypeOK
  <2> QED BY <2>1, <2>2, Moving
<1>2. Spec => []TypeOK
  BY InputTypeOK
<1> QED BY <1>1, <1>2, PTL DEF Spec, CallsMakeProgress

=============================================================================
