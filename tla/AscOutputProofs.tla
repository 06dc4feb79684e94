-------------------------- MODULE AscOutputProofs ---------------------------
(***************************************************************************)
(* What the three put functions leave in the output buffer, and what a     *)
(* host that listens gets of it, for every size of buffer and checksum and *)
(* all messages, if the checksum has its NCHARCHECKSUM characters (digits, *)
(* for the host).                                                          *)
(***************************************************************************)
EXTENDS AscLink, ByteQueueLemmas

(* What is proved of get_message_from_input_buffer, which the host calls.  *)
In == INSTANCE AscInputProofs
        WITH Messages <- {}, NoiseBytes <- {}, MaxErrors <- 0,
             in_buf <- <<>>, ignoreCRCMismatch <- FALSE, got <- NoMessage,
             line <- <<>>, errors <- 0

(* The sizes are naturals. *)
LEMMA Sizes ==
  /\ MAXMESSAGELEN \in Nat /\ MAXDATALEN \in Nat /\ MAXMESSAGELEN > 0
  /\ NCHARCHECKSUM \in Nat /\ NCHARCHECKSUM > 0
  /\ MAXMESSAGELEN = MAXDATALEN + NCHARCHECKSUM + 6
  BY SizesAssumption

Bytes == Seq(0 .. 255)

(* convert_uint16_to_hex writes four characters, whatever the checksum.    *)
CrcYieldsDigits == \A s \in Bytes : Crc(s) \in Bytes /\ Len(Crc(s)) = NCHARCHECKSUM

Buffers == [bytes : Bytes, iStart : 0 .. MAXMESSAGELEN - 1]

IsMessage(m) ==
  /\ m.ascVersion \in 0 .. 255 /\ m.appVersion \in 0 .. 255 /\ m.command \in 0 .. 255
  /\ m.data \in Bytes

----------------------------------------------------------------------------
(* A remainder is below its divisor. *)
LEMMA Remainder ==
  ASSUME NEW n \in Nat, NEW d \in Nat, d > 0
  PROVE  (n % d) \in 0 .. d - 1
  OBVIOUS

(* Small numbers are their own remainder. *)
LEMMA SmallRemainder ==
  ASSUME NEW d \in Nat, NEW n \in 0 .. d - 1
  PROVE  (n % d) = n
  OBVIOUS

(* The two characters of a byte. *)
LEMMA HexOfByte ==
  ASSUME NEW n \in 0 .. 255
  PROVE  convert_uint8_to_hex(n) \in Bytes /\ Len(convert_uint8_to_hex(n)) = 2
<1>1. n \div 16 \in 0 .. 15 /\ (n % 16) \in 0 .. 15
  OBVIOUS
<1>2. \A d \in 0 .. 15 : hex_digit(d) \in 0 .. 255
  BY DEF hex_digit
<1>3. hex_digit(n \div 16) \in 0 .. 255 /\ hex_digit(n % 16) \in 0 .. 255
  BY <1>1, <1>2
<1> QED BY <1>3 DEF convert_uint8_to_hex, Bytes

(* From '>' to '.', with nothing between them that could be taken for '>'. *)
LEMMA BodyOf ==
  ASSUME NEW m, IsMessage(m)
  PROVE  /\ Body(m) \in Bytes
         /\ Len(m.data) \in Nat /\ Len(Body(m)) = Len(m.data) + 5
         /\ Body(m)[1] = Gt /\ Body(m)[Len(m.data) + 5] = Dot
         /\ Plain(m) => \A i \in 2 .. Len(m.data) + 5 : Body(m)[i] # Gt
<1> DEFINE head == <<Gt, m.ascVersion, m.appVersion, m.command>>
           data == m.data
           last == <<Dot>>
           hd == head \o data
           b == hd \o last
<1>1. head \in Bytes /\ Len(head) = 4 /\ last \in Bytes /\ Len(last) = 1
  BY DEF IsMessage, Bytes, Gt, Dot
<1>2. /\ head[1] = Gt /\ head[2] = m.ascVersion /\ head[3] = m.appVersion
      /\ head[4] = m.command /\ last[1] = Dot
  OBVIOUS
<1>3. data \in Bytes /\ Len(data) \in Nat
  BY LenProperties DEF IsMessage, Bytes
<1>4. Body(m) = b
  BY DEF Body
<1> HIDE DEF head, data, last
<1>5. /\ hd \in Bytes /\ Len(hd) = Len(head) + Len(data)
      /\ \A i \in 1 .. Len(head) + Len(data) :
            hd[i] = IF i <= Len(head) THEN head[i] ELSE data[i - Len(head)]
  <2>1. head \in Seq(0 .. 255) /\ data \in Seq(0 .. 255)
    BY <1>1, <1>3 DEF Bytes
  <2>2. IsJoined(hd, 0 .. 255, head, data)
    BY <2>1, JoinIs
  <2> HIDE DEF hd
  <2> QED BY <2>2 DEF IsJoined, Bytes
<1> HIDE DEF hd
<1>6. /\ b \in Bytes /\ Len(b) = Len(hd) + Len(last)
      /\ \A i \in 1 .. Len(hd) + Len(last) :
            b[i] = IF i <= Len(hd) THEN hd[i] ELSE last[i - Len(hd)]
  <2>1. hd \in Bytes /\ last \in Bytes
    BY <1>1, <1>5
  <2> QED BY <2>1, ConcatProperties DEF Bytes
<1> HIDE DEF b
<1>7. Len(hd) = Len(data) + 4 /\ Len(b) = Len(data) + 5
  BY <1>1, <1>3, <1>5, <1>6
<1>8. ASSUME NEW i \in 1 .. 4 PROVE b[i] = head[i]
  BY <1>1, <1>3, <1>5, <1>6, <1>7
<1>9. ASSUME NEW i \in 1 .. Len(data) PROVE b[i + 4] = data[i]
  <2>1. /\ i + 4 \in 1 .. Len(head) + Len(data) /\ ~(i + 4 <= Len(head))
        /\ i + 4 - Len(head) = i /\ i + 4 <= Len(hd) /\ i + 4 \in 1 .. Len(hd) + Len(last)
    BY <1>1, <1>3, <1>7
  <2>2. hd[i + 4] = data[i]
    BY <1>5, <2>1
  <2> QED BY <1>6, <2>1, <2>2
<1>10. b[Len(data) + 5] = Dot
  <2>1. /\ Len(data) + 5 \in 1 .. Len(hd) + Len(last) /\ ~(Len(data) + 5 <= Len(hd))
        /\ Len(data) + 5 - Len(hd) = 1
    BY <1>1, <1>3, <1>7
  <2> QED BY <1>2, <1>6, <2>1
<1>11. ASSUME Plain(m), NEW i \in 2 .. Len(data) + 5 PROVE b[i] # Gt
  <2>1. CASE i <= 4
    <3>1. i = 2 \/ i = 3 \/ i = 4
      BY <2>1
    <3>2. m.ascVersion # Gt /\ m.appVersion # Gt /\ m.command # Gt
      BY <1>11 DEF Plain, Delimiters
    <3> QED BY <1>2, <1>8, <3>1, <3>2
  <2>2. CASE i > 4 /\ i <= Len(data) + 4
    <3>1. i - 4 \in 1 .. Len(data) /\ i - 4 + 4 = i
      BY <1>3, <2>2
    <3>2. data[i - 4] # Gt
      BY <1>11, <3>1 DEF Plain, Delimiters, data
    <3>3. b[i - 4 + 4] = data[i - 4]
      BY <1>9, <3>1
    <3> QED BY <3>1, <3>2, <3>3
  <2>3. CASE i = Len(data) + 5
    BY <1>10, <2>3 DEF Gt, Dot
  <2>4. i <= 4 \/ (i > 4 /\ i <= Len(data) + 4) \/ i = Len(data) + 5
    BY <1>3
  <2> QED BY <2>1, <2>2, <2>3, <2>4
<1>12. b[1] = Gt
  BY <1>2, <1>8
<1> QED BY <1>3, <1>4, <1>6, <1>7, <1>10, <1>11, <1>12 DEF data

----------------------------------------------------------------------------
(* Pushing keeps the bytes, and the place of the front in the memory. *)
LEMMA PushType ==
  ASSUME NEW buf \in Buffers, NEW more \in Bytes
  PROVE  /\ push_all(buf, more) \in Buffers
         /\ Len(push_all(buf, more).bytes) \in Nat
         /\ Len(push_all(buf, more).bytes) <= MAXMESSAGELEN
<1> DEFINE all == buf.bytes \o more
           lost == IF Len(all) > MAXMESSAGELEN THEN Len(all) - MAXMESSAGELEN ELSE 0
           iStart == (buf.iStart + lost) % MAXMESSAGELEN
           kept == KeepLast(all, MAXMESSAGELEN)
<1>1. buf.bytes \in Bytes /\ buf.iStart \in 0 .. MAXMESSAGELEN - 1
  BY DEF Buffers
<1>2. all \in Bytes /\ Len(all) \in Nat
  BY <1>1, ConcatProperties, LenProperties DEF Bytes
<1>3. push_all(buf, more) = [bytes |-> kept, iStart |-> iStart]
  BY DEF push_all
<1> HIDE DEF all
<1>4. iStart \in 0 .. MAXMESSAGELEN - 1
  <2>1. buf.iStart + lost \in Nat
    BY <1>1, <1>2, Sizes
  <2> HIDE DEF lost
  <2> QED BY <2>1, Sizes, Remainder
<1>5. kept \in Bytes /\ Len(kept) = IF Len(all) > MAXMESSAGELEN THEN MAXMESSAGELEN ELSE Len(all)
  BY <1>2, Sizes, Keeping DEF Bytes
<1> HIDE DEF kept, iStart
<1> QED BY <1>2, <1>3, <1>4, <1>5, Sizes DEF Buffers

(* Nothing is lost if there is room. *)
LEMMA PushFits ==
  ASSUME NEW buf \in Buffers, NEW more \in Bytes,
         Len(buf.bytes) + Len(more) <= MAXMESSAGELEN
  PROVE  push_all(buf, more) = [bytes |-> buf.bytes \o more, iStart |-> buf.iStart]
<1> DEFINE all == buf.bytes \o more
<1>1. buf.bytes \in Bytes /\ buf.iStart \in 0 .. MAXMESSAGELEN - 1
  BY DEF Buffers
<1>2. Len(all) = Len(buf.bytes) + Len(more)
  BY <1>1, ConcatProperties DEF Bytes
<1> HIDE DEF all
<1>3. ~(Len(all) > MAXMESSAGELEN)
  <2>1. Len(buf.bytes) \in Nat /\ Len(more) \in Nat
    BY <1>1, LenProperties DEF Bytes
  <2> QED BY <1>2, <2>1, Sizes
<1>4. (buf.iStart + 0) % MAXMESSAGELEN = buf.iStart
  <2>1. buf.iStart + 0 = buf.iStart
    BY <1>1
  <2>2. (buf.iStart % MAXMESSAGELEN) = buf.iStart
    BY <1>1, Sizes, SmallRemainder
  <2> QED BY <2>1, <2>2
<1>5. KeepLast(all, MAXMESSAGELEN) = all
  BY <1>3 DEF KeepLast
<1> QED BY <1>3, <1>4, <1>5 DEF push_all, all

(***************************************************************************)
(* Where compute_checksum finds the '>' and the '.' of a message that is   *)
(* not too long: it stands whole at the back of the buffer, whatever was   *)
(* pushed out in front.                                                    *)
(***************************************************************************)
LEMMA PackedFrame ==
  ASSUME NEW buf \in Buffers, NEW m, IsMessage(m), Plain(m), Len(m.data) <= MAXDATALEN
  PROVE  LET packed == push_all(buf, Body(m))
             len == Len(packed.bytes)
         IN  /\ len = IF Len(buf.bytes) + Len(m.data) + 5 > MAXMESSAGELEN
                      THEN MAXMESSAGELEN ELSE Len(buf.bytes) + Len(m.data) + 5
             /\ StopOf(packed) = len - 1
             /\ StartOf(packed) = len - (Len(m.data) + 5)
             /\ len \in Nat /\ len >= Len(m.data) + 5
<1> DEFINE b == Body(m)
           L == Len(m.data) + 5
           all == buf.bytes \o b
           packed == push_all(buf, b)
           k == KeepLast(all, MAXMESSAGELEN)
           len == Len(k)
<1>1. buf.bytes \in Bytes /\ Len(buf.bytes) \in Nat
  BY LenProperties DEF Buffers, Bytes
<1>2. /\ b \in Bytes /\ Len(m.data) \in Nat /\ Len(b) = L
      /\ b[1] = Gt /\ b[L] = Dot
      /\ \A i \in 2 .. L : b[i] # Gt
  BY BodyOf
<1> HIDE DEF b
<1>3. /\ all \in Bytes /\ Len(all) = Len(buf.bytes) + Len(b)
      /\ \A i \in 1 .. Len(buf.bytes) + Len(b) :
            all[i] = IF i <= Len(buf.bytes) THEN buf.bytes[i] ELSE b[i - Len(buf.bytes)]
  <2> DEFINE a == buf.bytes
  <2>1. a \in Seq(0 .. 255) /\ b \in Seq(0 .. 255)
    BY <1>1, <1>2 DEF Bytes
  <2> HIDE DEF a
  <2>2. /\ a \o b \in Seq(0 .. 255) /\ Len(a \o b) = Len(a) + Len(b)
        /\ \A i \in 1 .. Len(a) + Len(b) :
              (a \o b)[i] = IF i <= Len(a) THEN a[i] ELSE b[i - Len(a)]
    BY <2>1, ConcatProperties
  <2> QED BY <2>2 DEF a, Bytes
<1>4. packed.bytes = k
  BY DEF push_all
<1> HIDE DEF all
<1>5. /\ k \in Bytes
      /\ len = IF Len(all) > MAXMESSAGELEN THEN MAXMESSAGELEN ELSE Len(all)
      /\ \A i \in 1 .. len : k[i] = all[Len(all) - len + i]
  <2>1. all \in Seq(0 .. 255) /\ MAXMESSAGELEN \in Nat
    BY <1>3, Sizes DEF Bytes
  <2> QED BY <2>1, Keeping DEF Bytes
<1> HIDE DEF k
<1>6. L \in Nat /\ L >= 5 /\ L <= MAXMESSAGELEN /\ Len(all) = Len(buf.bytes) + L
  <2>1. L \in Nat /\ L >= 5
    BY <1>2
  <2>2. L <= MAXMESSAGELEN
    BY <1>2, Sizes
  <2> QED BY <1>2, <1>3, <2>1, <2>2
<1> HIDE DEF L
<1>7. /\ len \in Nat /\ len >= L
      /\ len = IF Len(buf.bytes) + L > MAXMESSAGELEN THEN MAXMESSAGELEN
               ELSE Len(buf.bytes) + L
  BY <1>1, <1>5, <1>6, Sizes
<1>8. ASSUME NEW j \in 1 .. L PROVE k[len - L + j] = b[j]
  <2>1. len - L + j \in 1 .. len /\ Len(all) - len + (len - L + j) = Len(buf.bytes) + j
    BY <1>1, <1>6, <1>7
  <2>2. k[len - L + j] = all[Len(all) - len + (len - L + j)]
    BY <1>5, <2>1
  <2>3. /\ Len(buf.bytes) + j \in 1 .. Len(buf.bytes) + Len(b)
        /\ ~(Len(buf.bytes) + j <= Len(buf.bytes))
        /\ Len(buf.bytes) + j - Len(buf.bytes) = j
    BY <1>1, <1>2, <1>6
  <2>4. all[Len(buf.bytes) + j] = b[j]
    BY <1>3, <2>3
  <2> QED BY <2>1, <2>2, <2>4
<1>9. find_last(k, Dot) = len - 1
  <2>1. L \in 1 .. L /\ len - L + L = len /\ len - 1 + 1 = len /\ len - 1 \in 0 .. len - 1
    BY <1>6, <1>7
  <2>2. k[len] = Dot
    BY <1>2, <1>8, <2>1
  <2> DEFINE f == len - 1
  <2>3. f \in 0 .. Len(k) - 1 /\ k[f + 1] = Dot /\ \A i \in f + 2 .. Len(k) : k[i] # Dot
    <3>1. \A i \in f + 2 .. len : FALSE
      BY <1>7
    <3> QED BY <2>1, <2>2, <3>1
  <2> HIDE DEF f
  <2>4. find_last(k, Dot) = f
    BY <1>5, <2>3, LastIs DEF Bytes
  <2> QED BY <2>4 DEF f
<1>10. find_last(k, Gt) = len - L
  <2> DEFINE f == len - L
  <2>1. f \in 0 .. len - 1 /\ 1 \in 1 .. L
    BY <1>6, <1>7
  <2>2. k[f + 1] = Gt
    BY <1>2, <1>8, <2>1
  <2>3. ASSUME NEW i \in f + 2 .. len PROVE k[i] # Gt
    <3>1. i - f \in 1 .. L /\ i - f \in 2 .. L /\ len - L + (i - f) = i
      BY <1>6, <1>7
    <3>2. k[len - L + (i - f)] = b[i - f]
      BY <1>8, <3>1
    <3>3. b[i - f] # Gt
      BY <1>2, <3>1 DEF L
    <3> QED BY <3>1, <3>2, <3>3
  <2> HIDE DEF f
  <2>4. find_last(k, Gt) = f
    BY <1>5, <2>1, <2>2, <2>3, LastIs DEF Bytes
  <2> QED BY <2>4 DEF f
<1>11. Len(packed.bytes) = len /\ StopOf(packed) = len - 1 /\ StartOf(packed) = len - L
  BY <1>4, <1>9, <1>10 DEF StopOf, StartOf
<1>12. Len(buf.bytes) + Len(m.data) + 5 = Len(buf.bytes) + L
  <2> DEFINE x == Len(buf.bytes)
             y == Len(m.data)
  <2>1. x \in Nat /\ y \in Nat
    BY <1>1, <1>2
  <2>2. L = y + 5
    BY DEF L
  <2> HIDE DEF x, y
  <2>3. x + y + 5 = x + L
    BY <2>1, <2>2
  <2> QED BY <2>3 DEF x, y
<1> HIDE DEF packed, len
<1> QED BY <1>7, <1>11, <1>12 DEF packed, len, L, b

(***************************************************************************)
(* A plain message that is not too long: refused if it does not fit, or    *)
(* else accepted.  If the content does not wrap, it is then in the buffer  *)
(* as its frame.                                                           *)
(***************************************************************************)
LEMMA Packing ==
  ASSUME CrcYieldsDigits,
         NEW buf \in Buffers, NEW m, IsMessage(m), Plain(m), Len(m.data) <= MAXDATALEN,
         NEW outcome \in put_message(buf, m)
  PROVE  LET fits == Len(buf.bytes) + Len(m.data) + NCHARCHECKSUM + 6 <= MAXMESSAGELEN
         IN  /\ ~fits => outcome.err = "CHECKSUM_PROBLEM"
             /\ fits => outcome.err \in {"none", "crashed"}
             /\ outcome.err = "none" /\ ~wraps(buf)
                  => outcome.buf.bytes = buf.bytes \o Frame(m)
<1> DEFINE b == Body(m)
           lb == Len(buf.bytes)
           ld == Len(m.data)
           packed == push_all(buf, b)
           len == Len(packed.bytes)
           refusal == checksum_error(len, StartOf(packed), StopOf(packed))
           fits == lb + ld + NCHARCHECKSUM + 6 <= MAXMESSAGELEN
           sums == output_checksums(packed)
<1>1. buf.bytes \in Bytes /\ buf.iStart \in Nat /\ lb = Len(buf.bytes)
  BY DEF Buffers, Bytes
<1>2. b \in Bytes /\ Len(b) = ld + 5
  BY BodyOf
<1>3. lb \in Nat /\ ld \in Nat /\ ld <= MAXDATALEN
  BY <1>1, BodyOf, LenProperties DEF Bytes
<1>4. /\ len = IF lb + ld + 5 > MAXMESSAGELEN
               THEN MAXMESSAGELEN ELSE lb + ld + 5
      /\ StopOf(packed) = len - 1
      /\ StartOf(packed) = len - (ld + 5)
      /\ len \in Nat /\ len >= ld + 5
  BY PackedFrame
<1>5. wraps(buf) <=> buf.iStart + lb > MAXMESSAGELEN
  BY DEF wraps
<1>6. put_message(buf, m)
        = IF refusal # "none" THEN {Outcome(packed, refusal)}
          ELSE {Outcome(push_all(packed, checksum \o <<Nl>>), "none") : checksum \in sums}
               \cup IF RunsOut(packed) THEN {Outcome(packed, "crashed")} ELSE {}
  <2>1. ~(ld > MAXDATALEN)
    BY <1>3, Sizes
  <2> QED BY <2>1, Zenon DEF put_message
<1> HIDE DEF b, packed, sums, lb, ld
<1>7. ~fits => refusal = "CHECKSUM_PROBLEM"
  <2> SUFFICES ASSUME ~fits PROVE refusal = "CHECKSUM_PROBLEM"
    OBVIOUS
  <2> HIDE DEF len
  <2>1. len - 1 >= MAXMESSAGELEN - NCHARCHECKSUM - 1 /\ len - 1 < len
    BY <1>3, <1>4, Sizes
  <2>2. len - (ld + 5) < len
    BY <1>3, <1>4
  <2> QED BY <1>3, <1>4, <2>1, <2>2, Sizes DEF checksum_error
<1>8. fits => refusal = "none" /\ len = lb + ld + 5
  <2> SUFFICES ASSUME fits PROVE refusal = "none" /\ len = lb + ld + 5
    OBVIOUS
  <2> HIDE DEF len
  <2>1. len = lb + ld + 5 /\ len - 1 < MAXMESSAGELEN - NCHARCHECKSUM - 1
    BY <1>3, <1>4, Sizes
  <2>2. /\ len - (ld + 5) < len /\ len - 1 < len
        /\ ~(len - 1 - (len - (ld + 5)) < 4)
    BY <1>3, <1>4
  <2>3. /\ ~(len - (ld + 5) >= len) /\ ~(len - 1 >= len)
        /\ ~(len - 1 >= MAXMESSAGELEN - NCHARCHECKSUM - 1)
    BY <1>3, <1>4, <2>1, <2>2, Sizes
  <2> QED BY <1>4, <2>1, <2>2, <2>3 DEF checksum_error
<1>9. ~fits => outcome.err = "CHECKSUM_PROBLEM"
  <2> SUFFICES ASSUME ~fits PROVE outcome.err = "CHECKSUM_PROBLEM"
    OBVIOUS
  <2>1. refusal = "CHECKSUM_PROBLEM"
    BY <1>7
  <2> HIDE DEF refusal, fits
  <2>2. outcome = Outcome(packed, refusal)
    BY <1>6, <2>1
  <2> QED BY <2>1, <2>2 DEF Outcome
<1>10. ASSUME fits PROVE outcome.err \in {"none", "crashed"}
  <2>1. refusal = "none"
    BY <1>8, <1>10
  <2> HIDE DEF refusal, fits
  <2>2. outcome.err = "none" \/ outcome.err = "crashed"
    BY <1>6, <2>1 DEF Outcome
  <2> QED BY <2>2
<1>11. ASSUME outcome.err = "none", ~wraps(buf)
      PROVE  outcome.buf.bytes = buf.bytes \o Frame(m)
  <2>1. fits
    BY <1>9, <1>11
  <2>2. refusal = "none" /\ len = lb + ld + 5
    BY <1>8, <2>1
  <2>3. packed = [bytes |-> buf.bytes \o b, iStart |-> buf.iStart]
    <3>1. lb + Len(b) <= MAXMESSAGELEN
      BY <1>2, <1>3, <2>1, Sizes
    <3> QED BY <1>2, <3>1, PushFits DEF packed, lb
  <2>4. ~RunsOut(packed)
    <3>1. StartOf(packed) = lb
      <4> HIDE DEF len
      <4> QED BY <1>3, <1>4, <2>2
    <3>2. packed.iStart = buf.iStart
      BY <2>3
    <3> QED BY <1>11, <1>5, <3>1, <3>2 DEF RunsOut
  <2>5. sums = {Crc(b)}
    <3> DEFINE all == buf.bytes \o b
    <3>1. packed.bytes = all
      BY <2>3
    <3>2. StartOf(packed) + 1 = lb + 1 /\ StopOf(packed) + 1 = lb + Len(b)
      <4> HIDE DEF len
      <4> QED BY <1>2, <1>3, <1>4, <2>2
    <3>3. SubSeq(all, lb + 1, lb + Len(b)) = b
      <4>1. /\ lb + 1 \in lb + 1 .. lb + Len(b) /\ lb + Len(b) \in lb + 1 .. lb + Len(b)
            /\ lb + 1 - lb = 1 /\ lb + Len(b) - lb = Len(b)
        BY <1>2, <1>3
      <4> DEFINE a == buf.bytes
      <4>2. a \in Seq(0 .. 255) /\ b \in Seq(0 .. 255)
        BY <1>1, <1>2 DEF Bytes
      <4>3. lb = Len(a)
        BY <1>1
      <4> HIDE DEF a
      <4>4. SubSeq(a \o b, lb + 1, lb + Len(b)) = SubSeq(b, lb + 1 - lb, lb + Len(b) - lb)
        BY <4>1, <4>2, <4>3, SubSeqOfConcat2
      <4>5. SubSeq(b, 1, Len(b)) = b
        BY <4>2, SubSeqFull
      <4> QED BY <4>1, <4>4, <4>5 DEF a
    <3> HIDE DEF all
    <3> QED BY <2>4, <3>1, <3>2, <3>3 DEF output_checksums, sums
  <2> DEFINE more == Crc(b) \o <<Nl>>
  <2>6. outcome.buf = push_all(packed, more)
    <3> HIDE DEF refusal, fits
    <3>1. outcome = Outcome(push_all(packed, more), "none")
      BY <1>6, <2>2, <2>4, <2>5
    <3> QED BY <3>1 DEF Outcome
  <2>7. Crc(b) \in Bytes /\ Len(Crc(b)) = NCHARCHECKSUM /\ <<Nl>> \in Bytes /\ Len(<<Nl>>) = 1
    BY <1>2 DEF CrcYieldsDigits, Bytes, Nl
  <2>8. more \in Bytes /\ Len(more) = NCHARCHECKSUM + 1
    BY <2>7, ConcatProperties DEF Bytes
  <2>9. push_all(packed, more).bytes = packed.bytes \o more
    <3>1. packed \in Buffers
      BY <1>2, PushType DEF packed
    <3>2. Len(packed.bytes) + Len(more) <= MAXMESSAGELEN
      <4> HIDE DEF more
      <4>1. len + (NCHARCHECKSUM + 1) <= MAXMESSAGELEN
        <5> HIDE DEF len
        <5> QED BY <1>3, <2>1, <2>2, Sizes
      <4> QED BY <2>8, <4>1
    <3> HIDE DEF more
    <3>3. push_all(packed, more) = [bytes |-> packed.bytes \o more, iStart |-> packed.iStart]
      BY <2>8, <3>1, <3>2, PushFits
    <3> QED BY <3>3
  <2>10. (buf.bytes \o b) \o more = buf.bytes \o Frame(m)
    <3>1. (buf.bytes \o b) \o more = buf.bytes \o (b \o more)
      <4> HIDE DEF more
      <4> DEFINE a == buf.bytes
      <4>1. a \in Seq(0 .. 255) /\ b \in Seq(0 .. 255) /\ more \in Seq(0 .. 255)
        BY <1>1, <1>2, <2>8 DEF Bytes
      <4> HIDE DEF a
      <4>2. (a \o b) \o more = a \o (b \o more)
        BY <4>1, ConcatAssociative
      <4> QED BY <4>2 DEF a
    <3>2. b \o more = (b \o Crc(b)) \o <<Nl>>
      BY <1>2, <2>7, ConcatAssociative DEF Bytes
    <3>3. Frame(m) = (b \o Crc(b)) \o <<Nl>>
      BY DEF Frame, b
    <3> QED BY <3>1, <3>2, <3>3
  <2>11. packed.bytes = buf.bytes \o b
    BY <2>3
  <2> QED BY <2>6, <2>9, <2>10, <2>11
<1> QED BY <1>9, <1>10, <1>11 DEF lb, ld

----------------------------------------------------------------------------
(* Types.                                                                  *)

Refusals == {"none", "INVALID_FRAME", "INVALID_FRAME_PERIOD", "CHECKSUM_PROBLEM"}

(* compute_checksum throws one of three exceptions, or none. *)
LEMMA RefusalType ==
  ASSUME NEW size, NEW iStart, NEW iStop
  PROVE  checksum_error(size, iStart, iStop) \in Refusals
  BY DEF checksum_error, Refusals

(* Without an exception, both ends of the frame are in the buffer. *)
LEMMA NoRefusal ==
  ASSUME NEW size \in Nat, NEW iStart \in Nat, NEW iStop \in Nat,
         checksum_error(size, iStart, iStop) = "none"
  PROVE  iStart < size /\ iStop < size
  BY DEF checksum_error

(* A checksum is that of bytes of the buffer, or of what lies around it. *)
LEMMA ChecksumsOf ==
  ASSUME NEW buf \in Buffers, Len(buf.bytes) \in Nat,
         checksum_error(Len(buf.bytes), StartOf(buf), StopOf(buf)) = "none",
         NEW checksum \in output_checksums(buf)
  PROVE  checksum \in Garbage \/ \E t \in Bytes : checksum = Crc(t)
<1>1. buf.bytes \in Bytes
  BY DEF Buffers
<1>2. StartOf(buf) \in 0 .. Len(buf.bytes) /\ StopOf(buf) \in 0 .. Len(buf.bytes)
  <2> DEFINE p == buf.bytes
  <2>1. p \in Seq(0 .. 255)
    BY <1>1 DEF Bytes
  <2> HIDE DEF p
  <2>2. find_last(p, Gt) \in 0 .. Len(p) /\ find_last(p, Dot) \in 0 .. Len(p)
    BY <2>1, LastType
  <2> QED BY <2>2 DEF p, StartOf, StopOf
<1>3. StopOf(buf) < Len(buf.bytes)
  BY <1>2, NoRefusal
<1>4. CASE RunsOut(buf)
  BY <1>4 DEF output_checksums
<1>5. CASE ~RunsOut(buf)
  <2> DEFINE p == buf.bytes
             i == StartOf(buf) + 1
             j == StopOf(buf) + 1
  <2>1. checksum = Crc(SubSeq(p, i, j))
    BY <1>5 DEF output_checksums
  <2>2. i \in Int /\ j \in Int /\ i >= 1 /\ j <= Len(p) /\ Len(p) \in Nat
    BY <1>2, <1>3
  <2> HIDE DEF i, j, p
  <2>3. \A k \in i .. j : p[k] \in 0 .. 255
    <3>1. \A k \in i .. j : k \in 1 .. Len(p)
      BY <2>2
    <3>2. p \in Seq(0 .. 255)
      BY <1>1 DEF p, Bytes
    <3> QED BY <3>1, <3>2, ElementOfSeq
  <2>4. SubSeq(p, i, j) \in Bytes
    BY <2>2, <2>3, SubSeqProperties DEF Bytes
  <2> QED BY <2>1, <2>4
<1> QED BY <1>4, <1>5

(* Whatever a put leaves, it is a buffer. *)
LEMMA PutType ==
  ASSUME CrcYieldsDigits, NEW buf \in Buffers, Len(buf.bytes) <= MAXMESSAGELEN,
         NEW m, IsMessage(m), NEW outcome \in put_message(buf, m)
  PROVE  /\ outcome.buf \in Buffers /\ Len(outcome.buf.bytes) <= MAXMESSAGELEN
         /\ outcome.err \in Refusals \cup {"DATA_TOO_LONG", "crashed"}
<1> DEFINE b == Body(m)
           packed == push_all(buf, b)
           refusal == checksum_error(Len(packed.bytes), StartOf(packed), StopOf(packed))
           sums == output_checksums(packed)
<1>1. b \in Bytes
  BY BodyOf
<1>2. packed \in Buffers /\ Len(packed.bytes) \in Nat /\ Len(packed.bytes) <= MAXMESSAGELEN
  BY <1>1, PushType
<1>3. put_message(buf, m)
        = IF Len(m.data) > MAXDATALEN THEN {Outcome(buf, "DATA_TOO_LONG")}
          ELSE IF refusal # "none" THEN {Outcome(packed, refusal)}
          ELSE {Outcome(push_all(packed, checksum \o <<Nl>>), "none") : checksum \in sums}
               \cup IF RunsOut(packed) THEN {Outcome(packed, "crashed")} ELSE {}
  BY Zenon DEF put_message
<1>4. refusal \in Refusals
  BY RefusalType
<1>5. ASSUME refusal = "none", NEW checksum \in sums PROVE checksum \in Bytes
  <2>1. checksum \in Garbage \/ \E t \in Bytes : checksum = Crc(t)
    BY <1>2, <1>5, ChecksumsOf
  <2> QED BY <2>1, OutputAssumption DEF CrcYieldsDigits, Bytes
<1> HIDE DEF packed, refusal, sums
<1>6. CASE outcome = Outcome(buf, "DATA_TOO_LONG")
  BY <1>6 DEF Outcome
<1>7. CASE outcome = Outcome(packed, refusal)
  BY <1>2, <1>4, <1>7 DEF Outcome
<1>8. CASE outcome = Outcome(packed, "crashed")
  BY <1>2, <1>8 DEF Outcome
<1>9. ASSUME refusal = "none", NEW checksum \in sums,
             outcome = Outcome(push_all(packed, checksum \o <<Nl>>), "none")
      PROVE  /\ outcome.buf \in Buffers /\ Len(outcome.buf.bytes) <= MAXMESSAGELEN
             /\ outcome.err \in Refusals \cup {"DATA_TOO_LONG", "crashed"}
  <2> DEFINE more == checksum \o <<Nl>>
  <2>1. checksum \in Bytes
    BY <1>5, <1>9
  <2>2. <<Nl>> \in Bytes
    BY DEF Bytes, Nl
  <2>3. more \in Bytes
    BY <2>1, <2>2, ConcatProperties DEF Bytes
  <2>4. outcome.buf = push_all(packed, more) /\ outcome.err = "none"
    BY <1>9 DEF Outcome
  <2> HIDE DEF more
  <2>5. push_all(packed, more) \in Buffers /\ Len(push_all(packed, more).bytes) <= MAXMESSAGELEN
    BY <1>2, <2>3, PushType
  <2> QED BY <2>4, <2>5 DEF Refusals
<1> QED BY <1>3, <1>6, <1>7, <1>8, <1>9

(* Three sequences in a row. *)
LEMMA Concats ==
  ASSUME NEW S, NEW s \in Seq(S), NEW t \in Seq(S), NEW u \in Seq(S)
  PROVE  /\ s \o t \o u \in Seq(S)
         /\ Len(s \o t \o u) = Len(s) + Len(t) + Len(u)
<1>1. s \o t \in Seq(S) /\ Len(s \o t) = Len(s) + Len(t)
  BY ConcatProperties
<1> DEFINE st == s \o t
<1> HIDE DEF st
<1>2. st \in Seq(S)
  BY <1>1 DEF st
<1>3. st \o u \in Seq(S) /\ Len(st \o u) = Len(st) + Len(u)
  BY <1>2, ConcatProperties
<1> QED BY <1>1, <1>3 DEF st

(* A stream message has three characters more than its payload. *)
LEMMA StreamMessageOf ==
  ASSUME NEW counter \in 0 .. 255, NEW payload \in Bytes
  PROVE  /\ IsMessage(StreamMessage(counter, payload))
         /\ Len(payload) \in Nat
         /\ Len(StreamMessage(counter, payload).data) = Len(payload) + 3
<1> DEFINE hex == convert_uint8_to_hex(counter)
           comma == <<Comma>>
           data == hex \o comma \o payload
<1>1. hex \in Bytes /\ Len(hex) = 2
  BY HexOfByte
<1>2. comma \in Bytes /\ Len(comma) = 1
  BY DEF Bytes, Comma
<1>3. Len(payload) \in Nat
  BY LenProperties DEF Bytes
<1>4. StreamMessage(counter, payload) = Message(48, 48, 115, data)
  BY DEF StreamMessage
<1> HIDE DEF hex, comma
<1>5. data \in Bytes /\ Len(data) = Len(hex) + Len(comma) + Len(payload)
  <2>1. hex \in Seq(0 .. 255) /\ comma \in Seq(0 .. 255) /\ payload \in Seq(0 .. 255)
    BY <1>1, <1>2 DEF Bytes
  <2>2. /\ hex \o comma \o payload \in Seq(0 .. 255)
        /\ Len(hex \o comma \o payload) = Len(hex) + Len(comma) + Len(payload)
    BY <2>1, Concats
  <2> QED BY <2>2 DEF Bytes
<1> HIDE DEF data
<1>6. Len(data) = Len(payload) + 3
  BY <1>1, <1>2, <1>3, <1>5
<1> QED BY <1>3, <1>4, <1>5, <1>6 DEF Message, IsMessage

(* The data of an error reply is cut so that it is never too long. *)
LEMMA ErrorMessageOf ==
  ASSUME NEW e \in Errors
  PROVE  /\ IsMessage(ErrorMessage(e))
         /\ Len(ErrorMessage(e).data) <= MAXDATALEN
<1> DEFINE hex == convert_uint8_to_hex(e.code)
           mid == <<Comma, e.command, Comma>>
           n == IF Len(e.data) < ErrorCopyLen THEN Len(e.data) ELSE ErrorCopyLen
           copy == SubSeq(e.data, 1, n)
           data == hex \o mid \o copy
<1>1. e.code \in 0 .. 255 /\ e.command \in 0 .. 255 /\ e.data \in Seq(0 .. 255)
  BY GivenAssumption
<1>2. hex \in Bytes /\ Len(hex) = 2
  BY <1>1, HexOfByte
<1>3. mid \in Bytes /\ Len(mid) = 3
  BY <1>1 DEF Bytes, Comma
<1>4. ErrorMessage(e) = Message(48, 48, 101, data)
  BY DEF ErrorMessage
<1>5. copy \in Bytes /\ Len(copy) \in Nat /\ Len(copy) <= ErrorCopyLen
  <2> DEFINE d == e.data
  <2>1. d \in Seq(0 .. 255) /\ Len(d) \in Nat
    BY <1>1, LenProperties
  <2>2. n \in 0 .. Len(d) /\ n <= ErrorCopyLen
    BY <2>1, OutputAssumption
  <2> HIDE DEF n, d
  <2>3. Take(d, n) \in Seq(0 .. 255) /\ Len(Take(d, n)) = n
    BY <2>1, <2>2, Taking
  <2>4. copy = Take(d, n)
    BY DEF Take, d
  <2> HIDE DEF copy
  <2>5. copy \in Seq(0 .. 255) /\ Len(copy) = n
    BY <2>3, <2>4, Zenon
  <2> QED BY <2>1, <2>2, <2>5 DEF Bytes
<1> HIDE DEF hex, mid, copy
<1>6. data \in Bytes /\ Len(data) = Len(hex) + Len(mid) + Len(copy)
  <2>1. hex \in Seq(0 .. 255) /\ mid \in Seq(0 .. 255) /\ copy \in Seq(0 .. 255)
    BY <1>2, <1>3, <1>5 DEF Bytes
  <2>2. /\ hex \o mid \o copy \in Seq(0 .. 255)
        /\ Len(hex \o mid \o copy) = Len(hex) + Len(mid) + Len(copy)
    BY <2>1, Concats
  <2> QED BY <2>2 DEF Bytes
<1> HIDE DEF data
<1>7. Len(data) <= MAXDATALEN
  BY <1>2, <1>3, <1>5, <1>6, OutputAssumption, Sizes
<1> QED BY <1>1, <1>4, <1>6, <1>7 DEF Message, IsMessage

(* What the application puts consists of bytes. *)
LEMMA PutsAreMessages ==
  ASSUME NEW m \in Puts
  PROVE  IsMessage(m)
  BY GivenAssumption DEF IsMessage, Bytes

(* The stream counter is an index of a hexadecimal byte. *)
LEMMA CounterType ==
  ASSUME TypeOK
  PROVE  /\ send_stream_frame_counter \in 0 .. 255
         /\ ((send_stream_frame_counter + 1) % CounterRange) \in 0 .. CounterRange - 1
<1>1. CounterRange \in Nat /\ CounterRange > 0 /\ CounterRange <= 256
  BY OutputAssumption
<1>2. send_stream_frame_counter \in 0 .. CounterRange - 1
  BY DEF TypeOK
<1>3. send_stream_frame_counter + 1 \in Nat
  BY <1>1, <1>2
<1> QED BY <1>1, <1>2, <1>3, Remainder

(* A put of any message keeps the type of the buffer. *)
LEMMA LeavesType ==
  ASSUME CrcYieldsDigits, TypeOK, NEW m, IsMessage(m),
         NEW outcome \in put_message(out_buf, m), Leaves(outcome)
  PROVE  /\ out_buf' \in Buffers /\ Len(out_buf'.bytes) <= MAXMESSAGELEN
         /\ err' \in Refusals \cup {"DATA_TOO_LONG", "crashed"}
<1>1. out_buf \in Buffers /\ Len(out_buf.bytes) <= MAXMESSAGELEN
  BY DEF TypeOK, Buffers, Bytes
<1>2. /\ outcome.buf \in Buffers /\ Len(outcome.buf.bytes) <= MAXMESSAGELEN
      /\ outcome.err \in Refusals \cup {"DATA_TOO_LONG", "crashed"}
  BY <1>1, PutType
<1> QED BY <1>2 DEF Leaves

(* Taking bytes out keeps the type of the buffer. *)
LEMMA PopType ==
  ASSUME NEW buf \in Buffers, Len(buf.bytes) <= MAXMESSAGELEN, NEW n \in Nat
  PROVE  /\ pop_front_n(buf, n) \in Buffers
         /\ Len(pop_front_n(buf, n).bytes) <= MAXMESSAGELEN
<1> DEFINE bytes == buf.bytes
           iStart == (buf.iStart + n) % MAXMESSAGELEN
           rest == Drop(bytes, n)
<1>1. bytes \in Seq(0 .. 255) /\ buf.iStart \in Nat /\ Len(bytes) \in Nat
  BY LenProperties DEF Buffers, Bytes
<1>2. iStart \in 0 .. MAXMESSAGELEN - 1
  <2>1. buf.iStart + n \in Nat
    BY <1>1
  <2> QED BY <2>1, Sizes, Remainder
<1>3. pop_front_n(buf, n) = [bytes |-> rest, iStart |-> iStart]
  BY DEF pop_front_n
<1>4. Len(bytes) <= MAXMESSAGELEN
  OBVIOUS
<1> HIDE DEF bytes, iStart
<1>5. rest \in Seq(0 .. 255) /\ Len(rest) \in Nat /\ Len(rest) <= Len(bytes)
  BY <1>1, DropType
<1> HIDE DEF rest
<1>6. Len(rest) <= MAXMESSAGELEN
  BY <1>1, <1>4, <1>5, Sizes
<1> QED BY <1>2, <1>3, <1>5, <1>6 DEF Buffers, Bytes

(***************************************************************************)
(* The buffer never holds more than it can, and the counter fits its type, *)
(* after any puts and however the line drains the buffer.                  *)
(***************************************************************************)
THEOREM OutputTypeOK ==
  ASSUME CrcYieldsDigits
  PROVE  Spec => []TypeOK
<1>1. Init => TypeOK
  <2> SUFFICES ASSUME Init PROVE TypeOK
    OBVIOUS
  <2>1. <<>> \in Seq(0 .. 255) /\ Len(<<>>) = 0
    BY EmptySeq
  <2>2. out_buf.bytes = <<>> /\ out_buf \in [bytes : Seq(0 .. 255), iStart : 0 .. MAXMESSAGELEN - 1]
    BY <2>1, Sizes DEF Init, NoOutput
  <2>3. Len(out_buf.bytes) <= MAXMESSAGELEN
    BY <2>1, <2>2, Sizes
  <2>4. send_stream_frame_counter \in 0 .. CounterRange - 1
    BY OutputAssumption DEF Init
  <2> QED BY <2>2, <2>3, <2>4 DEF Init, TypeOK
<1>2. TypeOK /\ [Next]_vars => TypeOK'
  <2> SUFFICES ASSUME TypeOK, [Next]_vars PROVE TypeOK'
    OBVIOUS
  <2> DEFINE Kept == /\ out_buf' \in Buffers /\ Len(out_buf'.bytes) <= MAXMESSAGELEN
                     /\ err' \in Refusals \cup {"DATA_TOO_LONG", "crashed"}
             CounterKept == send_stream_frame_counter' \in 0 .. CounterRange - 1
  <2>1. out_buf \in Buffers /\ Len(out_buf.bytes) <= MAXMESSAGELEN
    BY DEF TypeOK, Buffers, Bytes
  <2>2. ASSUME NEW m \in Puts, PutMessage(m) PROVE Kept /\ CounterKept
    <3>1. IsMessage(m)
      BY PutsAreMessages
    <3>2. PICK outcome \in put_message(out_buf, m) : Leaves(outcome)
      BY <2>2 DEF PutMessage
    <3> QED BY <2>2, <3>1, <3>2, LeavesType DEF PutMessage, TypeOK
  <2>3. ASSUME NEW e \in Errors, PutError(e) PROVE Kept /\ CounterKept
    <3>1. IsMessage(ErrorMessage(e))
      BY ErrorMessageOf
    <3>2. PICK outcome \in put_message(out_buf, ErrorMessage(e)) : Leaves(outcome)
      BY <2>3 DEF PutError
    <3> QED BY <2>3, <3>1, <3>2, LeavesType DEF PutError, TypeOK
  <2>4. ASSUME NEW payload \in Payloads, PutS(payload) PROVE Kept /\ CounterKept
    <3> DEFINE m == StreamMessage(send_stream_frame_counter, payload)
    <3>1. IsMessage(m)
      BY StreamMessageOf, CounterType, GivenAssumption DEF Bytes
    <3>2. CASE /\ Leaves(Outcome(out_buf, "DATA_TOO_LONG"))
               /\ UNCHANGED send_stream_frame_counter
      BY <2>1, <3>2 DEF Leaves, Outcome, TypeOK
    <3>3. CASE /\ \E outcome \in put_message(out_buf, m) : Leaves(outcome)
               /\ send_stream_frame_counter' = (send_stream_frame_counter + 1) % CounterRange
      <4>1. PICK outcome \in put_message(out_buf, m) : Leaves(outcome)
        BY <3>3
      <4> HIDE DEF m
      <4>2. Kept
        BY <3>1, <4>1, LeavesType
      <4>3. CounterKept
        BY <3>3, CounterType
      <4> QED BY <4>2, <4>3
    <3> QED BY <2>4, <3>2, <3>3 DEF PutS
  <2>5. CASE TransmitByte
    <3>1. /\ pop_front_n(out_buf, 1) \in Buffers
          /\ Len(pop_front_n(out_buf, 1).bytes) <= MAXMESSAGELEN
      BY <2>1, PopType
    <3>2. Kept /\ CounterKept
      BY <2>5, <3>1 DEF TransmitByte, Leaves, Outcome, TypeOK, Refusals
    <3> QED BY <3>2 DEF TypeOK, Buffers, Bytes, Refusals
  <2>6. CASE TransmitBlock
    <3>1. PICK n \in 0 .. Len(out_buf.bytes) :
            Leaves(Outcome(IF n = Len(out_buf.bytes) THEN NoOutput
                           ELSE pop_front_n(out_buf, n), "none"))
      BY <2>6 DEF TransmitBlock
    <3>2. n \in Nat
      OBVIOUS
    <3>3. pop_front_n(out_buf, n) \in Buffers /\ Len(pop_front_n(out_buf, n).bytes) <= MAXMESSAGELEN
      BY <2>1, <3>2, PopType
    <3>4. NoOutput \in Buffers /\ Len(NoOutput.bytes) <= MAXMESSAGELEN
      <4>1. <<>> \in Bytes /\ Len(<<>>) = 0
        BY EmptySeq DEF Bytes
      <4>2. NoOutput.bytes = <<>> /\ NoOutput \in Buffers
        BY <4>1, Sizes DEF NoOutput, Buffers
      <4> QED BY <4>1, <4>2, Sizes
    <3>5. Kept /\ CounterKept
      BY <2>6, <3>1, <3>3, <3>4 DEF TransmitBlock, Leaves, Outcome, TypeOK, Refusals
    <3> QED BY <3>5 DEF TypeOK, Buffers, Bytes, Refusals
  <2>7. CASE UNCHANGED vars
    BY <2>7 DEF vars, TypeOK
  <2>8. ASSUME Kept, CounterKept PROVE TypeOK'
    BY <2>8 DEF TypeOK, Buffers, Bytes, Refusals
  <2> HIDE DEF Kept, CounterKept
  <2> QED BY <2>2, <2>3, <2>4, <2>5, <2>6, <2>7, <2>8 DEF Next
<1> QED BY <1>1, <1>2, PTL DEF Spec

----------------------------------------------------------------------------
(* What a put may do: an outcome of put_message, or a payload is refused. *)
LEMMA PutOutcome ==
  ASSUME CrcYieldsDigits, TypeOK, NEW m \in Given, Put(m)
  PROVE  /\ IsMessage(m) /\ out_buf \in Buffers
         /\ \/ \E outcome \in put_message(out_buf, m) : Leaves(outcome)
            \/ err' = "DATA_TOO_LONG" /\ Len(m.data) > MAXDATALEN
<1>1. out_buf \in Buffers
  BY DEF TypeOK, Buffers, Bytes
<1>2. CASE m \in Puts /\ PutMessage(m)
  BY <1>1, <1>2, PutsAreMessages DEF PutMessage
<1>3. ASSUME NEW e \in Errors, m = ErrorMessage(e), PutError(e)
      PROVE  IsMessage(m) /\ \E outcome \in put_message(out_buf, m) : Leaves(outcome)
  <2>1. IsMessage(ErrorMessage(e))
    BY ErrorMessageOf
  <2>2. \E outcome \in put_message(out_buf, ErrorMessage(e)) : Leaves(outcome)
    BY <1>3 DEF PutError
  <2> QED BY <1>3, <2>1, <2>2, Zenon
<1>4. ASSUME NEW payload \in Payloads, PutS(payload),
             m = StreamMessage(send_stream_frame_counter, payload)
      PROVE  /\ IsMessage(m)
             /\ \/ \E outcome \in put_message(out_buf, m) : Leaves(outcome)
                \/ err' = "DATA_TOO_LONG" /\ Len(m.data) > MAXDATALEN
  <2>1. payload \in Bytes /\ send_stream_frame_counter \in 0 .. 255
    BY CounterType, GivenAssumption DEF Bytes
  <2>2. IsMessage(m) /\ Len(payload) \in Nat /\ Len(m.data) = Len(payload) + 3
    BY <1>4, <2>1, StreamMessageOf, Zenon
  <2>3. CASE Len(payload) > MAXSPAYLOADEN /\ Leaves(Outcome(out_buf, "DATA_TOO_LONG"))
    <3>1. Len(m.data) > MAXDATALEN
      BY <2>2, <2>3, Sizes DEF MAXSPAYLOADEN
    <3>2. err' = "DATA_TOO_LONG"
      BY <2>3 DEF Leaves, Outcome
    <3> QED BY <2>2, <3>1, <3>2
  <2>4. CASE \E outcome \in put_message(out_buf, m) : Leaves(outcome)
    BY <2>2, <2>4
  <2> QED BY <1>4, <2>3, <2>4 DEF PutS
<1> QED BY <1>1, <1>2, <1>3, <1>4 DEF Put

(* A message that is too long changes nothing. *)
LEMMA TooLongIsRefused ==
  ASSUME NEW buf, NEW m, Len(m.data) > MAXDATALEN, NEW outcome \in put_message(buf, m)
  PROVE  outcome.err = "DATA_TOO_LONG"
<1>1. put_message(buf, m) = {Outcome(buf, "DATA_TOO_LONG")}
  BY Zenon DEF put_message
<1> QED BY <1>1 DEF Outcome

(* Only a message that is too long is refused as too long. *)
LEMMA NotTooLong ==
  ASSUME NEW buf, NEW m, IsMessage(m), Len(m.data) <= MAXDATALEN,
         NEW outcome \in put_message(buf, m)
  PROVE  outcome.err # "DATA_TOO_LONG"
<1> DEFINE packed == push_all(buf, Body(m))
           refusal == checksum_error(Len(packed.bytes), StartOf(packed), StopOf(packed))
           sums == output_checksums(packed)
<1>1. ~(Len(m.data) > MAXDATALEN)
  BY BodyOf, Sizes
<1>2. put_message(buf, m)
        = IF refusal # "none" THEN {Outcome(packed, refusal)}
          ELSE {Outcome(push_all(packed, checksum \o <<Nl>>), "none") : checksum \in sums}
               \cup IF RunsOut(packed) THEN {Outcome(packed, "crashed")} ELSE {}
  BY <1>1, Zenon DEF put_message
<1>3. refusal \in Refusals
  BY RefusalType
<1> HIDE DEF packed, refusal, sums
<1>4. outcome.err = refusal \/ outcome.err = "none" \/ outcome.err = "crashed"
  BY <1>2 DEF Outcome
<1> QED BY <1>3, <1>4 DEF Refusals

(* The length of a frame. *)
LEMMA FrameLength ==
  ASSUME CrcYieldsDigits, NEW m, IsMessage(m)
  PROVE  Len(Frame(m)) = Len(m.data) + NCHARCHECKSUM + 6 /\ Len(m.data) \in Nat
<1> DEFINE b == Body(m)
           c == Crc(b)
           nl == <<Nl>>
<1>1. b \in Seq(0 .. 255) /\ Len(b) = Len(m.data) + 5 /\ Len(m.data) \in Nat
  BY BodyOf DEF Bytes
<1>2. c \in Seq(0 .. 255) /\ Len(c) = NCHARCHECKSUM
  BY <1>1 DEF CrcYieldsDigits, Bytes
<1>3. nl \in Seq(0 .. 255) /\ Len(nl) = 1
  BY DEF Nl
<1>4. Frame(m) = b \o c \o nl
  BY DEF Frame
<1> HIDE DEF b, c, nl
<1>5. Len(b \o c \o nl) = Len(b) + Len(c) + Len(nl)
  <2>1. b \in Seq(0 .. 255) /\ c \in Seq(0 .. 255) /\ nl \in Seq(0 .. 255)
    BY <1>1, <1>2, <1>3
  <2> QED BY <2>1, Concats
<1> QED BY <1>1, <1>2, <1>3, <1>4, <1>5, Sizes

(* A put that is accepted appends its frame, if the content does not wrap. *)
LEMMA PutAppends ==
  ASSUME CrcYieldsDigits, TypeOK, NEW m \in Given, Put(m), err' = "none", Plain(m), ~wraps(out_buf)
  PROVE  out_buf'.bytes = out_buf.bytes \o Frame(m) /\ Len(m.data) <= MAXDATALEN
<1>1. /\ IsMessage(m) /\ out_buf \in Buffers
      /\ \/ \E outcome \in put_message(out_buf, m) : Leaves(outcome)
         \/ err' = "DATA_TOO_LONG" /\ Len(m.data) > MAXDATALEN
  BY PutOutcome
<1>2. PICK outcome \in put_message(out_buf, m) : Leaves(outcome)
  BY <1>1
<1>3. outcome.err = "none" /\ out_buf' = outcome.buf
  BY <1>2 DEF Leaves
<1>4. Len(m.data) <= MAXDATALEN
  <2>1. Len(m.data) \in Nat
    BY <1>1, BodyOf
  <2>2. ~(Len(m.data) > MAXDATALEN)
    BY <1>3, TooLongIsRefused
  <2> QED BY <2>1, <2>2, Sizes
<1>5. outcome.buf.bytes = out_buf.bytes \o Frame(m)
  BY <1>1, <1>3, <1>4, Packing
<1> QED BY <1>3, <1>4, <1>5

(***************************************************************************)
(* A message that is put without an exception while the content does not   *)
(* wrap is in the buffer as its frame, behind what was there before: the   *)
(* push_backs of put_message_in_output_buffer, which would overwrite,      *)
(* never do, since compute_checksum would have refused the frame.          *)
(***************************************************************************)
THEOREM OutputAppendsFrames ==
  ASSUME CrcYieldsDigits
  PROVE  Spec => AcceptedPutAppendsItsFrame
<1> DEFINE P == \A m \in Given :
                  Put(m) /\ err' = "none" /\ Plain(m) /\ ~wraps(out_buf)
                    => out_buf'.bytes = out_buf.bytes \o Frame(m)
<1>1. TypeOK /\ [Next]_vars => [P]_vars
  <2> SUFFICES ASSUME TypeOK, NEW m \in Given,
                      Put(m), err' = "none", Plain(m), ~wraps(out_buf)
               PROVE  out_buf'.bytes = out_buf.bytes \o Frame(m)
    OBVIOUS
  <2> QED BY PutAppends
<1> QED BY <1>1, OutputTypeOK, PTL DEF Spec, AcceptedPutAppendsItsFrame

(***************************************************************************)
(* put_message_in_output_buffer refuses a message of its own accord if and *)
(* only if it is too long, and compute_checksum refuses it if and only if  *)
(* there is no room for it; an error reply is never too long.              *)
(***************************************************************************)
THEOREM OutputRefusals ==
  ASSUME CrcYieldsDigits
  PROVE  Spec => RefusedExactlyWhenTooBig
<1> DEFINE P == \A m \in Given :
                  Put(m) /\ Plain(m)
                    => /\ err' = "DATA_TOO_LONG" <=> TooLong(m)
                       /\ err' = "CHECKSUM_PROBLEM" <=> ~TooLong(m) /\ ~Fits(m)
                       /\ err' \in {"none", "DATA_TOO_LONG", "CHECKSUM_PROBLEM", "crashed"}
           Q == \A e \in Errors : PutError(e) => err' # "DATA_TOO_LONG"
<1>1. TypeOK => P
  <2> SUFFICES ASSUME TypeOK, NEW m \in Given, Put(m), Plain(m)
               PROVE  /\ err' = "DATA_TOO_LONG" <=> TooLong(m)
                      /\ err' = "CHECKSUM_PROBLEM" <=> ~TooLong(m) /\ ~Fits(m)
                      /\ err' \in {"none", "DATA_TOO_LONG", "CHECKSUM_PROBLEM", "crashed"}
    OBVIOUS
  <2>1. /\ IsMessage(m) /\ out_buf \in Buffers
        /\ \/ \E outcome \in put_message(out_buf, m) : Leaves(outcome)
           \/ err' = "DATA_TOO_LONG" /\ Len(m.data) > MAXDATALEN
    BY PutOutcome
  <2>2. CASE TooLong(m)
    <3>1. err' = "DATA_TOO_LONG"
      BY <2>1, <2>2, TooLongIsRefused DEF TooLong, Leaves
    <3> QED BY <2>2, <3>1
  <2>3. CASE ~TooLong(m)
    <3>1. PICK outcome \in put_message(out_buf, m) : Leaves(outcome)
      BY <2>1, <2>3 DEF TooLong
    <3>2. Len(Frame(m)) = Len(m.data) + NCHARCHECKSUM + 6 /\ Len(m.data) \in Nat
      BY <2>1, FrameLength
    <3>3. Len(m.data) <= MAXDATALEN
      BY <2>3, <3>2, Sizes DEF TooLong
    <3>4. Len(out_buf.bytes) + Len(m.data) + NCHARCHECKSUM + 6 <= MAXMESSAGELEN <=> Fits(m)
      <4> DEFINE x == Len(out_buf.bytes)
                 y == Len(m.data)
                 z == Len(Frame(m))
      <4>1. x \in Nat /\ y \in Nat /\ z = y + NCHARCHECKSUM + 6
        BY <2>1, <3>2, LenProperties DEF Buffers, Bytes
      <4>2. Fits(m) <=> x + z <= MAXMESSAGELEN
        BY DEF Fits
      <4> HIDE DEF x, y, z
      <4>3. x + y + NCHARCHECKSUM + 6 = x + z
        BY <4>1, Sizes
      <4> QED BY <4>2, <4>3 DEF x, y
    <3>5. /\ ~Fits(m) => outcome.err = "CHECKSUM_PROBLEM"
          /\ Fits(m) => outcome.err \in {"none", "crashed"}
      BY <2>1, <3>3, <3>4, Packing
    <3>6. outcome.err = err'
      BY <3>1 DEF Leaves
    <3> QED BY <2>3, <3>5, <3>6
  <2> QED BY <2>2, <2>3
<1>2. TypeOK => Q
  <2> SUFFICES ASSUME TypeOK, NEW e \in Errors, PutError(e) PROVE err' # "DATA_TOO_LONG"
    OBVIOUS
  <2> DEFINE m == ErrorMessage(e)
  <2>1. IsMessage(m) /\ Len(m.data) <= MAXDATALEN
    BY ErrorMessageOf
  <2>2. PICK outcome \in put_message(out_buf, m) : Leaves(outcome)
    BY DEF PutError
  <2> HIDE DEF m
  <2>3. outcome.err # "DATA_TOO_LONG"
    BY <2>1, <2>2, NotTooLong
  <2> QED BY <2>2, <2>3 DEF Leaves
<1>3. TypeOK /\ [Next]_vars => [P /\ Q]_vars
  BY <1>1, <1>2
<1> QED BY <1>3, OutputTypeOK, PTL DEF Spec, RefusedExactlyWhenTooBig

----------------------------------------------------------------------------
(* What a host gets that starts to listen.                                 *)

(***************************************************************************)
(* No function is given a zero byte: a command of zero is no message to    *)
(* get_message_from_input_buffer.  And convert_uint16_to_hex writes        *)
(* digits, as many as a frame has for them, of whatever sum.               *)
(***************************************************************************)
Text == Seq(1 .. 255)

TextMessages ==
  [ascVersion : 1 .. 255, appVersion : 1 .. 255, command : 1 .. 255, data : Text]

TextIsWritten ==
  /\ Puts \subseteq TextMessages
  /\ Payloads \subseteq Text
  /\ \A e \in Errors : e.command \in 1 .. 255 /\ e.data \in Text

DigitsAreWritten ==
  /\ Garbage \subseteq Seq((1 .. 255) \ Delimiters)
  /\ \A s \in Bytes : Crc(s) \in Seq((1 .. 255) \ Delimiters) /\ Len(Crc(s)) = NCHARCHECKSUM

(* The host of AscLink is the one of which AscInputProofs proves something. *)
LEMMA SameCall ==
  ASSUME NEW host
  PROVE  In!Call(host) = Call(host)
<1>1. In!get_message_from_input_buffer(host.rest, FALSE)
        = get_message_from_input_buffer(host.rest, FALSE)
  BY DEF In!get_message_from_input_buffer, get_message_from_input_buffer,
     In!get_message, get_message, In!synchronised, synchronised,
     In!remove_front_unfinished_frames, remove_front_unfinished_frames,
     In!FrontFrame, FrontFrame, In!Completes, Completes, In!Opens, Opens,
     In!unpack, unpack, In!frame_ends, frame_ends, In!input_checksum, input_checksum,
     In!pop_bad_frame, pop_bad_frame, In!remove_front_to, remove_front_to,
     In!checksum_error, checksum_error, In!find_first, find_first,
     In!Take, Take, In!Drop, Drop, In!Where, Where, In!Min, Min, In!Max, Max,
     In!Nothing, Nothing, In!Throws, Throws, In!NoMessage, NoMessage,
     In!Message, Message, In!Gt, Gt, In!Nl, Nl, In!Dot, Dot
<1>2. In!NoMessage = NoMessage
  BY DEF In!NoMessage, NoMessage, In!Message, Message
<1> DEFINE first(R) == CHOOSE r \in R : TRUE
           ours == first(get_message_from_input_buffer(host.rest, FALSE))
           theirs == first(In!get_message_from_input_buffer(host.rest, FALSE))
<1>3. theirs = ours
  BY <1>1, Zenon
<1>4. Call(host) = [rest |-> ours.rest,
                    got |-> IF ours.message = NoMessage THEN host.got
                            ELSE Append(host.got, ours.message)]
  BY DEF Call
<1>5. In!Call(host) = [rest |-> theirs.rest,
                       got |-> IF theirs.message = In!NoMessage THEN host.got
                               ELSE Append(host.got, theirs.message)]
  BY DEF In!Call
<1> HIDE DEF ours, theirs
<1> QED BY <1>2, <1>3, <1>4, <1>5, Zenon

(* Both hear the same. *)
LEMMA SameHost ==
  ASSUME NEW s
  PROVE  In!Heard(s) = Heard(s) /\ In!Malformed(s) = Malformed(s)
<1>1. \A host : In!Call(host) = Call(host)
  BY SameCall
<1>2. In!Heard(s) = Heard(s)
  BY <1>1 DEF In!Heard, Heard
<1>3. In!Malformed(s) = Malformed(s)
  BY DEF In!Malformed, Malformed, In!Where, Where, In!Gt, Gt, In!Dot, Dot
<1> QED BY <1>2, <1>3

(* And the same frames are in what they are sent. *)
LEMMA SameFrames ==
  ASSUME NEW s
  PROVE  /\ In!FramesIn(s) = FramesIn(s)
         /\ \A f : In!FrameAt(s, f) = FrameAt(s, f)
         /\ \A m : In!Frame(m) = Frame(m)
<1>1. \A m : In!Frame(m) = Frame(m)
  BY DEF In!Frame, Frame, In!Body, Body, In!Gt, Gt, In!Dot, Dot, In!Nl, Nl
<1>2. \A f : In!IsFrame(f) <=> IsFrame(f)
  BY <1>1 DEF In!IsFrame, IsFrame, In!Plain, Plain, In!Message, Message,
     In!Delimiters, Delimiters, In!Gt, Gt, In!Dot, Dot, In!Nl, Nl
<1>3. In!FramesIn(s) = FramesIn(s)
  BY <1>2 DEF In!FramesIn, FramesIn, In!Where, Where, In!Gt, Gt, In!Nl, Nl
<1>4. \A f : In!FrameAt(s, f) = FrameAt(s, f)
  BY DEF In!FrameAt, FrameAt
<1> QED BY <1>1, <1>3, <1>4

(***************************************************************************)
(* What a host can read: bytes in which every '>' is soon followed by a    *)
(* '.'.                                                                    *)
(***************************************************************************)
Legible(s) == s \in Text /\ In!Followed(s)

IsText(m) == m \in TextMessages

(* Text is of bytes. *)
LEMMA TextIsOfBytes ==
  ASSUME NEW s \in Text
  PROVE  s \in Seq(0 .. 255) /\ Len(s) \in Nat /\ \A i \in 1 .. Len(s) : s[i] \in 1 .. 255
<1>1. Len(s) \in Nat /\ \A i \in 1 .. Len(s) : s[i] \in 1 .. 255
  BY LenProperties, ElementOfSeq DEF Text
<1> QED BY <1>1 DEF Text

(* What is legible, and then more of it. *)
LEMMA LegibleTogether ==
  ASSUME NEW s, Legible(s), NEW t, Legible(t)
  PROVE  Legible(s \o t)
<1> DEFINE u == s \o t
           m == Len(s)
           n == Len(t)
<1>1. s \in Text /\ t \in Text /\ m \in Nat /\ n \in Nat
  BY LenProperties DEF Legible, Text
<1>2. /\ u \in Text /\ Len(u) = m + n
      /\ \A i \in 1 .. m + n : u[i] = IF i <= m THEN s[i] ELSE t[i - m]
  BY <1>1, ConcatProperties DEF Text
<1>3. /\ \A i \in 1 .. m : s[i] = Gt
            => \E j \in i + 1 .. m : j <= i + MAXDATALEN + 4 /\ s[j] = Dot
      /\ \A i \in 1 .. n : t[i] = Gt
            => \E j \in i + 1 .. n : j <= i + MAXDATALEN + 4 /\ t[j] = Dot
  BY DEF Legible, In!Followed, In!Gt, Gt, In!Dot, Dot
<1> HIDE DEF u, m, n
<1>4. ASSUME NEW i \in 1 .. m + n, u[i] = Gt
      PROVE  \E j \in i + 1 .. m + n : j <= i + MAXDATALEN + 4 /\ u[j] = Dot
  <2>1. CASE i <= m
    <3>1. i \in 1 .. m /\ s[i] = Gt
      BY <1>1, <1>2, <1>4, <2>1
    <3>2. PICK j \in i + 1 .. m : j <= i + MAXDATALEN + 4 /\ s[j] = Dot
      BY <1>3, <3>1
    <3>3. j \in i + 1 .. m + n /\ j \in 1 .. m + n /\ j <= m
      BY <1>1, <3>1, <3>2
    <3> QED BY <1>2, <3>2, <3>3
  <2>2. CASE ~(i <= m)
    <3>1. i - m \in 1 .. n /\ t[i - m] = Gt
      BY <1>1, <1>2, <1>4, <2>2
    <3>2. PICK k \in i - m + 1 .. n : k <= i - m + MAXDATALEN + 4 /\ t[k] = Dot
      BY <1>3, <3>1
    <3>3. /\ m + k \in i + 1 .. m + n /\ m + k \in 1 .. m + n /\ ~(m + k <= m)
          /\ m + k - m = k /\ m + k <= i + MAXDATALEN + 4
      BY <1>1, <3>1, <3>2, Sizes
    <3>4. PICK q \in 1 .. m + n : q = m + k
      BY <3>3
    <3>5. q \in i + 1 .. m + n /\ ~(q <= m) /\ q - m = k /\ q <= i + MAXDATALEN + 4
      <4>1. k \in Int /\ q \in Int /\ i \in Int
        OBVIOUS
      <4>2. i < q /\ q <= m + n /\ m < q /\ q - m = k /\ q <= i + MAXDATALEN + 4
        BY <1>1, <3>1, <3>2, <3>4, Sizes
      <4> QED BY <1>1, <4>1, <4>2
    <3>6. u[q] = t[q - m]
      BY <1>2, <3>5
    <3>7. u[q] = Dot
      BY <3>2, <3>5, <3>6
    <3> QED BY <3>5, <3>7
  <2> QED BY <2>1, <2>2
<1>5. In!Followed(u)
  BY <1>2, <1>4 DEF In!Followed, In!Gt, Gt, In!Dot, Dot
<1> QED BY <1>2, <1>5 DEF Legible, u

(* What is left when the front of it is gone. *)
LEMMA LegibleRest ==
  ASSUME NEW s, Legible(s), NEW n \in 0 .. Len(s)
  PROVE  Legible(Drop(s, n))
<1>1. s \in Seq(0 .. 255) /\ Len(s) \in Nat /\ In!Followed(s) /\ s \in Text
  BY TextIsOfBytes DEF Legible
<1>2. In!IsRest(Drop(s, n), s)
  BY DEF In!IsRest, In!Drop, Drop
<1>3. In!Followed(Drop(s, n))
  BY <1>1, <1>2, In!FollowedRest, SizesAssumption
<1>4. Drop(s, n) \in Text
  BY <1>1, Dropping DEF Text
<1> QED BY <1>3, <1>4 DEF Legible

(* Text that holds no '>', or whose last character is a '.' and the only   *)
(* character that far behind the first.                                    *)
LEMMA LegibleParts ==
  ASSUME NEW s \in Text
  PROVE  /\ (\A i \in 1 .. Len(s) : s[i] # Gt) => Legible(s)
         /\ Len(s) > 0 /\ Len(s) <= MAXDATALEN + 5 /\ s[Len(s)] = Dot => Legible(s)
<1> DEFINE n == Len(s)
<1>1. n \in Nat
  BY LenProperties DEF Text
<1> HIDE DEF n
<1>2. In!Followed(s)
        <=> \A i \in 1 .. n : s[i] = Gt
              => \E j \in i + 1 .. n : j <= i + MAXDATALEN + 4 /\ s[j] = Dot
  BY DEF In!Followed, In!Gt, Gt, In!Dot, Dot, n
<1>3. ASSUME \A i \in 1 .. n : s[i] # Gt PROVE Legible(s)
  BY <1>2, <1>3 DEF Legible
<1>4. ASSUME n > 0, n <= MAXDATALEN + 5, s[n] = Dot PROVE Legible(s)
  <2>1. ASSUME NEW i \in 1 .. n, s[i] = Gt
        PROVE  \E j \in i + 1 .. n : j <= i + MAXDATALEN + 4 /\ s[j] = Dot
    <3>1. i # n
      BY <1>4, <2>1 DEF Gt, Dot
    <3>2. n \in i + 1 .. n /\ n <= i + MAXDATALEN + 4
      BY <1>1, <1>4, <3>1, Sizes
    <3> QED BY <1>4, <3>2
  <2> QED BY <1>2, <2>1 DEF Legible
<1> QED BY <1>3, <1>4 DEF n

(* What put_message packs. *)
LEMMA BodyIsLegible ==
  ASSUME NEW m, IsText(m), Len(m.data) <= MAXDATALEN
  PROVE  Legible(Body(m)) /\ Body(m) \in Bytes /\ IsMessage(m)
<1> DEFINE head == <<Gt, m.ascVersion, m.appVersion, m.command>>
           data == m.data
           last == <<Dot>>
           b == Body(m)
<1>1. data \in Text /\ data \in Seq(0 .. 255)
  BY TextIsOfBytes DEF IsText, TextMessages
<1>2. IsMessage(m)
  BY <1>1 DEF IsText, TextMessages, IsMessage, Bytes
<1>3. b \in Bytes /\ Len(data) \in Nat /\ Len(b) = Len(data) + 5 /\ b[Len(data) + 5] = Dot
  BY <1>2, BodyOf
<1>4. b \in Text
  <2>1. head \in Seq(1 .. 255) /\ last \in Seq(1 .. 255)
    BY DEF IsText, TextMessages, Gt, Dot
  <2>2. b = head \o data \o last
    BY DEF Body
  <2>3. data \in Seq(1 .. 255)
    BY <1>1 DEF Text
  <2> HIDE DEF head, data, last, b
  <2>4. head \o data \o last \in Seq(1 .. 255)
    BY <2>1, <2>3, Concats
  <2> QED BY <2>2, <2>4 DEF Text
<1>5. Len(b) > 0 /\ Len(b) <= MAXDATALEN + 5 /\ b[Len(b)] = Dot
  <2>1. Len(data) <= MAXDATALEN
    OBVIOUS
  <2> HIDE DEF b, data
  <2> QED BY <1>3, <2>1, Sizes
<1> HIDE DEF b
<1>6. Legible(b)
  BY <1>4, <1>5, LegibleParts
<1> QED BY <1>2, <1>3, <1>6 DEF b

(* The checksum and the '\n'. *)
LEMMA ChecksumIsLegible ==
  ASSUME NEW checksum \in Seq((1 .. 255) \ Delimiters)
  PROVE  Legible(checksum \o <<Nl>>) /\ checksum \o <<Nl>> \in Bytes
<1> DEFINE S == (1 .. 255) \ {Gt}
           nl == <<Nl>>
           t == checksum \o nl
<1>1. (1 .. 255) \ Delimiters \subseteq S /\ Nl \in S
  BY DEF Delimiters, Gt, Nl
<1>2. checksum \in Seq(S) /\ nl \in Seq(S)
  <2>1. Len(checksum) \in Nat /\ \A i \in 1 .. Len(checksum) : checksum[i] \in S
    BY <1>1, LenProperties, ElementOfSeq
  <2>2. checksum \in [1 .. Len(checksum) -> S]
    BY <2>1, LenProperties
  <2>3. checksum \in Seq(S)
    BY <2>1, <2>2, FunctionIsSeq
  <2>4. nl \in Seq(S)
    BY <1>1
  <2> QED BY <2>3, <2>4
<1> HIDE DEF nl
<1>3. t \in Seq(S)
  BY <1>2, ConcatProperties
<1> HIDE DEF t
<1>4. Len(t) \in Nat /\ \A i \in 1 .. Len(t) : t[i] \in 1 .. 255 /\ t[i] # Gt
  BY <1>3, LenProperties, ElementOfSeq
<1>5. t \in [1 .. Len(t) -> 1 .. 255] /\ t \in [1 .. Len(t) -> 0 .. 255]
  <2>1. t \in [1 .. Len(t) -> S]
    <3> HIDE DEF S
    <3> QED BY <1>3, LenProperties
  <2>2. ASSUME NEW x \in S PROVE x \in 1 .. 255 /\ x \in 0 .. 255
    OBVIOUS
  <2> HIDE DEF S
  <2> QED BY <2>1, <2>2
<1>6. t \in Text /\ t \in Bytes
  <2>1. t \in Seq(1 .. 255) /\ t \in Seq(0 .. 255)
    BY <1>4, <1>5, RetypedSeq
  <2> QED BY <1>4, <2>1 DEF Text, Bytes
<1> QED BY <1>4, <1>6, LegibleParts DEF t, nl

(* Pushing what is legible keeps the buffer legible. *)
LEMMA PushIsLegible ==
  ASSUME NEW buf, Legible(buf.bytes), NEW more, Legible(more)
  PROVE  Legible(push_all(buf, more).bytes)
<1> DEFINE all == buf.bytes \o more
           kept == KeepLast(all, MAXMESSAGELEN)
<1>1. Legible(all)
  BY LegibleTogether
<1>2. push_all(buf, more).bytes = kept
  BY DEF push_all
<1> HIDE DEF all
<1>3. all \in Text /\ Len(all) \in Nat
  BY <1>1, TextIsOfBytes DEF Legible
<1>4. CASE Len(all) > MAXMESSAGELEN
  <2>1. Len(all) - MAXMESSAGELEN \in 0 .. Len(all)
    BY <1>3, <1>4, Sizes
  <2>2. kept = Drop(all, Len(all) - MAXMESSAGELEN)
    BY <1>4 DEF KeepLast
  <2> QED BY <1>1, <1>2, <2>1, <2>2, LegibleRest
<1>5. CASE ~(Len(all) > MAXMESSAGELEN)
  BY <1>1, <1>2, <1>5 DEF KeepLast
<1> QED BY <1>4, <1>5

(* Digits are bytes, and no delimiters. *)
LEMMA DigitsAreDigits ==
  ASSUME DigitsAreWritten
  PROVE  CrcYieldsDigits /\ In!ChecksumsAreDigits
<1>1. ASSUME NEW s \in Seq(0 .. 255)
      PROVE  /\ Crc(s) \in Seq(0 .. 255) /\ Len(Crc(s)) = NCHARCHECKSUM
             /\ Crc(s) \in Seq((0 .. 255) \ In!Delimiters)
  <2> DEFINE c == Crc(s)
             D == (0 .. 255) \ In!Delimiters
             T == (1 .. 255) \ Delimiters
  <2>1. c \in Seq(T) /\ Len(c) = NCHARCHECKSUM /\ NCHARCHECKSUM \in Nat
    BY Sizes DEF DigitsAreWritten, Bytes
  <2>2. T \subseteq D /\ T \subseteq 0 .. 255
    BY DEF In!Delimiters, Delimiters, In!Gt, Gt, In!Dot, Dot, In!Nl, Nl
  <2> HIDE DEF c, D, T
  <2>3. \A i \in 1 .. Len(c) : c[i] \in T
    BY <2>1, ElementOfSeq
  <2>4. c \in [1 .. Len(c) -> T]
    BY <2>1, LenProperties
  <2>5. c \in [1 .. Len(c) -> D] /\ c \in [1 .. Len(c) -> 0 .. 255]
    BY <2>2, <2>4
  <2>6. c \in Seq(D) /\ c \in Seq(0 .. 255)
    BY <2>1, <2>5, FunctionIsSeq
  <2> QED BY <2>1, <2>6 DEF c, D
<1> QED BY <1>1 DEF CrcYieldsDigits, Bytes, In!ChecksumsAreDigits

(* What a put leaves is legible. *)
LEMMA PutIsLegible ==
  ASSUME DigitsAreWritten, NEW buf \in Buffers, Legible(buf.bytes), NEW m, IsText(m),
         NEW outcome \in put_message(buf, m)
  PROVE  Legible(outcome.buf.bytes)
<1> DEFINE packed == push_all(buf, Body(m))
           refusal == checksum_error(Len(packed.bytes), StartOf(packed), StopOf(packed))
           sums == output_checksums(packed)
<1>1. CASE Len(m.data) > MAXDATALEN
  <2>1. put_message(buf, m) = {Outcome(buf, "DATA_TOO_LONG")}
    BY <1>1, Zenon DEF put_message
  <2> QED BY <2>1 DEF Outcome
<1>2. CASE ~(Len(m.data) > MAXDATALEN)
  <2>1. put_message(buf, m)
          = IF refusal # "none" THEN {Outcome(packed, refusal)}
            ELSE {Outcome(push_all(packed, checksum \o <<Nl>>), "none") : checksum \in sums}
                 \cup IF RunsOut(packed) THEN {Outcome(packed, "crashed")} ELSE {}
    BY <1>2, Zenon DEF put_message
  <2>2. Len(m.data) <= MAXDATALEN
    <3>1. Len(m.data) \in Nat
      BY TextIsOfBytes DEF IsText, TextMessages
    <3> QED BY <1>2, <3>1, Sizes
  <2>3. Legible(Body(m)) /\ Body(m) \in Bytes
    BY <2>2, BodyIsLegible
  <2>4. packed \in Buffers /\ Len(packed.bytes) \in Nat
    BY <2>3, PushType
  <2>5. Legible(packed.bytes)
    BY <2>3, PushIsLegible
  <2>6. ASSUME refusal = "none", NEW checksum \in sums
        PROVE  Legible(push_all(packed, checksum \o <<Nl>>).bytes)
    <3>1. checksum \in Garbage \/ \E t \in Bytes : checksum = Crc(t)
      BY <2>4, <2>6, ChecksumsOf
    <3>2. checksum \in Seq((1 .. 255) \ Delimiters)
      BY <3>1 DEF DigitsAreWritten
    <3> HIDE DEF packed
    <3> QED BY <2>5, <3>2, ChecksumIsLegible, PushIsLegible
  <2> HIDE DEF packed, refusal, sums
  <2>7. \/ outcome = Outcome(packed, refusal)
        \/ outcome = Outcome(packed, "crashed")
        \/ /\ refusal = "none"
           /\ \E checksum \in sums : outcome = Outcome(push_all(packed, checksum \o <<Nl>>), "none")
    BY <2>1
  <2> QED BY <2>5, <2>6, <2>7 DEF Outcome
<1> QED BY <1>1, <1>2

(* The two characters of a byte are text. *)
LEMMA HexIsText ==
  ASSUME NEW n \in 0 .. 255
  PROVE  convert_uint8_to_hex(n) \in Seq(1 .. 255)
<1>1. n \div 16 \in 0 .. 15 /\ (n % 16) \in 0 .. 15
  OBVIOUS
<1>2. \A d \in 0 .. 15 : hex_digit(d) \in 1 .. 255
  BY DEF hex_digit
<1>3. hex_digit(n \div 16) \in 1 .. 255 /\ hex_digit(n % 16) \in 1 .. 255
  BY <1>1, <1>2
<1> QED BY <1>3 DEF convert_uint8_to_hex

(* So are the messages put_s_message_in_output_buffer makes, *)
LEMMA StreamMessageIsText ==
  ASSUME NEW counter \in 0 .. 255, NEW payload \in Text
  PROVE  IsText(StreamMessage(counter, payload))
<1> DEFINE hex == convert_uint8_to_hex(counter)
           comma == <<Comma>>
           data == hex \o comma \o payload
<1>1. hex \in Seq(1 .. 255) /\ comma \in Seq(1 .. 255) /\ payload \in Seq(1 .. 255)
  <2>1. hex \in Seq(1 .. 255)
    BY HexIsText
  <2>2. comma \in Seq(1 .. 255)
    BY DEF Comma
  <2> QED BY <2>1, <2>2 DEF Text
<1>2. StreamMessage(counter, payload) = Message(48, 48, 115, data)
  BY DEF StreamMessage
<1> HIDE DEF hex, comma
<1>3. data \in Text
  BY <1>1, Concats DEF Text
<1> HIDE DEF data
<1> QED BY <1>2, <1>3 DEF Message, IsText, TextMessages

(* and those put_error_in_output_buffer makes. *)
LEMMA ErrorMessageIsText ==
  ASSUME TextIsWritten, NEW e \in Errors
  PROVE  IsText(ErrorMessage(e))
<1> DEFINE hex == convert_uint8_to_hex(e.code)
           mid == <<Comma, e.command, Comma>>
           d == e.data
           n == IF Len(d) < ErrorCopyLen THEN Len(d) ELSE ErrorCopyLen
           copy == SubSeq(d, 1, n)
           data == hex \o mid \o copy
<1>1. e.code \in 0 .. 255 /\ e.command \in 1 .. 255 /\ d \in Seq(1 .. 255)
  BY GivenAssumption DEF TextIsWritten, Text
<1>2. hex \in Seq(1 .. 255)
  BY <1>1, HexIsText
<1>3. mid \in Seq(1 .. 255)
  BY <1>1 DEF Comma
<1>4. copy \in Seq(1 .. 255)
  <2> HIDE DEF d
  <2>1. Len(d) \in Nat
    BY <1>1, LenProperties
  <2>2. n \in 0 .. Len(d)
    BY <2>1, OutputAssumption
  <2> HIDE DEF n
  <2>3. Take(d, n) \in Seq(1 .. 255)
    BY <1>1, <2>2, Taking
  <2> QED BY <2>3 DEF Take
<1>5. ErrorMessage(e) = Message(48, 48, 101, data)
  BY DEF ErrorMessage
<1> HIDE DEF hex, mid, copy
<1>6. data \in Text
  BY <1>2, <1>3, <1>4, Concats DEF Text
<1> HIDE DEF data
<1> QED BY <1>5, <1>6 DEF Message, IsText, TextMessages

----------------------------------------------------------------------------
(***************************************************************************)
(* The output buffer stays legible, however many bytes of a frame the      *)
(* line has taken and however many a refused message has left.             *)
(***************************************************************************)
OutputIsLegible == Legible(out_buf.bytes)

(* After any puts, and however the line drains the buffer. *)
THEOREM OutputStaysLegible ==
  ASSUME DigitsAreWritten, TextIsWritten
  PROVE  Spec => []OutputIsLegible
<1>1. CrcYieldsDigits
  BY DigitsAreDigits
<1>2. Init => OutputIsLegible
  <2>1. <<>> \in Text /\ \A i \in 1 .. Len(<<>>) : <<>>[i] # Gt
    BY DEF Text
  <2>2. Legible(<<>>)
    BY <2>1, LegibleParts
  <2> QED BY <2>2 DEF Init, NoOutput, OutputIsLegible
<1>3. TypeOK /\ OutputIsLegible /\ [Next]_vars => OutputIsLegible'
  <2> SUFFICES ASSUME TypeOK, OutputIsLegible, [Next]_vars PROVE OutputIsLegible'
    OBVIOUS
  <2>1. out_buf \in Buffers /\ Legible(out_buf.bytes) /\ Legible(out_buf.bytes)
    BY DEF TypeOK, Buffers, Bytes, OutputIsLegible
  <2>2. ASSUME NEW m, IsText(m), NEW outcome \in put_message(out_buf, m), Leaves(outcome)
        PROVE  OutputIsLegible'
    <3>1. Legible(outcome.buf.bytes)
      BY <2>1, <2>2, PutIsLegible
    <3> QED BY <2>2, <3>1 DEF Leaves, OutputIsLegible
  <2>3. ASSUME NEW m \in Puts, PutMessage(m) PROVE OutputIsLegible'
    <3>1. IsText(m)
      BY DEF TextIsWritten, IsText
    <3> QED BY <2>2, <2>3, <3>1 DEF PutMessage
  <2>4. ASSUME NEW payload \in Payloads, PutS(payload) PROVE OutputIsLegible'
    <3>1. IsText(StreamMessage(send_stream_frame_counter, payload))
      BY StreamMessageIsText, CounterType DEF TextIsWritten
    <3>2. CASE Leaves(Outcome(out_buf, "DATA_TOO_LONG"))
      BY <2>1, <3>2 DEF Leaves, Outcome, OutputIsLegible
    <3> QED BY <2>2, <2>4, <3>1, <3>2 DEF PutS
  <2>5. ASSUME NEW e \in Errors, PutError(e) PROVE OutputIsLegible'
    <3>1. IsText(ErrorMessage(e))
      BY ErrorMessageIsText
    <3> QED BY <2>2, <2>5, <3>1 DEF PutError
  <2>6. ASSUME NEW n \in 0 .. Len(out_buf.bytes) PROVE Legible(pop_front_n(out_buf, n).bytes)
    <3>1. Legible(Drop(out_buf.bytes, n))
      BY <2>1, LegibleRest
    <3> QED BY <3>1 DEF pop_front_n
  <2>7. CASE TransmitByte
    <3>1. 1 \in 0 .. Len(out_buf.bytes)
      <4> DEFINE b == out_buf.bytes
      <4>1. b \in Seq(0 .. 255) /\ b # <<>>
        BY <2>1, <2>7 DEF TransmitByte, Buffers, Bytes
      <4> HIDE DEF b
      <4>2. Len(b) \in Nat /\ Len(b) # 0
        BY <4>1, LenProperties, EmptySeq
      <4> QED BY <4>2 DEF b
    <3> QED BY <2>6, <2>7, <3>1 DEF TransmitByte, Leaves, Outcome, OutputIsLegible
  <2>8. CASE TransmitBlock
    <3>1. PICK n \in 0 .. Len(out_buf.bytes) :
            Leaves(Outcome(IF n = Len(out_buf.bytes) THEN NoOutput
                           ELSE pop_front_n(out_buf, n), "none"))
      BY <2>8 DEF TransmitBlock
    <3>2. Legible(NoOutput.bytes)
      <4>1. <<>> \in Text /\ \A i \in 1 .. Len(<<>>) : <<>>[i] # Gt
        BY DEF Text
      <4> QED BY <4>1, LegibleParts DEF NoOutput
    <3> QED BY <2>6, <3>1, <3>2 DEF Leaves, Outcome, OutputIsLegible
  <2>9. CASE UNCHANGED vars
    BY <2>1, <2>9 DEF vars, OutputIsLegible
  <2> QED BY <2>3, <2>4, <2>5, <2>7, <2>8, <2>9 DEF Next
<1> QED BY <1>1, <1>2, <1>3, OutputTypeOK, PTL DEF Spec

(***************************************************************************)
(* Whatever was put, refused half-way, overwritten and sent before, a host *)
(* that starts to listen gets the whole frames of the output buffer and no *)
(* others, each of them once: torn bytes hide none and forge none.         *)
(***************************************************************************)
THEOREM HostHearsTheOutput ==
  ASSUME DigitsAreWritten, TextIsWritten
  PROVE  Spec => []HostGetsWholeFrames
<1>1. OutputIsLegible => HostGetsWholeFrames
  <2> DEFINE s == out_buf.bytes
  <2> SUFFICES ASSUME Legible(s), ~Malformed(s)
               PROVE  /\ {Frame(Heard(s)[i]) : i \in DOMAIN Heard(s)}
                           = {FrameAt(s, f) : f \in FramesIn(s)}
                      /\ Len(Heard(s)) = Cardinality(FramesIn(s))
    BY DEF OutputIsLegible, HostGetsWholeFrames
  <2> HIDE DEF s
  <2>1. In!ChecksumsAreDigits
    BY DigitsAreDigits
  <2>2. s \in Seq(1 .. 255) /\ In!Followed(s) /\ ~In!Malformed(s)
    BY SameHost DEF Legible, Text
  <2>3. /\ {In!Frame(In!Heard(s)[i]) : i \in DOMAIN In!Heard(s)}
             = {In!FrameAt(s, f) : f \in In!FramesIn(s)}
        /\ Len(In!Heard(s)) = In!Cardinality(In!FramesIn(s))
    BY <2>1, <2>2, In!AllFramesAreHeard, SizesAssumption
  <2>4. In!Heard(s) = Heard(s)
    BY SameHost
  <2>5. /\ In!FramesIn(s) = FramesIn(s)
        /\ \A f : In!FrameAt(s, f) = FrameAt(s, f)
        /\ \A m : In!Frame(m) = Frame(m)
    BY SameFrames
  <2>6. In!Cardinality(FramesIn(s)) = Cardinality(FramesIn(s))
    BY DEF In!Cardinality, Cardinality
  <2> QED BY <2>3, <2>4, <2>5, <2>6
<1> QED BY <1>1, OutputStaysLegible, PTL

(* A message that is given is text. *)
LEMMA GivenIsText ==
  ASSUME TextIsWritten, TypeOK, NEW m \in Given
  PROVE  IsText(m)
<1>1. CASE m \in Puts
  BY <1>1 DEF TextIsWritten, IsText
<1>2. ASSUME NEW payload \in Payloads, m = StreamMessage(send_stream_frame_counter, payload)
      PROVE  IsText(m)
  <2>1. payload \in Text /\ send_stream_frame_counter \in 0 .. 255
    BY CounterType DEF TextIsWritten
  <2>2. IsText(StreamMessage(send_stream_frame_counter, payload))
    BY <2>1, StreamMessageIsText
  <2> QED BY <1>2, <2>2
<1>3. ASSUME NEW e \in Errors, m = ErrorMessage(e) PROVE IsText(m)
  <2>1. IsText(ErrorMessage(e))
    BY ErrorMessageIsText
  <2> QED BY <1>3, <2>1
<1> QED BY <1>1, <1>2, <1>3 DEF Given

(* So is its frame. *)
LEMMA FrameIsText ==
  ASSUME DigitsAreWritten, NEW m, IsText(m), Len(m.data) <= MAXDATALEN
  PROVE  Frame(m) \in Text /\ m \in In!MessageRecords
<1> DEFINE b == Body(m)
           c == Crc(b)
           nl == <<Nl>>
<1>1. b \in Text /\ b \in Bytes
  BY BodyIsLegible DEF Legible
<1>2. c \in Seq(1 .. 255)
  <2> DEFINE T == (1 .. 255) \ Delimiters
  <2>1. c \in Seq(T)
    BY <1>1 DEF DigitsAreWritten
  <2>2. \A x \in T : x \in 1 .. 255
    OBVIOUS
  <2> HIDE DEF T, c
  <2>3. Len(c) \in Nat /\ c \in [1 .. Len(c) -> T]
    BY <2>1, LenProperties
  <2>4. c \in [1 .. Len(c) -> 1 .. 255]
    BY <2>2, <2>3
  <2> QED BY <2>3, <2>4, RetypedSeq
<1>3. nl \in Seq(1 .. 255)
  BY DEF Nl
<1>4. Frame(m) = b \o c \o nl
  BY DEF Frame
<1> HIDE DEF b, c, nl
<1>5. Frame(m) \in Text
  BY <1>1, <1>2, <1>3, <1>4, Concats DEF Text
<1>6. m.data \in Seq(0 .. 255)
  BY TextIsOfBytes DEF IsText, TextMessages
<1>7. m \in In!MessageRecords
  BY <1>6 DEF IsText, TextMessages, In!MessageRecords
<1> QED BY <1>5, <1>7

(***************************************************************************)
(* A message that is put without an exception reaches the host, as it was  *)
(* given, behind those the host would get anyway: what                     *)
(* put_message_in_output_buffer pushes get_message_from_input_buffer       *)
(* unpacks, also behind the torn bytes of refused messages.                *)
(***************************************************************************)
THEOREM PutsReachTheHost ==
  ASSUME DigitsAreWritten, TextIsWritten
  PROVE  Spec => AcceptedPutReachesTheHost
<1> DEFINE P == \A m \in Given :
                  Put(m) /\ err' = "none" /\ Plain(m) /\ ~wraps(out_buf)
                    /\ ~Malformed(out_buf.bytes)
                    => Heard(out_buf'.bytes) = Append(Heard(out_buf.bytes), m)
<1>1. CrcYieldsDigits /\ In!ChecksumsAreDigits
  BY DigitsAreDigits
<1>2. TypeOK /\ OutputIsLegible /\ [Next]_vars => [P]_vars
  <2> SUFFICES ASSUME TypeOK, OutputIsLegible, NEW m \in Given,
                      Put(m), err' = "none", Plain(m), ~wraps(out_buf),
                      ~Malformed(out_buf.bytes)
               PROVE  Heard(out_buf'.bytes) = Append(Heard(out_buf.bytes), m)
    OBVIOUS
  <2> DEFINE s == out_buf.bytes
  <2>1. out_buf'.bytes = s \o Frame(m) /\ Len(m.data) <= MAXDATALEN
    BY <1>1, PutAppends
  <2>2. Frame(m) \in Seq(1 .. 255) /\ m \in In!MessageRecords
    BY <2>1, GivenIsText, FrameIsText DEF Text
  <2>3. s \in Seq(1 .. 255) /\ In!Followed(s)
    BY DEF OutputIsLegible, Legible, Text
  <2>4. ~In!Malformed(s)
    BY SameHost
  <2>5. In!IsMessage(m) /\ In!Plain(m)
    BY <2>2 DEF In!IsMessage, In!Plain, Plain, In!Delimiters, Delimiters,
       In!Gt, Gt, In!Dot, Dot, In!Nl, Nl
  <2>6. In!Frame(m) = Frame(m)
    BY SameFrames
  <2> HIDE DEF s
  <2>7. In!Heard(s \o In!Frame(m)) = Append(In!Heard(s), m)
    BY <1>1, <2>1, <2>2, <2>3, <2>4, <2>5, <2>6, In!FrameIsHeardLast, SizesAssumption
  <2>8. In!Heard(s) = Heard(s) /\ In!Heard(s \o Frame(m)) = Heard(s \o Frame(m))
    BY SameHost
  <2>9. Heard(s \o Frame(m)) = Append(Heard(s), m)
    BY <2>6, <2>7, <2>8
  <2> QED BY <2>1, <2>9 DEF s
<1> QED BY <1>1, <1>2, OutputTypeOK, OutputStaysLegible, PTL DEF Spec, AcceptedPutReachesTheHost

=============================================================================
