-------------------------------- MODULE Crc --------------------------------
(***************************************************************************)
(* CRC-16/DNP: the four implementations that ascii_serial_com.c can be     *)
(* built with (bit by bit, bit by bit fast, a table of 16, a table of 256), *)
(* and the way compute_checksum feeds them, block by block, and makes four *)
(* characters of the result.  Numbers are sets of bits, as in Hex.         *)
(***************************************************************************)
EXTENDS Hex

CONSTANTS
  Widths,   (* the widths that uint_fast16_t has on some platform           *)
  Blocks,   (* sequences of bytes that compute_checksum feeds               *)
  MaxBytes  (* bound on the bytes fed                                       *)

(* An uint_fast16_t has at least 16 bits.                                  *)
ASSUME WidthsAssumption == Widths \subseteq Nat /\ \A w \in Widths : w >= 16

ASSUME BlocksAssumption == Blocks \subseteq Seq(0 .. 255) /\ MaxBytes \in Nat

VARIABLES
  width,    (* of uint_fast16_t                                             *)
  bytes,    (* what has been fed                                            *)
  crc       (* the variable crc of compute_checksum, for each implementation *)

crc_vars == <<width, bytes, crc>>

----------------------------------------------------------------------------
BitsOf(n, w) == {b \in 0 .. w - 1 : (n \div 2^b) % 2 = 1}
Bits16(n) == BitsOf(n, 16)
Byte(n) == BitsOf(n, 8)
Low(bits, n) == {b \in bits : b < n}
Xor(a, b) == (a \ b) \cup (b \ a)

(* << 1 in an uint_fast16_t, and >> n.                                     *)
Left(bits) == Low(Shift(bits, 1), width)
Right(bits, n) == Shift({b \in bits : b >= n}, -n)

Poly == Bits16(\h3D65)
Ones == 0 .. 15

(* _reflect of the two bit-by-bit implementations.                         *)
reflect(data, data_len) == {data_len - 1 - b : b \in Low(data, data_len)}

(* What a loop makes of start, that takes one step for each element of s;  *)
(* and a loop from 0 to n - 1.                                             *)
Feed(step(_, _), start, s) ==
  LET after[k \in 0 .. Len(s)] == IF k = 0 THEN start ELSE step(after[k - 1], s[k])
  IN  after[Len(s)]

Loop(body(_, _), start, n) == Feed(body, start, [i \in 1 .. n |-> i - 1])

----------------------------------------------------------------------------
(* crc_16_dnp_bbb: the message is shifted in behind the register.          *)
bbb_shift(c, in) ==
  LET shifted == Left(c) \cup in
  IN  IF 15 \in c THEN Xor(shifted, Poly) ELSE shifted

bbb_byte(c, byte) ==
  LET bit(i) == IF 7 - i \in reflect(Byte(byte), 8) THEN {0} ELSE {}
  IN  Low(Loop(LAMBDA register, i : bbb_shift(register, bit(i)), c, 8), 16)

bbb_update(c, data) == Feed(bbb_byte, c, data)

bbb_finalize(c) ==
  Xor(reflect(Loop(LAMBDA register, i : bbb_shift(register, {}), c, 16), 16), Ones)

(* crc_16_dnp_bbf: the message meets the register's last bit.              *)
bbf_bit(c, bit) == IF (15 \in c) # bit THEN Xor(Left(c), Poly) ELSE Left(c)

(* Mutant: what is shifted out is kept. *)
bbf_byte_Unmasked(c, byte) ==
  Loop(LAMBDA register, i : bbf_bit(register, i \in Byte(byte)), c, 8)

bbf_byte(c, byte) ==
  Low(Loop(LAMBDA register, i : bbf_bit(register, i \in Byte(byte)), c, 8), 16)

bbf_update(c, data) == Feed(bbf_byte, c, data)
bbf_finalize(c) == Xor(reflect(c, 16), Ones)

(* crc_16_dnp_tbl4bit, which is the one the programs are built with.       *)
crc_table ==
  [i \in 1 .. 16 |-> Bits16(
    <<\h0000, \hB26B, \h29AF, \h9BC4, \h535E, \hE135, \h7AF1, \hC89A,
      \hA6BC, \h14D7, \h8F13, \h3D78, \hF5E2, \h4789, \hDC4D, \h6E26>>[i])]

tbl4bit_nibble(c, nibble) ==
  Xor(crc_table[Number(Low(Xor(c, nibble), 4)) + 1], Right(c, 4))

tbl4bit_byte(c, byte) ==
  tbl4bit_nibble(tbl4bit_nibble(c, Byte(byte)), Right(Byte(byte), 4))

tbl4bit_update(c, data) == Feed(tbl4bit_byte, c, data)
tbl4bit_finalize(c) == Xor(c, Ones)

(* computeCRC_16_DNP, complemented on the way in and out.                  *)
table ==
  [i \in 1 .. 256 |-> Bits16(
    <<\h0000, \h365E, \h6CBC, \h5AE2, \hD978, \hEF26, \hB5C4, \h839A,
      \hFF89, \hC9D7, \h9335, \hA56B, \h26F1, \h10AF, \h4A4D, \h7C13,
      \hB26B, \h8435, \hDED7, \hE889, \h6B13, \h5D4D, \h07AF, \h31F1,
      \h4DE2, \h7BBC, \h215E, \h1700, \h949A, \hA2C4, \hF826, \hCE78,
      \h29AF, \h1FF1, \h4513, \h734D, \hF0D7, \hC689, \h9C6B, \hAA35,
      \hD626, \hE078, \hBA9A, \h8CC4, \h0F5E, \h3900, \h63E2, \h55BC,
      \h9BC4, \hAD9A, \hF778, \hC126, \h42BC, \h74E2, \h2E00, \h185E,
      \h644D, \h5213, \h08F1, \h3EAF, \hBD35, \h8B6B, \hD189, \hE7D7,
      \h535E, \h6500, \h3FE2, \h09BC, \h8A26, \hBC78, \hE69A, \hD0C4,
      \hACD7, \h9A89, \hC06B, \hF635, \h75AF, \h43F1, \h1913, \h2F4D,
      \hE135, \hD76B, \h8D89, \hBBD7, \h384D, \h0E13, \h54F1, \h62AF,
      \h1EBC, \h28E2, \h7200, \h445E, \hC7C4, \hF19A, \hAB78, \h9D26,
      \h7AF1, \h4CAF, \h164D, \h2013, \hA389, \h95D7, \hCF35, \hF96B,
      \h8578, \hB326, \hE9C4, \hDF9A, \h5C00, \h6A5E, \h30BC, \h06E2,
      \hC89A, \hFEC4, \hA426, \h9278, \h11E2, \h27BC, \h7D5E, \h4B00,
      \h3713, \h014D, \h5BAF, \h6DF1, \hEE6B, \hD835, \h82D7, \hB489,
      \hA6BC, \h90E2, \hCA00, \hFC5E, \h7FC4, \h499A, \h1378, \h2526,
      \h5935, \h6F6B, \h3589, \h03D7, \h804D, \hB613, \hECF1, \hDAAF,
      \h14D7, \h2289, \h786B, \h4E35, \hCDAF, \hFBF1, \hA113, \h974D,
      \hEB5E, \hDD00, \h87E2, \hB1BC, \h3226, \h0478, \h5E9A, \h68C4,
      \h8F13, \hB94D, \hE3AF, \hD5F1, \h566B, \h6035, \h3AD7, \h0C89,
      \h709A, \h46C4, \h1C26, \h2A78, \hA9E2, \h9FBC, \hC55E, \hF300,
      \h3D78, \h0B26, \h51C4, \h679A, \hE400, \hD25E, \h88BC, \hBEE2,
      \hC2F1, \hF4AF, \hAE4D, \h9813, \h1B89, \h2DD7, \h7735, \h416B,
      \hF5E2, \hC3BC, \h995E, \hAF00, \h2C9A, \h1AC4, \h4026, \h7678,
      \h0A6B, \h3C35, \h66D7, \h5089, \hD313, \hE54D, \hBFAF, \h89F1,
      \h4789, \h71D7, \h2B35, \h1D6B, \h9EF1, \hA8AF, \hF24D, \hC413,
      \hB800, \h8E5E, \hD4BC, \hE2E2, \h6178, \h5726, \h0DC4, \h3B9A,
      \hDC4D, \hEA13, \hB0F1, \h86AF, \h0535, \h336B, \h6989, \h5FD7,
      \h23C4, \h159A, \h4F78, \h7926, \hFABC, \hCCE2, \h9600, \hA05E,
      \h6E26, \h5878, \h029A, \h34C4, \hB75E, \h8100, \hDBE2, \hEDBC,
      \h91AF, \hA7F1, \hFD13, \hCB4D, \h48D7, \h7E89, \h246B, \h1235>>[i])]

crcmod_byte(c, byte) ==
  Xor(table[Number(Xor(Byte(byte), Low(c, 8))) + 1], Right(c, 8))

(* Mutant: the complement is not undone for the next block. *)
computeCRC_16_DNP_Again(data, c) == Xor(Feed(crcmod_byte, c, data), Ones)

computeCRC_16_DNP(data, c) == Xor(Feed(crcmod_byte, Xor(c, Ones), data), Ones)

----------------------------------------------------------------------------
(* compute_checksum: a block is fed.  The result goes to an uint16_t.       *)
Update(block) ==
  /\ Len(bytes) + Len(block) <= MaxBytes
  /\ crc' = [bbb     |-> bbb_update(crc.bbb, block),
             bbf     |-> bbf_update(crc.bbf, block),
             tbl4bit |-> tbl4bit_update(crc.tbl4bit, block),
             crcmod  |-> computeCRC_16_DNP(block, crc.crcmod)]
  /\ bytes' = bytes \o block
  /\ UNCHANGED width

CrcInit ==
  /\ width \in Widths
  /\ bytes = <<>>
  /\ crc = [bbb |-> {}, bbf |-> {}, tbl4bit |-> {}, crcmod |-> Ones]

CrcNext == \E block \in Blocks : Update(block)

CrcSpec == CrcInit /\ [][CrcNext]_crc_vars

Checksums ==
  {bbb_finalize(crc.bbb), bbf_finalize(crc.bbf), tbl4bit_finalize(crc.tbl4bit), crc.crcmod}

----------------------------------------------------------------------------
(* Properties.                                                             *)

(* CRC-16/DNP by its definition: bytes are a polynomial over two elements, *)
(* the first bit sent, which is the lowest, having the highest degree; it  *)
(* is shifted by 16, divided, and the remainder reflected and complemented. *)
Generator == {16, 13, 12, 11, 10, 8, 6, 5, 2, 0}

(* Division by hand: from each degree down to 16, the generator is         *)
(* subtracted where there is a term.                                       *)
subtract(p, degree) == IF degree \in p THEN Xor(p, Shift(Generator, degree - 16)) ELSE p
Remainder(p, n) == Feed(subtract, p, [k \in 1 .. n - 15 |-> n + 1 - k])

Polynomial(s) == UNION {{8 * (Len(s) - k) + 7 - b : b \in Byte(s[k])} : k \in DOMAIN s}

Crc16Dnp(s) ==
  Xor({15 - d : d \in Remainder(Shift(Polynomial(s), 16), 8 * Len(s) + 15)}, Ones)

(* What the updates return fits in the uint16_t it is assigned to. *)
ChecksumsFit ==
  /\ width \in Widths
  /\ bytes \in Seq(0 .. 255) /\ Len(bytes) <= MaxBytes
  /\ \A name \in DOMAIN crc : crc[name] \subseteq Ones

(***************************************************************************)
(* Each implementation computes CRC-16/DNP, into whatever blocks the ring  *)
(* cuts the frame, however wide the type of the registers is: a program    *)
(* built with one of them understands those built with another.            *)
(***************************************************************************)
ChecksumIsTheRemainder == Checksums = {Crc16Dnp(bytes)}

(***************************************************************************)
(* What convert_uint16_to_hex makes of a checksum reads back as it, in     *)
(* both cases, and never contains a character of the frame; numbers of 8   *)
(* and 32 bits read back as well.                                          *)
(***************************************************************************)
LowerCase(chars) == [i \in DOMAIN chars |-> IF chars[i] \in 65 .. 70 THEN chars[i] + 32 ELSE chars[i]]

ReadsBack(bits, n) ==
  LET chars == to_hex(bits, n)
  IN  /\ AllHex(chars)
      /\ from_hex(chars) = bits /\ from_hex(LowerCase(chars)) = bits

ChecksumsReadBack ==
  \A c \in Checksums :
    /\ ReadsBack(c, 4)
    /\ ReadsBack(Low(c, 8), 2)
    /\ ReadsBack(c \cup Shift(Xor(c, Ones), 16), 8)

=============================================================================
