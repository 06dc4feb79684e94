-------------------------------- MODULE Hex ---------------------------------
(***************************************************************************)
(* The hexadecimal conversions of ascii_serial_com.c.  An unsigned number  *)
(* is the set of its bits that are 1, so that "|", "&" and "~" are union,  *)
(* intersection and difference; characters are their ASCII codes.          *)
(***************************************************************************)
EXTENDS Integers, Sequences

Shift(bits, by) == {b + by : b \in bits}

(* The four bits of a number below 16, and the number of four bits.        *)
Nibble(n) == {b \in 0 .. 3 : (n \div 2^b) % 2 = 1}
Weight(bits, b) == IF b \in bits THEN 2^b ELSE 0
NibbleNumber(bits) == Weight(bits, 0) + Weight(bits, 1) + Weight(bits, 2) + Weight(bits, 3)

(* The value of a uint16_t.                                                *)
Number(bits) ==
  NibbleNumber(bits) + 16 * NibbleNumber(Shift(bits, -4))
    + 256 * NibbleNumber(Shift(bits, -8)) + 4096 * NibbleNumber(Shift(bits, -12))

(* A digit of convert_uint8_to_hex, with capital letters.                  *)
hex_digit(n) == IF n < 10 THEN 48 + n ELSE 65 + n - 10

(* What convert_hex_to_uint8 reads, in both cases, and its value.          *)
IsHex(char) == char \in (48 .. 57) \cup (65 .. 70) \cup (97 .. 102)
AllHex(chars) == \A i \in DOMAIN chars : IsHex(chars[i])

(* Mutant: small letters count from '`'. *)
hex_value_SmallFromOne(char) ==
  CASE char \in 48 .. 57  -> char - 48
    [] char \in 65 .. 70  -> char - 65 + 10
    [] char \in 97 .. 102 -> char - 96 + 10

hex_value(char) ==
  CASE char \in 48 .. 57  -> char - 48
    [] char \in 65 .. 70  -> char - 65 + 10
    [] char \in 97 .. 102 -> char - 97 + 10

(* convert_uint8_to_hex, _uint16_ and _uint32_: n characters.              *)
to_hex(bits, n) ==
  [i \in 1 .. n |->
     LET low == 4 * (n - i)
     IN  hex_digit(NibbleNumber(Shift(bits, -low)))]

(* convert_hex_to_uint8, _uint16 and _uint32, for characters that AllHex.  *)
from_hex(chars) ==
  UNION {Shift(Nibble(hex_value(chars[i])), 4 * (Len(chars) - i)) : i \in DOMAIN chars}

=============================================================================
