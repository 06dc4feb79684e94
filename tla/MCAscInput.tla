----------------------------- MODULE MCAscInput -----------------------------
(***************************************************************************)
(* AscInput with 16-byte buffers and one checksum character: a shortest    *)
(* frame has 7 bytes, so that two frames and noise fit in the buffer.      *)
(***************************************************************************)
EXTENDS AscInput

(* A checksum that notices every altered, missing or added character of a  *)
(* short frame but, like the CRC, not every change of many.                *)
MCCrc(bytes) ==
  << 48 + (MapThenSumSet(LAMBDA i : i * bytes[i], 1 .. Len(bytes)) % 7) >>

(* ">00w." and ">00r0.".                                                   *)
MCMessages == {Message(48, 48, 119, <<>>), Message(48, 48, 114, <<48>>)}

MCNoise == Delimiters \cup {48}

=============================================================================
