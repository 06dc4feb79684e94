------------------------------ MODULE AscFrame ------------------------------
(***************************************************************************)
(* The frame of ascii_serial_com.c,                                        *)
(*                                                                         *)
(*     > ascVersion appVersion command data ... . checksum ... \n          *)
(*                                                                         *)
(* with NCHARCHECKSUM checksum characters computed over the bytes from '>' *)
(* to '.', both included.  Bytes are their ASCII codes.                    *)
(***************************************************************************)
EXTENDS Integers, Sequences

CONSTANTS
  MAXMESSAGELEN,  (* capacity of both buffers and length of the longest frame *)
  MAXDATALEN,     (* length of the longest data                             *)
  NCHARCHECKSUM,  (* characters of the checksum                             *)
  Crc(_)          (* a sequence of bytes to its NCHARCHECKSUM hex digits    *)

ASSUME SizesAssumption ==
  /\ MAXDATALEN \in Nat /\ NCHARCHECKSUM \in Nat \ {0}
  /\ MAXMESSAGELEN = MAXDATALEN + NCHARCHECKSUM + 6

Gt    == 62  \* '>'
Dot   == 46  \* '.'
Nl    == 10  \* '\n'
Comma == 44  \* ','

Delimiters == {Gt, Dot, Nl}

(* What put_message is given and get_message hands over.                   *)
Message(ascVersion, appVersion, command, data) ==
  [ascVersion |-> ascVersion, appVersion |-> appVersion,
   command |-> command, data |-> data]

Body(m) == <<Gt, m.ascVersion, m.appVersion, m.command>> \o m.data \o <<Dot>>
Frame(m) == Body(m) \o Crc(Body(m)) \o <<Nl>>

(* A message whose fields cannot be taken for the frame's own characters.  *)
Plain(m) ==
  /\ {m.ascVersion, m.appVersion, m.command} \cap Delimiters = {}
  /\ \A i \in 1 .. Len(m.data) : m.data[i] \notin Delimiters

IsFrame(f) ==
  /\ Len(f) \in NCHARCHECKSUM + 6 .. MAXMESSAGELEN
  /\ LET m == Message(f[2], f[3], f[4], SubSeq(f, 5, Len(f) - NCHARCHECKSUM - 2))
     IN  Plain(m) /\ f = Frame(m)

(***************************************************************************)
(* What compute_checksum throws when the '>' and the '.' it uses are found *)
(* at iStart and iStop of a buffer of the given size.                      *)
(***************************************************************************)

(* Mutant: the limit leaves no room for the '\n'. *)
checksum_error_NoNewline(size, iStart, iStop) ==
  CASE iStart >= size -> "INVALID_FRAME"
    [] iStart < size /\ iStop >= size -> "INVALID_FRAME_PERIOD"
    [] iStart < size /\ iStop < size /\ iStop >= MAXMESSAGELEN - NCHARCHECKSUM ->
         "CHECKSUM_PROBLEM"
    [] OTHER -> IF iStop - iStart < 4 THEN "INVALID_FRAME_PERIOD" ELSE "none"

(* Mutant: the header may lack a character. *)
checksum_error_Short(size, iStart, iStop) ==
  CASE iStart >= size -> "INVALID_FRAME"
    [] iStart < size /\ iStop >= size -> "INVALID_FRAME_PERIOD"
    [] iStart < size /\ iStop < size /\ iStop >= MAXMESSAGELEN - NCHARCHECKSUM - 1 ->
         "CHECKSUM_PROBLEM"
    [] OTHER -> IF iStop - iStart < 3 THEN "INVALID_FRAME_PERIOD" ELSE "none"

checksum_error(size, iStart, iStop) ==
  CASE iStart >= size -> "INVALID_FRAME"
    [] iStart < size /\ iStop >= size -> "INVALID_FRAME_PERIOD"
    [] iStart < size /\ iStop < size /\ iStop >= MAXMESSAGELEN - NCHARCHECKSUM - 1 ->
         "CHECKSUM_PROBLEM"
    [] OTHER -> IF iStop - iStart < 4 THEN "INVALID_FRAME_PERIOD" ELSE "none"

=============================================================================
