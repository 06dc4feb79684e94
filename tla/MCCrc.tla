------------------------------- MODULE MCCrc -------------------------------
(***************************************************************************)
(* Crc with frames of up to three bytes, in blocks of one and two; every   *)
(* byte stands behind a '>', and meets every entry of the tables.          *)
(***************************************************************************)
EXTENDS Crc

MCBlocks == {<<0>>, <<46>>, <<255>>} \cup {<<62, b>> : b \in 0 .. 255}

(* Checksums that the unit tests give: of ">00w." (23A6), ">xxx." (79BD)   *)
(* and ">00wFFFF." (9F3B).                                                 *)
Tested ==
  {<<<<62, 48, 48, 119, 46>>, <<50, 51, 65, 54>>>>,
   <<<<62, 120, 120, 120, 46>>, <<55, 57, 66, 68>>>>,
   <<<<62, 48, 48, 119, 70, 70, 70, 70, 46>>, <<57, 70, 51, 66>>>>}

ASSUME TestedChecksums == \A t \in Tested : to_hex(Crc16Dnp(t[1]), 4) = t[2]

=============================================================================
