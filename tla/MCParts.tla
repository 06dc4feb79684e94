------------------------------- MODULE MCParts -------------------------------
(***************************************************************************)
(* The device, the checksum and the timer in one run.  They share no state *)
(* (each is used by the programs, none by another), so that the behaviours *)
(* of one with the others at rest are all that matter: one part moves in   *)
(* each behaviour.                                                         *)
(***************************************************************************)
EXTENDS MCAscDevice, MCCrc, MCMillisecTimer

VARIABLE part  (* the part that moves *)

parts_vars == <<vars, crc_vars, timer_vars, part>>

Parts == {"device", "checksum", "timer"}

(* A part at rest is as it starts, in one of the ways it can.              *)
PartsInit ==
  /\ part \in Parts
  /\ Init /\ CrcInit /\ TimerInit
  /\ part # "device" => config.func_rw = "none"
  /\ part # "checksum" => width = 16

DeviceMoves   == part = "device" /\ Next /\ UNCHANGED <<crc_vars, timer_vars, part>>
ChecksumMoves == part = "checksum" /\ CrcNext /\ UNCHANGED <<vars, timer_vars, part>>
TimerMoves    == part = "timer" /\ TimerNext /\ UNCHANGED <<vars, crc_vars, part>>

(* No more blocks are fed: the checksum is done.                           *)
ChecksumDone == part = "checksum" /\ Len(bytes) = MaxBytes /\ UNCHANGED parts_vars

PartsNext == DeviceMoves \/ ChecksumMoves \/ TimerMoves \/ ChecksumDone

PartsSpec == PartsInit /\ [][PartsNext]_parts_vars

=============================================================================
