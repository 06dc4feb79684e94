---------------------------- MODULE RegisterFile ----------------------------
(***************************************************************************)
(* What a host is promised by a device with registers: each request is     *)
(* answered from the request and the registers alone, as if at one moment, *)
(* and no earlier message shows in it.  A request with a fault changes     *)
(* nothing and is answered with one of its faults, or the program is told  *)
(* by an exception.  Two things a host has to live with:                   *)
(*   - a masked write may undo a change that the hardware made just then;  *)
(*   - an answer is lost if the output buffer has no room for it, even if  *)
(*     the register has been written.                                      *)
(* A third is a parameter: the device may take a value of the wrong length *)
(* in the requests Unnoticed; digits that are missing can then be any, and *)
(* digits too many are ignored.  With none in it every wrong length is     *)
(* refused: "reg value the wrong number of bytes" (asc_exception.h).       *)
(***************************************************************************)
EXTENDS RegisterMessages

CONSTANT Unnoticed

VARIABLES config, registers, streaming_is_on, answer

vars == <<config, registers, streaming_is_on, answer>>

(* A block is memory of the program, without NULL pointers and masks.      *)
Exists(r) == config.func_rw = "block" \/ r \in pointers
Mask(r)   == IF config.func_rw = "block" THEN Bits ELSE write_masks[r]

(* What a host reads; a register whose pointer is NULL reads as zero.      *)
Value(r)  == IF Exists(r) THEN registers[r] ELSE {}

(* An answer that is put, or lost for lack of room. *)
Answers(m, reply) == {Replied(m, reply), Threw(m, "CHECKSUM_PROBLEM")}

----------------------------------------------------------------------------
NumberOf(m) == SubSeq(m.data, 1, 4)
HasNumber(m) == Len(m.data) >= 4 /\ AllHex(NumberOf(m))
Register(m) == Number(from_hex(NumberOf(m)))
NamesRegister(m) == HasNumber(m) /\ Register(m) < n_regs

Implemented(command) ==
  \/ command \in {NUL, Z}
  \/ command \in {R, W} /\ config.func_rw # "none"
  \/ command \in {N, F} /\ config.func_nf

(* The digits of a value: those of the request, completed with any.        *)
ValuesOf(m) ==
  {value \in [1 .. Digits -> Chars] :
     \A i \in 1 .. Digits : 5 + i <= Len(m.data) => value[i] = m.data[5 + i]}

WrongLength(m) == Len(m.data) # 5 + Digits /\ m \notin Unnoticed

(* The faults of a request.                                                *)
Deserves(m, code) ==
  \/ code = "COMMAND_NOT_IMPLEMENTED" /\ ~Implemented(m.command)
  \/ /\ m.command \in {R, W} /\ Implemented(m.command)
     /\ \/ code = "REG_BLOCK_NULL" /\ ~config.state_rw
        \/ code = "DATA_TOO_SHORT" /\ Len(m.data) < 4
        \/ code = "NOT_HEX_CHAR" /\ Len(m.data) >= 4 /\ ~HasNumber(m)
        \/ code = "REGNUM_OOB" /\ HasNumber(m) /\ ~NamesRegister(m)
        \/ code = "REGVAL_LEN" /\ m.command = W /\ WrongLength(m)
        \/ /\ code = "NOT_HEX_CHAR" /\ m.command = W
           /\ \E value \in ValuesOf(m) : ~AllHex(value)

Codes == {"COMMAND_NOT_IMPLEMENTED", "REG_BLOCK_NULL", "DATA_TOO_SHORT",
          "NOT_HEX_CHAR", "REGNUM_OOB", "REGVAL_LEN"}

Served(m) == Implemented(m.command) /\ config.state_rw /\ NamesRegister(m)

----------------------------------------------------------------------------
Init ==
  /\ config \in Configs
  /\ registers = initial_values
  /\ streaming_is_on = FALSE
  /\ answer = Replied(NoReply, NoReply)

Refuse(m) ==
  /\ \E code \in Codes :
       /\ answer' \in Answers(m, ErrorReply(m, code)) \cup {Threw(m, code)}
       /\ Deserves(m, code)
  /\ UNCHANGED <<config, registers, streaming_is_on>>

Ignore(m) ==
  /\ m.command \in {NUL, Z}
  /\ answer' = Replied(m, NoReply)
  /\ UNCHANGED <<config, registers, streaming_is_on>>

Switch(m) ==
  /\ m.command \in {N, F} /\ config.func_nf
  /\ streaming_is_on' = (m.command = N)
  /\ answer' = Replied(m, NoReply)
  /\ UNCHANGED <<config, registers>>

Read(m) ==
  /\ m.command = R /\ Served(m)
  /\ answer' \in Answers(m,
       Reply(R, NumberOf(m) \o <<Comma>> \o to_hex(Value(Register(m)), Digits)))
  /\ UNCHANGED <<config, registers, streaming_is_on>>

(* The bits of r that are not written stay, or are what they just were.    *)
Unwritten(r) == {kept \in SUBSET (Bits \ Mask(r)) :
                   (kept \ registers[r]) \cup (registers[r] \ (Mask(r) \cup kept))
                     \subseteq hardware_bits[r]}

Write(m) ==
  /\ m.command = W /\ Served(m) /\ ~WrongLength(m)
  /\ answer' \in Answers(m, Reply(W, NumberOf(m)))
  /\ \/ ~Exists(Register(m)) /\ UNCHANGED registers
     \/ /\ Exists(Register(m))
        /\ \E value \in ValuesOf(m), kept \in Unwritten(Register(m)) :
             /\ AllHex(value)
             /\ registers' = [registers EXCEPT ![Register(m)] =
                                (from_hex(value) \cap Mask(Register(m))) \cup kept]
  /\ UNCHANGED <<config, streaming_is_on>>

(* An interrupt or the hardware changes a bit.                             *)
Hardware ==
  /\ \E r \in pointers : \E bit \in hardware_bits[r] :
       registers' = [registers EXCEPT ![r] = IF bit \in @ THEN @ \ {bit} ELSE @ \cup {bit}]
  /\ config.func_rw = "pointers"
  /\ UNCHANGED <<config, streaming_is_on, answer>>

Next ==
  \/ \E m \in Requests : Refuse(m) \/ Ignore(m) \/ Switch(m) \/ Read(m) \/ Write(m)
  \/ Hardware

Spec == Init /\ [][Next]_vars

=============================================================================
