----------------------------- MODULE AscDevice ------------------------------
(***************************************************************************)
(* ascii_serial_com_device.c with the two register handlers,               *)
(* ascii_serial_com_register_block.c and ascii_serial_com_register_-       *)
(* pointers.c, as the programs set them up (Configs).                      *)
(*                                                                         *)
(* The data of each frame goes into one buffer, which keeps what earlier   *)
(* frames and replies left behind it: the handlers build a reply in place. *)
(* A masked write reads the register, and stores it one step later: an     *)
(* interrupt or the hardware can come between.  put_message either appends *)
(* its message or refuses it for lack of room (AscOutput).  The version    *)
(* characters, which are handed through, are left out, and so is func_s,   *)
(* which no program with registers sets.                                   *)
(***************************************************************************)
EXTENDS RegisterMessages

CONSTANTS
  BadData,       (* data that get_message leaves in the buffer and throws   *)
  BufferLen      (* modelled part of dataBuffer: what is read of it         *)

ASSUME BufferAssumption ==
  /\ BufferLen \in Nat /\ BufferLen >= 5 + Digits
  /\ BadData \subseteq Seq(Chars)

VARIABLES
  config, registers, streaming_is_on,
  dataBuffer,
  store,   (* the write between the read and the store of its register      *)
  answer   (* the last request, the reply put, or what was thrown           *)

vars == <<config, registers, streaming_is_on, dataBuffer, store, answer>>

(* Writes with a value of the wrong length that the handlers do not refuse: *)
(* they ask for REGWIDTHBYTES characters, and there are two in a byte.     *)
Unnoticed ==
  {m \in Requests : /\ m.command = W
                    /\ Len(m.data) >= 5 + REGWIDTHBYTES /\ Len(m.data) # 5 + Digits}

Promised == INSTANCE RegisterFile
Meant    == INSTANCE RegisterFile WITH Unnoticed <- {}

(* Outcomes of receive.                                                    *)
Nothing(m)     == answer' = Replied(m, NoReply)
Throw(m, code) == answer' = Threw(m, code)

(* put_message_in_output_buffer and put_error_in_output_buffer.            *)
put_message(m, reply) == answer' = Replied(m, reply) \/ Throw(m, "CHECKSUM_PROBLEM")
put_error(m, code) == put_message(m, ErrorReply(m, code))

----------------------------------------------------------------------------
(* The register handlers.                                                  *)

(* Data written over the front of the buffer.                              *)
Overlay(buffer, data) ==
  [i \in 1 .. BufferLen |-> IF i <= Len(data) THEN data[i] ELSE buffer[i]]

reg_num(buffer) == Number(from_hex(SubSeq(buffer, 1, 4)))

(* Mutant: one digit too many. *)
value_chars_Long(buffer) == <<buffer[6]>> \o SubSeq(buffer, 6, 5 + Digits)

(* Mutant: the comma is not skipped. *)
value_chars_NoComma(buffer) == SubSeq(buffer, 5, 4 + Digits)

value_chars(buffer) == SubSeq(buffer, 6, 5 + Digits)

(* The tests that both handlers make, in their order.                      *)
rw_error(m) ==
  CASE ~config.state_rw -> "REG_BLOCK_NULL"
    [] config.state_rw /\ Len(m.data) < 4 -> "DATA_TOO_SHORT"
    [] OTHER ->
         IF ~AllHex(SubSeq(m.data, 1, 4)) THEN "NOT_HEX_CHAR"
         ELSE IF reg_num(m.data) >= n_regs THEN "REGNUM_OOB"
         ELSE IF m.command = W /\ Len(m.data) < 5 + REGWIDTHBYTES THEN "REGVAL_LEN"
         ELSE "none"

(* The block handler throws its errors; the other one puts them in the     *)
(* output buffer, but lets an exception of convert_hex pass.               *)
rw_refuse(m, code) ==
  IF config.func_rw = "block" \/ code = "NOT_HEX_CHAR" THEN Throw(m, code)
  ELSE put_error(m, code)

HasPointer(r) == config.func_rw = "block" \/ r \in pointers

(* "data[4] = ','" and the value behind it. *)
read_reply(buffer, r) ==
  SubSeq(buffer, 1, 4) \o <<Comma>>
    \o to_hex(IF HasPointer(r) THEN registers[r] ELSE {}, Digits)

HandleRead(m, buffer) ==
  LET reply == read_reply(buffer, reg_num(buffer))
  IN  /\ dataBuffer' = Overlay(buffer, reply)
      /\ put_message(m, Reply(R, reply))
      /\ UNCHANGED <<registers, store>>

NoStore == [reg |-> n_regs, request |-> NoReply, new_reg_val |-> {}, pointer |-> {}]
Idle == store.reg = n_regs

HandleWrite(m, buffer) ==
  LET r == reg_num(buffer)
      chars == value_chars(buffer)
      Put == put_message(m, Reply(W, SubSeq(buffer, 1, 4)))
  IN  /\ dataBuffer' = buffer
      /\ \/ /\ ~HasPointer(r)
            /\ Put
            /\ UNCHANGED <<registers, store>>
         \/ /\ HasPointer(r) /\ ~AllHex(chars)
            /\ Throw(m, "NOT_HEX_CHAR")
            /\ UNCHANGED <<registers, store>>
         \/ /\ config.func_rw = "block" /\ AllHex(chars)
            /\ registers' = [registers EXCEPT ![r] = from_hex(chars)]
            /\ Put
            /\ UNCHANGED store
         \/ /\ config.func_rw = "pointers" /\ HasPointer(r) /\ AllHex(chars)
            /\ store' = [reg |-> r, request |-> m,
                         new_reg_val |-> from_hex(chars), pointer |-> registers[r]]
            /\ UNCHANGED <<registers, answer>>

handle_message(m, buffer) ==
  \/ /\ rw_error(m) # "none"
     /\ rw_refuse(m, rw_error(m))
     /\ dataBuffer' = buffer
     /\ UNCHANGED <<registers, store>>
  \/ /\ rw_error(m) = "none" /\ m.command = R
     /\ HandleRead(m, buffer)
  \/ /\ rw_error(m) = "none" /\ m.command = W
     /\ HandleWrite(m, buffer)

----------------------------------------------------------------------------
Init ==
  /\ config \in Configs
  /\ registers = initial_values
  /\ streaming_is_on = FALSE
  /\ dataBuffer = [i \in 1 .. BufferLen |-> NUL]
  /\ store = NoStore
  /\ answer = Replied(NoReply, NoReply)

(* ascii_serial_com_device_receive, for a message in the input buffer.     *)
ReceiveRegister(m, buffer) ==
  /\ m.command \in {R, W} /\ config.func_rw # "none"
  /\ handle_message(m, buffer)
  /\ UNCHANGED <<config, streaming_is_on>>

ReceiveSwitch(m, buffer) ==
  /\ m.command \in {N, F} /\ config.func_nf
  /\ streaming_is_on' = (m.command = N)
  /\ dataBuffer' = buffer
  /\ Nothing(m)
  /\ UNCHANGED <<config, registers, store>>

ReceiveNoop(m, buffer) ==
  /\ m.command \in {NUL, Z}
  /\ dataBuffer' = buffer
  /\ Nothing(m)
  /\ UNCHANGED <<config, registers, streaming_is_on, store>>

NotImplemented(command) ==
  \/ command \in {R, W} /\ config.func_rw = "none"
  \/ command \in {N, F} /\ ~config.func_nf
  \/ command \notin {NUL, Z, R, W, N, F}

ReceiveUnknown(m, buffer) ==
  /\ NotImplemented(m.command)
  /\ dataBuffer' = buffer
  /\ put_error(m, "COMMAND_NOT_IMPLEMENTED")
  /\ UNCHANGED <<config, registers, streaming_is_on, store>>

Receive(m) ==
  /\ Idle
  /\ LET buffer == Overlay(dataBuffer, m.data)
     IN  \/ ReceiveRegister(m, buffer)
         \/ ReceiveSwitch(m, buffer)
         \/ ReceiveNoop(m, buffer)
         \/ ReceiveUnknown(m, buffer)

(* A frame that get_message refuses, after its data went into the buffer.  *)
ReceiveBadFrame(data) ==
  /\ Idle
  /\ dataBuffer' = Overlay(dataBuffer, data)
  /\ UNCHANGED <<config, registers, streaming_is_on, store, answer>>

(* Mutant: the bits outside of the mask are cleared. *)
masked_Clears(s) == s.new_reg_val \cap write_masks[s.reg]

(* (new_reg_val & mask) | ( *pointer & ~mask), with the value read before. *)
masked(s) ==
  (s.new_reg_val \cap write_masks[s.reg]) \cup (s.pointer \ write_masks[s.reg])

FinishWrite ==
  /\ ~Idle
  /\ registers' = [registers EXCEPT ![store.reg] = masked(store)]
  /\ put_message(store.request, Reply(W, SubSeq(dataBuffer, 1, 4)))
  /\ store' = NoStore
  /\ UNCHANGED <<config, streaming_is_on, dataBuffer>>

(* An interrupt or the hardware changes a bit.                             *)
Hardware ==
  /\ config.func_rw = "pointers"
  /\ \E r \in pointers : \E bit \in hardware_bits[r] :
       registers' = [registers EXCEPT ![r] = IF bit \in @ THEN @ \ {bit} ELSE @ \cup {bit}]
  /\ UNCHANGED <<config, streaming_is_on, dataBuffer, store, answer>>

Next ==
  \/ \E m \in Requests : Receive(m)
  \/ \E data \in BadData : ReceiveBadFrame(data)
  \/ FinishWrite
  \/ Hardware

Spec == Init /\ [][Next]_vars

----------------------------------------------------------------------------
(* Properties.                                                             *)

(* Registers keep to their width, the buffer to its characters, and a      *)
(* pending store belongs to a write of an existing register.               *)
TypeOK ==
  /\ config \in Configs
  /\ registers \in [Registers -> SUBSET Bits]
  /\ streaming_is_on \in BOOLEAN
  /\ dataBuffer \in [1 .. BufferLen -> Chars]
  /\ \/ store = NoStore
     \/ /\ config.func_rw = "pointers"
        /\ store \in [reg : pointers, request : Requests,
                      new_reg_val : SUBSET Bits, pointer : SUBSET Bits]
  /\ answer.request \in Requests \cup {NoReply}

(***************************************************************************)
(* Every exchange with the host is one that RegisterFile promises, as if   *)
(* it happened at one moment: whatever frames, replies and refused frames  *)
(* left in dataBuffer, and whatever interrupts change between the read and *)
(* the store of a masked write.  What is Unnoticed is allowed.             *)
(***************************************************************************)
ImplementsRegisterFile == Promised!Spec

(***************************************************************************)
(* ASC_ERROR_REGVAL_LEN, "reg value the wrong number of bytes": a write    *)
(* whose value has not the digits of a register, no more and no fewer, is  *)
(* refused, and changes no register.                                       *)
(***************************************************************************)
RefusesWrongLengths == Meant!Spec

(***************************************************************************)
(* What a write from the host can change in the registers: bits of the     *)
(* mask, and bits that the hardware was changing at that moment; and both  *)
(* in one register.                                                        *)
(***************************************************************************)
Changed(r) == (registers'[r] \ registers[r]) \cup (registers[r] \ registers'[r])

WritesKeepTheRest ==
  [][config.func_rw = "pointers"
       => \A r \in Registers :
            /\ Changed(r) \subseteq write_masks[r] \cup hardware_bits[r]
            /\ FinishWrite /\ r # store.reg => Changed(r) = {}]_vars

=============================================================================
