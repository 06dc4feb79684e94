-------------------------- MODULE RegisterMessages --------------------------
(***************************************************************************)
(* The registers of a device, and the messages about them.  A register is  *)
(* the set of its bits that are 1; characters are their ASCII codes.  The  *)
(* two version characters, handed back as they are, are left out.          *)
(***************************************************************************)
EXTENDS Hex

CONSTANTS
  REGWIDTHBYTES,
  n_regs,
  pointers,       (* the registers whose pointer is not NULL                *)
  write_masks,    (* the bits of each register that a host may write        *)
  initial_values, (* of the registers                                       *)
  hardware_bits,  (* the bits of each that interrupts or hardware change    *)
  Configs,        (* func_rw, whether state_rw is set, whether func_nf is   *)
  Requests,       (* what the host sends: a command and its data            *)
  Chars,          (* the characters of data                                 *)
  ErrorCopyLen    (* error_message_max_copy_data_len                        *)

Registers == 0 .. n_regs - 1
Digits == 2 * REGWIDTHBYTES
Bits == 0 .. 8 * REGWIDTHBYTES - 1

ASSUME RegistersAssumption ==
  /\ REGWIDTHBYTES \in Nat \ {0} /\ n_regs \in Nat
  /\ pointers \subseteq Registers
  /\ write_masks \in [Registers -> SUBSET Bits]
  /\ initial_values \in [Registers -> SUBSET Bits]
  /\ hardware_bits \in [Registers -> SUBSET Bits]

ASSUME MessagesAssumption ==
  /\ \A m \in Requests : m.command \in 0 .. 255 /\ m.data \in Seq(Chars)
  /\ ErrorCopyLen \in Nat
  /\ {hex_digit(n) : n \in 0 .. 15} \cup {0, 44} \subseteq Chars
  /\ \A c \in Configs : c.func_rw \in {"none", "block", "pointers"}

(* Commands. *)
NUL == 0
F == 102
N == 110
R == 114
W == 119
Z == 122

Comma == 44

(* What the device puts, and what a call of receive comes to: the request, *)
(* the reply put and what was thrown.                                      *)
Reply(command, data) == [command |-> command, code |-> "none", data |-> data]
NoReply == Reply(NUL, <<>>)
ErrorReply(m, code) ==
  [command |-> m.command, code |-> code,
   data |-> SubSeq(m.data, 1, IF Len(m.data) < ErrorCopyLen THEN Len(m.data) ELSE ErrorCopyLen)]

Replied(m, reply) == [request |-> m, reply |-> reply, thrown |-> "none"]
Threw(m, code)    == [request |-> m, reply |-> NoReply, thrown |-> code]

=============================================================================
