----------------------------- MODULE HexProofs -----------------------------
(***************************************************************************)
(* What is proved of the two components that are built on Hex.             *)
(*                                                                         *)
(* The device, for every width, number, mask and initial value of the      *)
(* registers, and whatever bits the hardware changes: it keeps its types,  *)
(* a write of the host reaches only the masked bits of its one register,   *)
(* and requests are answered as RegisterFile promises.                     *)
(*                                                                         *)
(* The checksum, for frames of every length, in any blocks, and for every  *)
(* width of the registers: after each block the four implementations hold  *)
(* the remainder of the polynomial that was fed, each in its own form.     *)
(***************************************************************************)
EXTENDS AscDevice, Crc, SequenceTheorems, WellFoundedInduction, TLAPS

----------------------------------------------------------------------------
(* The device.                                                             *)

(* A read that waits for its store is stale in hardware bits at most.      *)
StoreIsCurrent ==
  ~Idle => /\ store.pointer \ registers[store.reg] \subseteq hardware_bits[store.reg]
           /\ registers[store.reg] \ store.pointer \subseteq hardware_bits[store.reg]

(* The inductive invariant of the device. *)
IInv == TypeOK /\ StoreIsCurrent

----------------------------------------------------------------------------
(* Digits and bits.                                                        *)

(* Four bits are a number below 16. *)
LEMMA NibbleNumberType ==
  ASSUME NEW bits
  PROVE  NibbleNumber(bits) \in 0 .. 15
<1>1. /\ Weight(bits, 0) \in {0, 1} /\ Weight(bits, 1) \in {0, 2}
      /\ Weight(bits, 2) \in {0, 4} /\ Weight(bits, 3) \in {0, 8}
  BY DEF Weight
<1> QED BY <1>1 DEF NibbleNumber

(* The conversions to hexadecimal yield characters of data. *)
LEMMA ToHexType ==
  ASSUME NEW bits, NEW n \in Nat
  PROVE  to_hex(bits, n) \in Seq(Chars) /\ Len(to_hex(bits, n)) = n
<1>1. \A k \in 0 .. 15 : hex_digit(k) \in Chars
  BY MessagesAssumption
<1>2. \A i \in 1 .. n :
        hex_digit(NibbleNumber(Shift(bits, -(4 * (n - i))))) \in Chars
  BY <1>1, NibbleNumberType
<1>3. to_hex(bits, n) \in [1 .. n -> Chars]
  BY <1>2 DEF to_hex
<1> QED BY <1>3, SeqDef, LenProperties

(* The conversions from hexadecimal fit the width of a register. *)
LEMMA FromHexType ==
  ASSUME NEW chars, DOMAIN chars = 1 .. Digits, Len(chars) = Digits
  PROVE  from_hex(chars) \in SUBSET Bits
<1>1. Digits \in Nat /\ Digits = 2 * REGWIDTHBYTES /\ REGWIDTHBYTES \in Nat
  BY RegistersAssumption DEF Digits
<1>2. SUFFICES ASSUME NEW i \in 1 .. Digits,
                      NEW b \in Shift(Nibble(hex_value(chars[i])), 4 * (Digits - i))
               PROVE  b \in Bits
  BY DEF from_hex
<1>3. PICK k \in 0 .. 3 : b = k + 4 * (Digits - i)
  BY DEF Shift, Nibble
<1> QED BY <1>1, <1>3 DEF Bits

----------------------------------------------------------------------------
(* The data buffer.                                                        *)

(* What the assumptions say of the register number and the value. *)
LEMMA Sizes ==
  /\ BufferLen \in Nat /\ Digits \in Nat \ {0} /\ BufferLen >= 5 + Digits
  /\ 0 \in Chars /\ Comma \in Chars
  BY RegistersAssumption, BufferAssumption, MessagesAssumption DEF Digits, Comma

(* The buffer as a sequence of characters. *)
LEMMA BufferIsSeq ==
  ASSUME NEW buffer \in [1 .. BufferLen -> Chars]
  PROVE  buffer \in Seq(Chars) /\ Len(buffer) = BufferLen
  BY Sizes, SeqDef, LenProperties

(* Data and replies are written over the front of the buffer. *)
LEMMA OverlayType ==
  ASSUME NEW buffer \in [1 .. BufferLen -> Chars], NEW data \in Seq(Chars)
  PROVE  Overlay(buffer, data) \in [1 .. BufferLen -> Chars]
<1>1. ASSUME NEW i \in 1 .. BufferLen, i <= Len(data)
      PROVE  data[i] \in Chars
  BY <1>1, Sizes, LenProperties, ElementOfSeq
<1> QED BY <1>1 DEF Overlay

(* The reply to a read consists of characters. *)
LEMMA ReadReplyType ==
  ASSUME NEW buffer \in [1 .. BufferLen -> Chars], NEW r
  PROVE  read_reply(buffer, r) \in Seq(Chars)
<1> DEFINE value == IF HasPointer(r) THEN registers[r] ELSE {}
<1>1. buffer \in Seq(Chars) /\ Len(buffer) = BufferLen
  BY BufferIsSeq
<1>2. SubSeq(buffer, 1, 4) \in Seq(Chars)
  BY <1>1, Sizes, SubSeqProperties
<1>3. to_hex(value, Digits) \in Seq(Chars)
  BY Sizes, ToHexType
<1>4. <<Comma>> \in Seq(Chars)
  BY Sizes
<1> HIDE DEF value
<1>5. SubSeq(buffer, 1, 4) \o <<Comma>> \o to_hex(value, Digits) \in Seq(Chars)
  BY <1>2, <1>3, <1>4, ConcatProperties
<1> QED BY <1>5 DEF read_reply, value

(* The value of a write fits a register. *)
LEMMA ValueType ==
  ASSUME NEW buffer \in [1 .. BufferLen -> Chars]
  PROVE  from_hex(value_chars(buffer)) \in SUBSET Bits
<1>1. buffer \in Seq(Chars) /\ Len(buffer) = BufferLen
  BY BufferIsSeq
<1>2. value_chars(buffer) \in Seq(Chars) /\ Len(value_chars(buffer)) = Digits
  BY <1>1, Sizes, SubSeqProperties DEF value_chars
<1>3. DOMAIN value_chars(buffer) = 1 .. Digits
  BY <1>2, LenProperties
<1> QED BY <1>2, <1>3, FromHexType

----------------------------------------------------------------------------
(* The invariant.                                                          *)

(* The request of every outcome is one that the host sent. *)
LEMMA OutcomeType ==
  ASSUME NEW m \in Requests \cup {NoReply}, NEW reply, NEW code,
         Nothing(m) \/ Throw(m, code) \/ put_message(m, reply) \/ put_error(m, code)
  PROVE  answer'.request \in Requests \cup {NoReply}
  BY DEF Nothing, Throw, put_message, put_error, Replied, Threw

(* Both register handlers keep the types. *)
LEMMA HandleMessageType ==
  ASSUME TypeOK, NEW m \in Requests, NEW buffer \in [1 .. BufferLen -> Chars],
         config.func_rw # "none", handle_message(m, buffer),
         UNCHANGED <<config, streaming_is_on>>
  PROVE  TypeOK'
<1>1. config.func_rw \in {"block", "pointers"}
  BY MessagesAssumption DEF TypeOK
<1>2. CASE rw_error(m) # "none"
  <2>1. Throw(m, rw_error(m)) \/ put_error(m, rw_error(m))
    BY <1>2 DEF handle_message, rw_refuse
  <2>2. answer'.request \in Requests \cup {NoReply}
    BY <2>1, OutcomeType
  <2>3. dataBuffer' = buffer /\ UNCHANGED <<registers, store>>
    BY <1>2 DEF handle_message
  <2> QED BY <2>2, <2>3 DEF TypeOK
<1>3. CASE HandleRead(m, buffer)
  <2> DEFINE reply == read_reply(buffer, reg_num(buffer))
  <2>1. /\ dataBuffer' = Overlay(buffer, reply)
        /\ put_message(m, Reply(R, reply))
        /\ UNCHANGED <<registers, store>>
    BY <1>3 DEF HandleRead
  <2>2. reply \in Seq(Chars)
    BY ReadReplyType
  <2>3. dataBuffer' \in [1 .. BufferLen -> Chars]
    BY <2>1, <2>2, OverlayType
  <2>4. answer'.request \in Requests \cup {NoReply}
    BY <2>1, OutcomeType
  <2> QED BY <2>1, <2>3, <2>4 DEF TypeOK
<1>4. CASE HandleWrite(m, buffer)
  <2> DEFINE r == reg_num(buffer)
             chars == value_chars(buffer)
             reply == Reply(W, SubSeq(buffer, 1, 4))
  <2>1. from_hex(chars) \in SUBSET Bits
    BY ValueType
  <2>2. dataBuffer' = buffer
    BY <1>4 DEF HandleWrite
  <2> HIDE DEF r, chars, reply
  <2>3. CASE (put_message(m, reply) \/ Throw(m, "NOT_HEX_CHAR")) /\ UNCHANGED <<registers, store>>
    <3>1. answer'.request \in Requests \cup {NoReply}
      BY <2>3, OutcomeType
    <3> QED BY <3>1, <2>2, <2>3 DEF TypeOK
  <2>4. CASE /\ registers' = [registers EXCEPT ![r] = from_hex(chars)]
             /\ put_message(m, reply) /\ UNCHANGED store
    <3>1. answer'.request \in Requests \cup {NoReply}
      BY <2>4, OutcomeType
    <3> QED BY <3>1, <2>1, <2>2, <2>4 DEF TypeOK
  <2>5. CASE /\ config.func_rw = "pointers" /\ HasPointer(r)
             /\ store' = [reg |-> r, request |-> m,
                          new_reg_val |-> from_hex(chars), pointer |-> registers[r]]
             /\ UNCHANGED <<registers, answer>>
    <3>1. r \in pointers /\ r \in Registers
      BY <2>5, RegistersAssumption DEF HasPointer
    <3>2. registers[r] \in SUBSET Bits
      BY <3>1 DEF TypeOK
    <3> QED BY <3>1, <3>2, <2>1, <2>2, <2>5 DEF TypeOK
  <2> QED BY <1>4, <2>3, <2>4, <2>5 DEF HandleWrite, r, chars, reply
<1> QED BY <1>2, <1>3, <1>4 DEF handle_message

(* The types hold at first. *)
LEMMA InitType == Init => TypeOK
<1> SUFFICES ASSUME Init PROVE TypeOK
  OBVIOUS
<1>1. answer.request = NoReply
  BY DEF Init, Replied
<1>2. dataBuffer \in [1 .. BufferLen -> Chars]
  BY Sizes DEF Init, NUL
<1>3. registers \in [Registers -> SUBSET Bits]
  BY RegistersAssumption DEF Init
<1> QED BY <1>1, <1>2, <1>3 DEF Init, TypeOK

(* Every step keeps the types. *)
LEMMA StepType == TypeOK /\ [Next]_vars => TypeOK'
<1> SUFFICES ASSUME TypeOK, [Next]_vars PROVE TypeOK'
  OBVIOUS
<1>1. ASSUME NEW m \in Requests, Receive(m)
      PROVE  TypeOK'
  <2> DEFINE buffer == Overlay(dataBuffer, m.data)
  <2>1. m.data \in Seq(Chars)
    BY MessagesAssumption
  <2>2. buffer \in [1 .. BufferLen -> Chars]
    BY <2>1, OverlayType DEF TypeOK
  <2> HIDE DEF buffer
  <2>3. CASE ReceiveRegister(m, buffer)
    BY <2>2, <2>3, HandleMessageType DEF ReceiveRegister
  <2>4. CASE ReceiveSwitch(m, buffer)
    <3>1. answer'.request \in Requests \cup {NoReply}
      BY <2>4, OutcomeType DEF ReceiveSwitch
    <3>2. streaming_is_on' \in BOOLEAN
      BY <2>4 DEF ReceiveSwitch
    <3> QED BY <2>2, <2>4, <3>1, <3>2 DEF ReceiveSwitch, TypeOK
  <2>5. CASE ReceiveNoop(m, buffer)
    <3>1. answer'.request \in Requests \cup {NoReply}
      BY <2>5, OutcomeType DEF ReceiveNoop
    <3> QED BY <2>2, <2>5, <3>1 DEF ReceiveNoop, TypeOK
  <2>6. CASE ReceiveUnknown(m, buffer)
    <3>1. answer'.request \in Requests \cup {NoReply}
      BY <2>6, OutcomeType DEF ReceiveUnknown
    <3> QED BY <2>2, <2>6, <3>1 DEF ReceiveUnknown, TypeOK
  <2> QED BY <1>1, <2>3, <2>4, <2>5, <2>6 DEF Receive, buffer
<1>2. ASSUME NEW data \in BadData, ReceiveBadFrame(data)
      PROVE  TypeOK'
  <2>1. dataBuffer' \in [1 .. BufferLen -> Chars]
    BY <1>2, OverlayType, BufferAssumption DEF ReceiveBadFrame, TypeOK
  <2> QED BY <1>2, <2>1 DEF ReceiveBadFrame, TypeOK
<1>3. CASE FinishWrite
  <2>1. /\ store.reg \in pointers /\ store.request \in Requests
        /\ store.new_reg_val \in SUBSET Bits /\ store.pointer \in SUBSET Bits
    BY <1>3 DEF FinishWrite, Idle, NoStore, TypeOK
  <2>2. masked(store) \in SUBSET Bits
    BY <2>1 DEF masked
  <2>3. registers' \in [Registers -> SUBSET Bits]
    BY <1>3, <2>2 DEF FinishWrite, TypeOK
  <2>4. answer'.request \in Requests \cup {NoReply}
    BY <1>3, <2>1, OutcomeType DEF FinishWrite
  <2> QED BY <1>3, <2>3, <2>4 DEF FinishWrite, TypeOK
<1>4. CASE Hardware
  <2>1. PICK r \in pointers : \E bit \in hardware_bits[r] :
          registers' = [registers EXCEPT ![r] =
            IF bit \in registers[r] THEN registers[r] \ {bit} ELSE registers[r] \cup {bit}]
    BY <1>4 DEF Hardware
  <2>2. /\ r \in Registers /\ hardware_bits[r] \in SUBSET Bits
        /\ registers[r] \in SUBSET Bits
    BY RegistersAssumption DEF TypeOK
  <2>3. registers' \in [Registers -> SUBSET Bits]
    BY <2>1, <2>2 DEF TypeOK
  <2> QED BY <1>4, <2>3 DEF Hardware, TypeOK
<1>5. CASE UNCHANGED vars
  BY <1>5 DEF vars, TypeOK
<1> QED BY <1>1, <1>2, <1>3, <1>4, <1>5 DEF Next

(* A call of receive leaves the registers of a device with pointers alone, *)
(* and at most begins a write with the register just read.                 *)
LEMMA ReceiveStore ==
  ASSUME TypeOK, NEW m \in Requests, Receive(m)
  PROVE  /\ config.func_rw = "pointers" => UNCHANGED registers
         /\ \/ UNCHANGED store
            \/ store'.pointer = registers[store'.reg] /\ UNCHANGED registers
<1> DEFINE buffer == Overlay(dataBuffer, m.data)
<1> HIDE DEF buffer
<1>1. \/ ReceiveRegister(m, buffer) \/ ReceiveSwitch(m, buffer)
      \/ ReceiveNoop(m, buffer) \/ ReceiveUnknown(m, buffer)
  BY DEF Receive, buffer
<1>2. CASE ReceiveSwitch(m, buffer) \/ ReceiveNoop(m, buffer) \/ ReceiveUnknown(m, buffer)
  BY <1>2 DEF ReceiveSwitch, ReceiveNoop, ReceiveUnknown
<1>3. CASE ReceiveRegister(m, buffer)
  <2>1. CASE HandleWrite(m, buffer)
    BY <2>1 DEF HandleWrite
  <2>2. CASE HandleRead(m, buffer)
    BY <2>2 DEF HandleRead
  <2> QED BY <1>3, <2>1, <2>2 DEF ReceiveRegister, handle_message
<1> QED BY <1>1, <1>2, <1>3

(* The hardware changes one of its bits in one register. *)
LEMMA HardwareChange ==
  ASSUME TypeOK, Hardware, NEW r \in Registers
  PROVE  Changed(r) \subseteq hardware_bits[r]
<1>1. PICK s \in pointers : \E bit \in hardware_bits[s] :
        registers' = [registers EXCEPT ![s] =
          IF bit \in registers[s] THEN registers[s] \ {bit} ELSE registers[s] \cup {bit}]
  BY DEF Hardware
<1>2. PICK bit \in hardware_bits[s] :
        registers' = [registers EXCEPT ![s] =
          IF bit \in registers[s] THEN registers[s] \ {bit} ELSE registers[s] \cup {bit}]
  BY <1>1
<1>3. registers \in [Registers -> SUBSET Bits]
  BY DEF TypeOK
<1>4. CASE r = s
  <2>1. registers'[r] = IF bit \in registers[r] THEN registers[r] \ {bit}
                        ELSE registers[r] \cup {bit}
    BY <1>2, <1>3, <1>4
  <2> QED BY <2>1, <1>4 DEF Changed
<1>5. CASE r # s
  <2>1. registers'[r] = registers[r]
    BY <1>2, <1>3, <1>5
  <2> QED BY <2>1 DEF Changed
<1> QED BY <1>4, <1>5

(* The store of a masked write changes its register, in masked bits and in *)
(* bits in which the value read before is stale.                           *)
LEMMA FinishChange ==
  ASSUME IInv, FinishWrite, NEW r \in Registers
  PROVE  /\ Changed(r) \subseteq write_masks[r] \cup hardware_bits[r]
         /\ r # store.reg => Changed(r) = {}
<1>1. registers \in [Registers -> SUBSET Bits]
  BY DEF IInv, TypeOK
<1>2. registers' = [registers EXCEPT ![store.reg] = masked(store)]
  BY DEF FinishWrite
<1>3. CASE r # store.reg
  <2>1. registers'[r] = registers[r]
    BY <1>1, <1>2, <1>3
  <2> QED BY <2>1, <1>3 DEF Changed
<1>4. CASE r = store.reg
  <2>1. registers'[r] = (store.new_reg_val \cap write_masks[r]) \cup (store.pointer \ write_masks[r])
    BY <1>1, <1>2, <1>4 DEF masked
  <2>2. /\ store.pointer \ registers[r] \subseteq hardware_bits[r]
        /\ registers[r] \ store.pointer \subseteq hardware_bits[r]
    BY <1>4 DEF IInv, StoreIsCurrent, FinishWrite
  <2> QED BY <2>1, <2>2, <1>4 DEF Changed
<1> QED BY <1>3, <1>4

(* Every step keeps the value read before as current as it has to be. *)
LEMMA StepStore == IInv /\ [Next]_vars => StoreIsCurrent'
<1> SUFFICES ASSUME IInv, [Next]_vars PROVE StoreIsCurrent'
  OBVIOUS
<1>1. ASSUME NEW m \in Requests, Receive(m)
      PROVE  StoreIsCurrent'
  <2>1. Idle
    BY <1>1 DEF Receive
  <2>2. CASE UNCHANGED store
    BY <2>1, <2>2 DEF Idle, StoreIsCurrent
  <2>3. CASE store'.pointer = registers[store'.reg] /\ UNCHANGED registers
    BY <2>3 DEF StoreIsCurrent
  <2> QED BY <1>1, <2>2, <2>3, ReceiveStore DEF IInv
<1>2. ASSUME NEW data \in BadData, ReceiveBadFrame(data)
      PROVE  StoreIsCurrent'
  BY <1>2 DEF ReceiveBadFrame, Idle, IInv, StoreIsCurrent
<1>3. CASE FinishWrite
  BY <1>3 DEF FinishWrite, NoStore, Idle, StoreIsCurrent
<1>4. CASE Hardware
  <2>1. UNCHANGED store
    BY <1>4 DEF Hardware
  <2>2. CASE Idle
    BY <2>1, <2>2 DEF Idle, StoreIsCurrent
  <2>3. CASE ~Idle
    <3>1. store.reg \in Registers
      BY <2>3, RegistersAssumption DEF IInv, TypeOK, Idle, NoStore
    <3>2. Changed(store.reg) \subseteq hardware_bits[store.reg]
      BY <1>4, <3>1, HardwareChange DEF IInv
    <3>3. /\ store.pointer \ registers[store.reg] \subseteq hardware_bits[store.reg]
          /\ registers[store.reg] \ store.pointer \subseteq hardware_bits[store.reg]
      BY <2>3 DEF IInv, StoreIsCurrent
    <3>4. /\ store.pointer \ registers'[store.reg] \subseteq hardware_bits[store.reg]
          /\ registers'[store.reg] \ store.pointer \subseteq hardware_bits[store.reg]
      BY <3>2, <3>3 DEF Changed
    <3> QED BY <2>1, <3>4 DEF StoreIsCurrent
  <2> QED BY <2>2, <2>3
<1>5. CASE UNCHANGED vars
  BY <1>5 DEF vars, Idle, IInv, StoreIsCurrent
<1> QED BY <1>1, <1>2, <1>3, <1>4, <1>5 DEF Next

(* What WritesKeepTheRest says of one step. *)
StepKeepsTheRest ==
  config.func_rw = "pointers"
    => \A r \in Registers :
         /\ Changed(r) \subseteq write_masks[r] \cup hardware_bits[r]
         /\ FinishWrite /\ r # store.reg => Changed(r) = {}

(* Every step of the invariant's states keeps the rest. *)
LEMMA StepKeeps == IInv /\ Next => StepKeepsTheRest
<1> SUFFICES ASSUME IInv, Next, config.func_rw = "pointers", NEW r \in Registers
             PROVE  /\ Changed(r) \subseteq write_masks[r] \cup hardware_bits[r]
                    /\ FinishWrite /\ r # store.reg => Changed(r) = {}
  BY DEF StepKeepsTheRest
<1>1. CASE FinishWrite
  BY <1>1, FinishChange
<1>2. CASE ~FinishWrite
  <2>1. ASSUME NEW m \in Requests, Receive(m)
        PROVE  Changed(r) = {}
    BY <2>1, ReceiveStore DEF IInv, Changed
  <2>2. ASSUME NEW data \in BadData, ReceiveBadFrame(data)
        PROVE  Changed(r) = {}
    BY <2>2 DEF ReceiveBadFrame, Changed
  <2>3. CASE Hardware
    BY <1>2, <2>3, HardwareChange DEF IInv
  <2> QED BY <1>2, <2>1, <2>2, <2>3 DEF Next
<1> QED BY <1>1, <1>2

(* The invariant holds in every reachable state. *)
LEMMA Invariance == Spec => []IInv
<1>1. Init => IInv
  BY InitType DEF Init, NoStore, Idle, StoreIsCurrent, IInv
<1>2. IInv /\ [Next]_vars => IInv'
  BY StepType, StepStore DEF IInv
<1> QED BY <1>1, <1>2, PTL DEF Spec

(* A host's write through the device changes masked bits of the register   *)
(* it names, and otherwise only bits that the hardware changes: the stale  *)
(* read of ascii_serial_com_register_pointers_handle_message can undo no   *)
(* other bit, and all registers keep their width.                          *)
THEOREM WritesStayInTheirMask == Spec => []TypeOK /\ WritesKeepTheRest
<1>1. IInv => TypeOK
  BY DEF IInv
<1>2. IInv /\ [Next]_vars => [StepKeepsTheRest]_vars
  BY StepKeeps
<1>3. [][StepKeepsTheRest]_vars => WritesKeepTheRest
  BY PTL DEF StepKeepsTheRest, WritesKeepTheRest
<1> QED BY Invariance, <1>1, <1>2, <1>3, PTL DEF Spec

----------------------------------------------------------------------------
(* The refinement.                                                         *)

(* The conversions and messages of the promise are those of the device. *)
LEMMA SameMessages ==
  /\ \A chars : Promised!AllHex(chars) <=> AllHex(chars)
  /\ \A chars : Promised!from_hex(chars) = from_hex(chars)
  /\ \A bits, n : Promised!to_hex(bits, n) = to_hex(bits, n)
  /\ \A m, code : Promised!ErrorReply(m, code) = ErrorReply(m, code)
  /\ \A command, data : Promised!Reply(command, data) = Reply(command, data)
  /\ \A m, reply : Promised!Replied(m, reply) = Replied(m, reply)
  /\ \A m, code : Promised!Threw(m, code) = Threw(m, code)
  /\ Promised!NoReply = NoReply
  /\ Promised!Bits = Bits /\ Promised!Digits = Digits
<1>1. \A chars : Promised!AllHex(chars) <=> AllHex(chars)
  BY DEF Promised!AllHex, AllHex, Promised!IsHex, IsHex
<1>2. \A chars : Promised!from_hex(chars) = from_hex(chars)
  BY DEF Promised!from_hex, from_hex, Promised!Shift, Shift, Promised!Nibble, Nibble,
         Promised!hex_value, hex_value
<1>3. \A bits, n : Promised!to_hex(bits, n) = to_hex(bits, n)
  BY DEF Promised!to_hex, to_hex, Promised!Shift, Shift, Promised!NibbleNumber, NibbleNumber,
         Promised!Weight, Weight, Promised!hex_digit, hex_digit
<1>4. \A m, code : Promised!ErrorReply(m, code) = ErrorReply(m, code)
  BY DEF Promised!ErrorReply, ErrorReply
<1>5. \A command, data : Promised!Reply(command, data) = Reply(command, data)
  BY DEF Promised!Reply, Reply
<1>6. Promised!NoReply = NoReply /\ Promised!Bits = Bits /\ Promised!Digits = Digits
  BY DEF Promised!Reply, Reply, Promised!NoReply, NoReply, Promised!Bits, Bits,
         Promised!Digits, Digits, Promised!NUL, NUL
<1>7. \A m, reply : Promised!Replied(m, reply) = Replied(m, reply)
  BY DEF Promised!Replied, Replied
<1>8. \A m, code : Promised!Threw(m, code) = Threw(m, code)
  BY <1>6 DEF Promised!Threw, Threw
<1> QED BY <1>1, <1>2, <1>3, <1>4, <1>5, <1>6, <1>7, <1>8
(* So is the number that digits stand for. *)
LEMMA SameNumber == \A bits : Promised!Number(bits) = Number(bits)
  BY DEF Promised!Number, Number, Promised!NibbleNumber, NibbleNumber,
         Promised!Weight, Weight, Promised!Shift, Shift

(* Sixteen bits are a number. *)
LEMMA NumberType == \A bits : Number(bits) \in Nat
<1> SUFFICES ASSUME NEW bits PROVE Number(bits) \in Nat
  OBVIOUS
<1> DEFINE a == NibbleNumber(bits)
           b == NibbleNumber(Shift(bits, -4))
           c == NibbleNumber(Shift(bits, -8))
           d == NibbleNumber(Shift(bits, -12))
<1>1. a \in 0 .. 15 /\ b \in 0 .. 15 /\ c \in 0 .. 15 /\ d \in 0 .. 15
  BY NibbleNumberType
<1>2. Number(bits) = a + 16 * b + 256 * c + 4096 * d
  BY DEF Number
<1> HIDE DEF a, b, c, d
<1>3. a + 16 * b + 256 * c + 4096 * d \in Nat
  BY <1>1
<1> QED BY <1>2, <1>3

(* The commands differ. *)
LEMMA CommandsDiffer ==
  /\ Promised!NUL = NUL /\ Promised!Z = Z /\ Promised!R = R /\ Promised!W = W
  /\ Promised!N = N /\ Promised!F = F /\ Promised!Comma = Comma
  /\ NUL \in Nat /\ Z \in Nat /\ R \in Nat /\ W \in Nat /\ N \in Nat /\ F \in Nat
  /\ {R, W} \cap {N, F} = {} /\ {R, W} \cap {NUL, Z} = {} /\ {N, F} \cap {NUL, Z} = {}
  /\ R # W
  BY DEF Promised!NUL, NUL, Promised!Z, Z, Promised!R, R, Promised!W, W,
         Promised!N, N, Promised!F, F, Promised!Comma, Comma

(* What the handlers read of the buffer is what the request says of it. *)
LEMMA RequestInBuffer ==
  ASSUME TypeOK, NEW m \in Requests, NEW buffer, buffer = Overlay(dataBuffer, m.data)
  PROVE  /\ buffer \in [1 .. BufferLen -> Chars]
         /\ Len(m.data) >= 4 => SubSeq(buffer, 1, 4) = Promised!NumberOf(m)
         /\ value_chars(buffer) \in Promised!ValuesOf(m)
<1>1. m.data \in Seq(Chars) /\ Len(m.data) \in Nat
  BY MessagesAssumption, LenProperties
<1>2. buffer \in [1 .. BufferLen -> Chars]
  BY <1>1, OverlayType DEF TypeOK
<1>3. buffer \in Seq(Chars) /\ Len(buffer) = BufferLen
  BY <1>2, BufferIsSeq
<1>4. \A i \in 1 .. BufferLen : i <= Len(m.data) => buffer[i] = m.data[i]
  BY DEF Overlay
<1>5. ASSUME Len(m.data) >= 4 PROVE SubSeq(buffer, 1, 4) = Promised!NumberOf(m)
  <2> DEFINE a == SubSeq(buffer, 1, 4)
             b == SubSeq(m.data, 1, 4)
  <2>1. a \in Seq(Chars) /\ Len(a) = 4 /\ \A i \in 1 .. 4 : a[i] = buffer[i]
    BY <1>3, Sizes, SubSeqProperties
  <2>2. b \in Seq(Chars) /\ Len(b) = 4 /\ \A i \in 1 .. 4 : b[i] = m.data[i]
    BY <1>1, <1>5, SubSeqProperties
  <2>3. \A i \in 1 .. 4 : buffer[i] = m.data[i]
    BY <1>1, <1>4, <1>5, Sizes
  <2> HIDE DEF a, b
  <2>4. a = b
    BY <2>1, <2>2, <2>3, SeqEqual
  <2> QED BY <2>4 DEF a, b, Promised!NumberOf
<1>6. value_chars(buffer) \in Promised!ValuesOf(m)
  <2> DEFINE value == value_chars(buffer)
  <2>1. value \in Seq(Chars) /\ Len(value) = Digits
    BY <1>3, Sizes, SubSeqProperties DEF value_chars
  <2>2. \A i \in 1 .. Digits : value[i] = buffer[5 + i]
    <3>1. \A i \in 1 .. Digits : value[i] = buffer[6 + i - 1]
      BY <1>3, Sizes, SubSeqProperties DEF value_chars
    <3>2. \A i \in 1 .. Digits : 6 + i - 1 = 5 + i
      BY Sizes
    <3> QED BY <3>1, <3>2
  <2> HIDE DEF value
  <2>3. value \in [1 .. Digits -> Chars]
    BY <2>1, LenProperties
  <2>4. ASSUME NEW i \in 1 .. Digits, 5 + i <= Len(m.data) PROVE value[i] = m.data[5 + i]
    <3>1. 5 + i \in 1 .. BufferLen
      BY Sizes
    <3> QED BY <1>4, <2>2, <2>4, <3>1
  <2>5. value \in {x \in [1 .. Digits -> Chars] :
                     \A i \in 1 .. Digits : 5 + i <= Len(m.data) => x[i] = m.data[5 + i]}
    BY <2>3, <2>4
  <2> QED BY <2>5, SameMessages DEF Promised!ValuesOf, value
<1> QED BY <1>2, <1>5, <1>6

(* The tests of the handlers find faults the request has, and a request *)
(* that passes them is one the device can serve.                        *)
LEMMA FaultsAreDeserved ==
  ASSUME TypeOK, NEW m \in Requests, m.command \in {R, W}, config.func_rw # "none"
  PROVE  /\ Promised!Implemented(m.command)
         /\ rw_error(m) # "none" =>
              rw_error(m) \in Promised!Codes /\ Promised!Deserves(m, rw_error(m))
         /\ rw_error(m) = "none" =>
              /\ Promised!Served(m) /\ Len(m.data) >= 4
              /\ Promised!Register(m) = reg_num(m.data)
              /\ Promised!Register(m) \in Registers
              /\ m.command = W => ~Promised!WrongLength(m)
<1>1. m.data \in Seq(Chars) /\ Len(m.data) \in Nat
  BY MessagesAssumption, LenProperties
<1>2. Promised!Implemented(m.command)
  BY CommandsDiffer DEF Promised!Implemented
<1>3. /\ Promised!Register(m) = reg_num(m.data)
      /\ reg_num(m.data) \in Nat /\ n_regs \in Nat
  BY SameMessages, SameNumber, NumberType, RegistersAssumption
  DEF Promised!Register, Promised!NumberOf, reg_num
<1>4. Promised!HasNumber(m) <=> Len(m.data) >= 4 /\ AllHex(SubSeq(m.data, 1, 4))
  BY SameMessages DEF Promised!HasNumber, Promised!NumberOf
<1>5. Promised!NamesRegister(m) <=> Promised!HasNumber(m) /\ reg_num(m.data) < n_regs
  BY <1>3 DEF Promised!NamesRegister
<1>6. Len(m.data) < 4 <=> ~(Len(m.data) >= 4)
  BY <1>1
<1>7. CASE ~config.state_rw
  <2>1. rw_error(m) = "REG_BLOCK_NULL"
    BY <1>7 DEF rw_error
  <2> QED BY <1>2, <1>7, <2>1, CommandsDiffer DEF Promised!Deserves, Promised!Codes
<1>8. CASE config.state_rw /\ Len(m.data) < 4
  <2>1. rw_error(m) = "DATA_TOO_SHORT"
    BY <1>8 DEF rw_error
  <2> QED BY <1>2, <1>8, <2>1, CommandsDiffer DEF Promised!Deserves, Promised!Codes
<1>9. CASE config.state_rw /\ Len(m.data) >= 4
  <2>1. rw_error(m) =
          IF ~AllHex(SubSeq(m.data, 1, 4)) THEN "NOT_HEX_CHAR"
          ELSE IF reg_num(m.data) >= n_regs THEN "REGNUM_OOB"
          ELSE IF m.command = W /\ Len(m.data) < 5 + REGWIDTHBYTES THEN "REGVAL_LEN"
          ELSE "none"
    BY <1>6, <1>9 DEF rw_error
  <2>2. CASE ~AllHex(SubSeq(m.data, 1, 4))
    <3>1. rw_error(m) = "NOT_HEX_CHAR" /\ ~Promised!HasNumber(m)
      BY <1>4, <2>1, <2>2
    <3> QED BY <1>2, <1>9, <3>1, CommandsDiffer DEF Promised!Deserves, Promised!Codes
  <2>3. CASE AllHex(SubSeq(m.data, 1, 4)) /\ reg_num(m.data) >= n_regs
    <3>1. rw_error(m) = "REGNUM_OOB" /\ Promised!HasNumber(m)
      BY <1>4, <1>9, <2>1, <2>3
    <3>2. ~Promised!NamesRegister(m)
      BY <1>3, <1>5, <2>3
    <3> QED BY <1>2, <3>1, <3>2, CommandsDiffer DEF Promised!Deserves, Promised!Codes
  <2>4. CASE AllHex(SubSeq(m.data, 1, 4)) /\ ~(reg_num(m.data) >= n_regs)
    <3>1. Promised!NamesRegister(m)
      BY <1>3, <1>4, <1>5, <1>9, <2>4
    <3>2. CASE m.command = W /\ Len(m.data) < 5 + REGWIDTHBYTES
      <4>1. rw_error(m) = "REGVAL_LEN"
        BY <2>1, <2>4, <3>2
      <4>2. Len(m.data) # 5 + Digits /\ m \notin Unnoticed
        BY <1>1, <3>2, RegistersAssumption DEF Digits, Unnoticed
      <4>3. Promised!WrongLength(m)
        BY <4>2, SameMessages DEF Promised!WrongLength
      <4> QED BY <1>2, <3>2, <4>1, <4>3, CommandsDiffer DEF Promised!Deserves, Promised!Codes
    <3>3. CASE ~(m.command = W /\ Len(m.data) < 5 + REGWIDTHBYTES)
      <4>1. rw_error(m) = "none"
        BY <2>1, <2>4, <3>3
      <4>2. m.command = W => ~Promised!WrongLength(m)
        BY <1>1, <3>3, RegistersAssumption, SameMessages
        DEF Promised!WrongLength, Digits, Unnoticed
      <4>3. Promised!Served(m)
        BY <1>2, <1>9, <3>1 DEF Promised!Served
      <4>4. reg_num(m.data) \in Registers
        BY <1>3, <1>5, <3>1 DEF Registers
      <4> QED BY <1>2, <1>3, <1>9, <4>1, <4>2, <4>3, <4>4
    <3> QED BY <3>2, <3>3
  <2> QED BY <2>2, <2>3, <2>4
<1> QED BY <1>6, <1>7, <1>8, <1>9

(* A write that waits for its store is the one its request asks for. *)
StoreServesRequest ==
  ~Idle =>
    /\ config.func_rw = "pointers"
    /\ store.request.command = W
    /\ Promised!Served(store.request) /\ ~Promised!WrongLength(store.request)
    /\ Promised!Register(store.request) = store.reg
    /\ Promised!NumberOf(store.request) = SubSeq(dataBuffer, 1, 4)
    /\ \E value \in Promised!ValuesOf(store.request) :
         AllHex(value) /\ from_hex(value) = store.new_reg_val

(* What a register handler does is what is promised of it. *)
LEMMA HandlerImplements ==
  ASSUME TypeOK, NEW m \in Requests, NEW buffer, buffer = Overlay(dataBuffer, m.data),
         ReceiveRegister(m, buffer)
  PROVE  \/ Promised!Refuse(m) \/ Promised!Read(m) \/ Promised!Write(m)
         \/ UNCHANGED Promised!vars
<1> USE SameMessages
<1>1. /\ m.command \in {R, W} /\ config.func_rw # "none"
      /\ handle_message(m, buffer)
      /\ UNCHANGED <<config, streaming_is_on>>
  BY DEF ReceiveRegister
<1>2. /\ Promised!Implemented(m.command)
      /\ rw_error(m) # "none" =>
           rw_error(m) \in Promised!Codes /\ Promised!Deserves(m, rw_error(m))
      /\ rw_error(m) = "none" =>
           /\ Promised!Served(m) /\ Len(m.data) >= 4
           /\ Promised!Register(m) = reg_num(m.data)
           /\ Promised!Register(m) \in Registers
           /\ m.command = W => ~Promised!WrongLength(m)
  BY <1>1, FaultsAreDeserved
<1>3. /\ buffer \in [1 .. BufferLen -> Chars]
      /\ Len(m.data) >= 4 => SubSeq(buffer, 1, 4) = Promised!NumberOf(m)
      /\ value_chars(buffer) \in Promised!ValuesOf(m)
  BY RequestInBuffer
<1>4. CASE rw_error(m) # "none"
  <2> DEFINE code == rw_error(m)
  <2>1. rw_refuse(m, code) /\ UNCHANGED registers
    BY <1>1, <1>4 DEF handle_message
  <2>2. answer' \in Promised!Answers(m, Promised!ErrorReply(m, code)) \cup {Promised!Threw(m, code)}
    BY <2>1 DEF rw_refuse, put_error, put_message, Throw, Promised!Answers
  <2>3. code \in Promised!Codes /\ Promised!Deserves(m, code)
    BY <1>2, <1>4
  <2> HIDE DEF code
  <2> QED BY <1>1, <2>1, <2>2, <2>3 DEF Promised!Refuse
<1>5. CASE rw_error(m) = "none"
  <2> DEFINE r == Promised!Register(m)
             chars == value_chars(buffer)
  <2>1. SubSeq(buffer, 1, 4) = Promised!NumberOf(m) /\ reg_num(buffer) = r
    BY <1>2, <1>3, <1>5, SameNumber DEF reg_num, Promised!Register
  <2>2. HasPointer(r) <=> Promised!Exists(r)
    BY DEF HasPointer, Promised!Exists
  <2>3. r \in Registers /\ registers[r] \in SUBSET Bits
    BY <1>2, <1>5 DEF TypeOK
  <2>4. from_hex(chars) \in SUBSET Bits
    BY <1>3, ValueType
  <2>5. CASE m.command = R /\ HandleRead(m, buffer)
    <3>1. read_reply(buffer, r) =
            Promised!NumberOf(m) \o <<Promised!Comma>>
              \o Promised!to_hex(Promised!Value(r), Promised!Digits)
      BY <2>1, <2>2, CommandsDiffer DEF read_reply, Promised!Value
    <3>2. answer' \in Promised!Answers(m, Promised!Reply(Promised!R, read_reply(buffer, r)))
      BY <2>1, <2>5, CommandsDiffer DEF HandleRead, put_message, Throw, Promised!Answers
    <3>3. UNCHANGED registers
      BY <2>5 DEF HandleRead
    <3>4. Promised!Served(m) /\ m.command = Promised!R
      BY <1>2, <1>5, <2>5, CommandsDiffer
    <3> QED BY <1>1, <3>1, <3>2, <3>3, <3>4 DEF Promised!Read
  <2>6. CASE m.command = W /\ HandleWrite(m, buffer)
    <3> DEFINE Put == put_message(m, Reply(W, SubSeq(buffer, 1, 4)))
    <3>1. ASSUME Put
          PROVE  answer' \in Promised!Answers(m, Promised!Reply(Promised!W, Promised!NumberOf(m)))
      BY <2>1, <3>1, CommandsDiffer DEF put_message, Throw, Promised!Answers
    <3>2. /\ m.command = Promised!W /\ Promised!Served(m) /\ ~Promised!WrongLength(m)
          /\ UNCHANGED <<config, streaming_is_on>>
      BY <1>1, <1>2, <1>5, <2>6, CommandsDiffer
    <3>3. CASE ~HasPointer(r) /\ Put /\ UNCHANGED <<registers, store>>
      BY <2>2, <3>1, <3>2, <3>3 DEF Promised!Write
    <3>4. CASE HasPointer(r) /\ ~AllHex(chars) /\ Throw(m, "NOT_HEX_CHAR")
               /\ UNCHANGED <<registers, store>>
      <4>1. Promised!Deserves(m, "NOT_HEX_CHAR")
        BY <1>1, <1>2, <1>3, <3>2, <3>4, CommandsDiffer DEF Promised!Deserves
      <4>2. answer' = Promised!Threw(m, "NOT_HEX_CHAR") /\ "NOT_HEX_CHAR" \in Promised!Codes
        BY <3>4 DEF Throw, Promised!Codes
      <4> QED BY <3>2, <3>4, <4>1, <4>2 DEF Promised!Refuse
    <3>5. CASE /\ config.func_rw = "block" /\ AllHex(chars)
               /\ registers' = [registers EXCEPT ![r] = from_hex(chars)]
               /\ Put
      <4>1. Promised!Exists(r) /\ Promised!Mask(r) = Bits
        BY <3>5 DEF Promised!Exists, Promised!Mask
      <4>2. {} \in Promised!Unwritten(r)
        BY <2>3, <4>1 DEF Promised!Unwritten
      <4>3. from_hex(chars) = (Promised!from_hex(chars) \cap Promised!Mask(r)) \cup {}
        BY <2>4, <4>1
      <4>4. chars \in Promised!ValuesOf(m) /\ Promised!AllHex(chars)
        BY <1>3, <3>5
      <4> HIDE DEF r, chars, Put
      <4>5. \E value \in Promised!ValuesOf(m), kept \in Promised!Unwritten(r) :
              /\ Promised!AllHex(value)
              /\ registers' = [registers EXCEPT ![r] =
                                 (Promised!from_hex(value) \cap Promised!Mask(r)) \cup kept]
        BY <3>5, <4>2, <4>3, <4>4
      <4> QED BY <3>1, <3>2, <3>5, <4>1, <4>5 DEF Promised!Write, r
    <3>6. CASE UNCHANGED <<registers, answer>>
      BY <1>1, <3>6 DEF Promised!vars
    <3> QED BY <2>1, <2>6, <3>3, <3>4, <3>5, <3>6 DEF HandleWrite
  <2> QED BY <1>1, <1>5, <2>5, <2>6 DEF handle_message
<1> QED BY <1>4, <1>5

(* So does a call of receive. *)
LEMMA ReceiveImplements ==
  ASSUME TypeOK, NEW m \in Requests, Receive(m)
  PROVE  [Promised!Next]_(Promised!vars)
<1> USE SameMessages
<1> DEFINE buffer == Overlay(dataBuffer, m.data)
<1> HIDE DEF buffer
<1>1. \/ ReceiveRegister(m, buffer) \/ ReceiveSwitch(m, buffer)
      \/ ReceiveNoop(m, buffer) \/ ReceiveUnknown(m, buffer)
  BY DEF Receive, buffer
<1>2. ASSUME ReceiveRegister(m, buffer)
      PROVE  \/ Promised!Refuse(m) \/ Promised!Read(m) \/ Promised!Write(m)
             \/ UNCHANGED Promised!vars
  BY <1>2, HandlerImplements DEF buffer
<1>3. ASSUME ReceiveSwitch(m, buffer) PROVE Promised!Switch(m)
  BY <1>3, CommandsDiffer DEF ReceiveSwitch, Promised!Switch, Nothing
<1>4. ASSUME ReceiveNoop(m, buffer) PROVE Promised!Ignore(m)
  BY <1>4, CommandsDiffer DEF ReceiveNoop, Promised!Ignore, Nothing
<1>5. ASSUME ReceiveUnknown(m, buffer) PROVE Promised!Refuse(m)
  <2> DEFINE code == "COMMAND_NOT_IMPLEMENTED"
  <2>1. ~Promised!Implemented(m.command)
    BY <1>5, CommandsDiffer DEF ReceiveUnknown, NotImplemented, Promised!Implemented
  <2>2. code \in Promised!Codes /\ Promised!Deserves(m, code)
    BY <2>1 DEF Promised!Codes, Promised!Deserves
  <2>3. answer' \in Promised!Answers(m, Promised!ErrorReply(m, code)) \cup {Promised!Threw(m, code)}
    BY <1>5 DEF ReceiveUnknown, put_error, put_message, Throw, Promised!Answers
  <2>4. UNCHANGED <<config, registers, streaming_is_on>>
    BY <1>5 DEF ReceiveUnknown
  <2> HIDE DEF code
  <2> QED BY <2>2, <2>3, <2>4 DEF Promised!Refuse
<1> QED BY <1>1, <1>2, <1>3, <1>4, <1>5 DEF Promised!Next

(* The store of a masked write is the moment at which the write happens. *)
LEMMA FinishImplements ==
  ASSUME IInv, StoreServesRequest, FinishWrite
  PROVE  \E m \in Requests : Promised!Write(m)
<1> USE SameMessages
<1> DEFINE m == store.request
           r == store.reg
           mask == write_masks[r]
           kept == store.pointer \ mask
<1>1. ~Idle /\ UNCHANGED <<config, streaming_is_on>>
  BY DEF FinishWrite
<1>2. /\ r \in pointers /\ r \in Registers /\ m \in Requests
      /\ store.new_reg_val \in SUBSET Bits /\ store.pointer \in SUBSET Bits
      /\ registers[r] \in SUBSET Bits
  BY <1>1, RegistersAssumption DEF Idle, NoStore, IInv, TypeOK
<1>3. /\ m.command = Promised!W /\ Promised!Served(m) /\ ~Promised!WrongLength(m)
      /\ Promised!Register(m) = r /\ Promised!NumberOf(m) = SubSeq(dataBuffer, 1, 4)
      /\ config.func_rw = "pointers"
  BY <1>1, CommandsDiffer DEF StoreServesRequest
<1>4. PICK value \in Promised!ValuesOf(m) :
        AllHex(value) /\ from_hex(value) = store.new_reg_val
  BY <1>1 DEF StoreServesRequest
<1>5. answer' \in Promised!Answers(m, Promised!Reply(Promised!W, Promised!NumberOf(m)))
  BY <1>3, CommandsDiffer DEF FinishWrite, put_message, Throw, Promised!Answers
<1>6. Promised!Exists(r) /\ Promised!Mask(r) = mask
  BY <1>2, <1>3 DEF Promised!Exists, Promised!Mask
<1>7. /\ store.pointer \ registers[r] \subseteq hardware_bits[r]
      /\ registers[r] \ store.pointer \subseteq hardware_bits[r]
  BY <1>1 DEF IInv, StoreIsCurrent
<1>8. kept \in Promised!Unwritten(r)
  BY <1>2, <1>6, <1>7 DEF Promised!Unwritten
<1>9. registers' = [registers EXCEPT ![r] =
                      (Promised!from_hex(value) \cap Promised!Mask(r)) \cup kept]
  BY <1>4, <1>6 DEF FinishWrite, masked
<1> HIDE DEF m, r, mask, kept
<1>10. Promised!Write(m)
  BY <1>1, <1>3, <1>4, <1>5, <1>6, <1>8, <1>9 DEF Promised!Write
<1> QED BY <1>2, <1>10

(* Every step keeps the pending write the one that was asked for. *)
LEMMA StepServes == TypeOK /\ StoreServesRequest /\ [Next]_vars => StoreServesRequest'
<1> SUFFICES ASSUME TypeOK, StoreServesRequest, [Next]_vars PROVE StoreServesRequest'
  OBVIOUS
<1>1. ASSUME NEW m \in Requests, Receive(m)
      PROVE  StoreServesRequest'
  <2> DEFINE buffer == Overlay(dataBuffer, m.data)
             r == reg_num(buffer)
             chars == value_chars(buffer)
  <2>1. Idle
    BY <1>1 DEF Receive
  <2>2. CASE UNCHANGED store
    BY <2>1, <2>2 DEF Idle, StoreServesRequest
  <2>3. CASE /\ m.command = W /\ rw_error(m) = "none" /\ config.func_rw = "pointers"
             /\ AllHex(chars) /\ dataBuffer' = buffer /\ UNCHANGED config
             /\ store' = [reg |-> r, request |-> m,
                          new_reg_val |-> from_hex(chars), pointer |-> registers[r]]
    <3>1. /\ Promised!Served(m) /\ Len(m.data) >= 4 /\ ~Promised!WrongLength(m)
          /\ Promised!Register(m) = reg_num(m.data)
      BY <2>3, FaultsAreDeserved
    <3>2. /\ SubSeq(buffer, 1, 4) = Promised!NumberOf(m)
          /\ chars \in Promised!ValuesOf(m)
      BY <3>1, RequestInBuffer
    <3>3. Promised!Register(m) = r
      BY <3>2, SameMessages, SameNumber DEF reg_num, Promised!Register
    <3> HIDE DEF buffer, r, chars
    <3>4. Promised!Served(m)'
      BY <2>3, <3>1 DEF Promised!Served, Promised!Implemented
    <3> QED BY <2>3, <3>1, <3>2, <3>3, <3>4 DEF StoreServesRequest
  <2>4. \/ ReceiveRegister(m, buffer) \/ ReceiveSwitch(m, buffer)
        \/ ReceiveNoop(m, buffer) \/ ReceiveUnknown(m, buffer)
    BY <1>1 DEF Receive
  <2> HIDE DEF buffer, r, chars
  <2>5. CASE ReceiveSwitch(m, buffer) \/ ReceiveNoop(m, buffer) \/ ReceiveUnknown(m, buffer)
    BY <2>2, <2>5 DEF ReceiveSwitch, ReceiveNoop, ReceiveUnknown
  <2>6. CASE ReceiveRegister(m, buffer)
    <3>1. CASE UNCHANGED store
      BY <2>2, <3>1
    <3>2. CASE ~UNCHANGED store
      <4>1. rw_error(m) = "none" /\ m.command = W /\ HandleWrite(m, buffer) /\ UNCHANGED config
        BY <2>6, <3>2 DEF ReceiveRegister, handle_message, HandleRead
      <4>2. /\ config.func_rw = "pointers" /\ AllHex(chars) /\ dataBuffer' = buffer
            /\ store' = [reg |-> r, request |-> m,
                         new_reg_val |-> from_hex(chars), pointer |-> registers[r]]
        BY <3>2, <4>1 DEF HandleWrite, r, chars
      <4> QED BY <2>3, <4>1, <4>2
    <3> QED BY <3>1, <3>2
  <2> QED BY <2>4, <2>5, <2>6
<1>2. ASSUME NEW data \in BadData, ReceiveBadFrame(data)
      PROVE  StoreServesRequest'
  BY <1>2 DEF ReceiveBadFrame, Idle, StoreServesRequest
<1>3. CASE FinishWrite
  BY <1>3 DEF FinishWrite, NoStore, Idle, StoreServesRequest
<1>4. CASE UNCHANGED <<config, dataBuffer, store>>
  BY <1>4 DEF Idle, StoreServesRequest, Promised!Served, Promised!Implemented
<1>5. CASE Hardware
  BY <1>4, <1>5 DEF Hardware
<1>6. CASE UNCHANGED vars
  BY <1>4, <1>6 DEF vars
<1> QED BY <1>1, <1>2, <1>3, <1>5, <1>6 DEF Next

(* Every step is one that is promised, or changes nothing that a host sees. *)
LEMMA StepIsPromised ==
  IInv /\ StoreServesRequest /\ [Next]_vars => [Promised!Next]_(Promised!vars)
<1> SUFFICES ASSUME IInv, StoreServesRequest, [Next]_vars
             PROVE  [Promised!Next]_(Promised!vars)
  OBVIOUS
<1>1. ASSUME NEW m \in Requests, Receive(m) PROVE [Promised!Next]_(Promised!vars)
  BY <1>1, ReceiveImplements DEF IInv
<1>2. ASSUME NEW data \in BadData, ReceiveBadFrame(data) PROVE UNCHANGED Promised!vars
  BY <1>2 DEF ReceiveBadFrame, Promised!vars
<1>3. CASE FinishWrite
  BY <1>3, FinishImplements DEF Promised!Next
<1>4. CASE Hardware
  BY <1>4 DEF Hardware, Promised!Hardware, Promised!Next
<1>5. CASE UNCHANGED vars
  BY <1>5 DEF vars, Promised!vars
<1> QED BY <1>1, <1>2, <1>3, <1>4, <1>5 DEF Next

(* Whatever earlier frames and replies left in the data buffer and whatever *)
(* the hardware changes under a masked write, the device answers requests   *)
(* as if each were handled at one moment, from itself and the registers.    *)
THEOREM AnswersAsPromised == Spec => ImplementsRegisterFile
<1>1. Init => Promised!Init /\ StoreServesRequest
  BY SameMessages DEF Init, Promised!Init, NoStore, Idle, StoreServesRequest
<1>2. IInv /\ StoreServesRequest /\ [Next]_vars => StoreServesRequest'
  BY StepServes DEF IInv
<1>3. Spec => []StoreServesRequest
  BY <1>1, <1>2, Invariance, PTL DEF Spec
<1> QED BY <1>1, <1>3, StepIsPromised, Invariance, PTL DEF Spec, ImplementsRegisterFile, Promised!Spec

(* Registers keep to their width, the data buffer to its characters, and a *)
(* write that waits for its store names a register with a pointer.         *)
THEOREM WellTyped == Spec => []TypeOK
<1>1. IInv => TypeOK
  BY DEF IInv
<1> QED BY <1>1, Invariance, PTL

----------------------------------------------------------------------------
(* What is written in hexadecimal digits reads back.                       *)

(* A digit is read as the number it was written for. *)
LEMMA DigitReadsBack ==
  \A k \in 0 .. 15 : IsHex(hex_digit(k)) /\ hex_value(hex_digit(k)) = k
  BY DEF IsHex, hex_digit, hex_value

(* The four bits of a number below 16 are those it was made of. *)
LEMMA NibbleReadsBack ==
  ASSUME NEW bits
  PROVE  Nibble(NibbleNumber(bits)) = {b \in 0 .. 3 : b \in bits}
<1>1. /\ Weight(bits, 0) = IF 0 \in bits THEN 1 ELSE 0
      /\ Weight(bits, 1) = IF 1 \in bits THEN 2 ELSE 0
      /\ Weight(bits, 2) = IF 2 \in bits THEN 4 ELSE 0
      /\ Weight(bits, 3) = IF 3 \in bits THEN 8 ELSE 0
  BY DEF Weight
<1> DEFINE n == NibbleNumber(bits)
<1>2. n = Weight(bits, 0) + Weight(bits, 1) + Weight(bits, 2) + Weight(bits, 3)
  BY DEF NibbleNumber
<1>3. 2^0 = 1 /\ 2^1 = 2 /\ 2^2 = 4 /\ 2^3 = 8
  OBVIOUS
<1> HIDE DEF n
<1>4. /\ (n \div 1) % 2 = 1 <=> 0 \in bits
      /\ (n \div 2) % 2 = 1 <=> 1 \in bits
      /\ (n \div 4) % 2 = 1 <=> 2 \in bits
      /\ (n \div 8) % 2 = 1 <=> 3 \in bits
  BY <1>1, <1>2
<1>5. ASSUME NEW b \in 0 .. 3 PROVE (n \div 2^b) % 2 = 1 <=> b \in bits
  <2>1. CASE b = 0
    BY <1>3, <1>4, <2>1
  <2>2. CASE b = 1
    BY <1>3, <1>4, <2>2
  <2>3. CASE b = 2
    BY <1>3, <1>4, <2>3
  <2>4. CASE b = 3
    BY <1>3, <1>4, <2>4
  <2> QED BY <2>1, <2>2, <2>3, <2>4
<1> QED BY <1>5 DEF Nibble, n

(***************************************************************************)
(* What convert_uint8_to_hex, _uint16_ and _uint32_ write of a number, the *)
(* conversions in the other direction read as that number, for every width *)
(* and every value: a register that is read and written back is unchanged. *)
(***************************************************************************)
THEOREM NumbersReadBack ==
  ASSUME NEW n \in Nat, NEW bits \in SUBSET (0 .. 4 * n - 1)
  PROVE  AllHex(to_hex(bits, n)) /\ from_hex(to_hex(bits, n)) = bits
<1> DEFINE chars == to_hex(bits, n)
           low(i) == 4 * (n - i)
<1>1. chars \in [1 .. n -> Int] /\ DOMAIN chars = 1 .. n
  <2>1. \A i \in 1 .. n : hex_digit(NibbleNumber(Shift(bits, -low(i)))) \in Int
    BY NibbleNumberType DEF hex_digit
  <2> QED BY <2>1 DEF to_hex
<1>2. Len(chars) = n
  BY <1>1, LenProperties, SeqDef
<1>3. ASSUME NEW i \in 1 .. n
      PROVE  /\ IsHex(chars[i])
             /\ Nibble(hex_value(chars[i])) = {b \in 0 .. 3 : b + low(i) \in bits}
  <2> DEFINE nibble == Shift(bits, -low(i))
  <2>1. chars[i] = hex_digit(NibbleNumber(nibble)) /\ NibbleNumber(nibble) \in 0 .. 15
    BY NibbleNumberType DEF to_hex
  <2>2. IsHex(chars[i]) /\ hex_value(chars[i]) = NibbleNumber(nibble)
    <3> HIDE DEF nibble, chars
    <3> QED BY <2>1, DigitReadsBack
  <2>3. \A b \in 0 .. 3 : b \in nibble <=> b + low(i) \in bits
    <3>1. low(i) \in Int /\ \A b \in bits : b \in Int
      OBVIOUS
    <3> HIDE DEF low
    <3>2. \A b \in 0 .. 3 : b \in nibble => b + low(i) \in bits
      <4> SUFFICES ASSUME NEW b \in 0 .. 3, b \in nibble PROVE b + low(i) \in bits
        OBVIOUS
      <4>1. PICK c \in bits : b = c + (-low(i))
        BY DEF Shift
      <4>2. b + low(i) = c
        BY <3>1, <4>1
      <4> QED BY <4>2
    <3>3. \A b \in 0 .. 3 : b + low(i) \in bits => b \in nibble
      <4> SUFFICES ASSUME NEW b \in 0 .. 3, b + low(i) \in bits PROVE b \in nibble
        OBVIOUS
      <4>1. b = (b + low(i)) + (-low(i))
        BY <3>1
      <4> QED BY <4>1 DEF Shift
    <3> QED BY <3>2, <3>3
  <2>4. Nibble(NibbleNumber(nibble)) = {b \in 0 .. 3 : b \in nibble}
    BY NibbleReadsBack
  <2> HIDE DEF nibble, chars, low
  <2> QED BY <2>2, <2>3, <2>4
<1>4. AllHex(chars)
  BY <1>1, <1>3 DEF AllHex
<1>5. from_hex(chars) = UNION {Shift(Nibble(hex_value(chars[i])), low(i)) : i \in 1 .. n}
  BY <1>1, <1>2 DEF from_hex
<1> HIDE DEF chars
<1>6. ASSUME NEW i \in 1 .. n, NEW b \in Shift(Nibble(hex_value(chars[i])), low(i))
      PROVE  b \in bits
  <2>1. PICK c \in Nibble(hex_value(chars[i])) : b = c + low(i)
    BY DEF Shift
  <2> QED BY <1>3, <2>1
<1>7. ASSUME NEW b \in bits
      PROVE  \E i \in 1 .. n : b \in Shift(Nibble(hex_value(chars[i])), low(i))
  <2>1. PICK q \in 0 .. n - 1, c \in 0 .. 3 : b = 4 * q + c
    <3>1. b \in 0 .. 4 * n - 1
      OBVIOUS
    <3>2. b \div 4 \in 0 .. n - 1 /\ b % 4 \in 0 .. 3 /\ b = 4 * (b \div 4) + (b % 4)
      BY <3>1
    <3> QED BY <3>2
  <2>2. n - q \in 1 .. n /\ low(n - q) = 4 * q /\ b = c + low(n - q)
    BY <2>1
  <2> DEFINE i == n - q
  <2> HIDE DEF i, low
  <2>3. i \in 1 .. n /\ c + low(i) \in bits /\ b = c + low(i)
    BY <2>2 DEF i
  <2>4. c \in Nibble(hex_value(chars[i]))
    BY <1>3, <2>3
  <2> QED BY <2>3, <2>4 DEF Shift
<1>8. from_hex(chars) = bits
  BY <1>5, <1>6, <1>7
<1> QED BY <1>4, <1>8 DEF chars

----------------------------------------------------------------------------
(* The checksum.                                                           *)

(* A function on 1 .. n is a sequence of length n. *)
LEMMA FunctionIsSeq ==
  ASSUME NEW S, NEW n \in Nat, NEW f \in [1 .. n -> S]
  PROVE  f \in Seq(S) /\ Len(f) = n /\ DOMAIN f = 1 .. n
<1>1. f \in Seq(S)
  BY SeqDef
<1>2. Len(f) \in Nat /\ 1 .. Len(f) = 1 .. n
  BY <1>1, LenProperties
<1> QED BY <1>1, <1>2

----------------------------------------------------------------------------
(* Loops.                                                                  *)

(* Of the naturals in a set one is the least. *)
LEMMA LeastNatural ==
  ASSUME NEW S \in SUBSET Nat, S # {}
  PROVE  \E k \in S : \A j \in S : k <= j
<1> DEFINE less == {ss \in Nat \X Nat : ss[1] < ss[2]}
<1>1. less = OpToRel(<, Nat)
  BY Zenon DEF OpToRel
<1>2. IsWellFoundedOn(less, Nat)
  BY <1>1, NatLessThanWellFounded
<1> HIDE DEF less
<1>3. PICK k \in S : \A j \in S : ~(<<j, k>> \in less)
  BY <1>2, WFMin, Zenon
<1>4. ASSUME NEW j \in S PROVE k <= j
  <2> SUFFICES ASSUME j < k PROVE FALSE
    OBVIOUS
  <2>1. <<j, k>> \in less
    BY DEF less
  <2> QED BY <1>3, <2>1
<1> QED BY <1>4

(* Loops that begin alike and go on alike, in n steps. *)
GoAlike(g, h, n) ==
  n \in Nat /\ g[0] = h[0] /\ \A k \in 1 .. n : g[k - 1] = h[k - 1] => g[k] = h[k]

(* They come to the same. *)
LEMMA SameSteps ==
  ASSUME NEW n, NEW g, NEW h, GoAlike(g, h, n)
  PROVE  g[n] = h[n] /\ \A k \in 0 .. n : g[k] = h[k]
<1>0. n \in Nat /\ g[0] = h[0] /\ \A k \in 1 .. n : g[k - 1] = h[k - 1] => g[k] = h[k]
  BY DEF GoAlike
<1> DEFINE Bad == {k \in 0 .. n : g[k] # h[k]}
<1> SUFFICES ASSUME Bad # {} PROVE FALSE
  BY <1>0
<1>1. Bad \in SUBSET Nat
  BY <1>0
<1>2. PICK k \in Bad : \A j \in Bad : k <= j
  BY <1>1, LeastNatural
<1>3. k \in 1 .. n /\ k - 1 \in 0 .. n /\ ~(k <= k - 1)
  BY <1>0, <1>2
<1>4. g[k - 1] = h[k - 1]
  BY <1>2, <1>3
<1> QED BY <1>0, <1>2, <1>3, <1>4

(* A loop of n steps over values in T: its k-th step is body of the value *)
(* before and k. *)
IsLoop(body, T, start, n) ==
  n \in Nat /\ start \in T /\ \A k \in 1 .. n : \A t \in T : body[<<t, k>>] \in T

(* The values from step to step. *)
IsRun(g, body, T, start, n) ==
  /\ g \in [0 .. n -> T] /\ g[0] = start
  /\ \A k \in 1 .. n : g[k] = body[<<g[k - 1], k>>]

(* They are defined. *)
LEMMA LoopGoesOn ==
  ASSUME NEW n, NEW T, NEW start, NEW body, IsLoop(body, T, start, n)
  PROVE  \E g : IsRun(g, body, T, start, n)
<1>0. n \in Nat /\ start \in T /\ \A k \in 1 .. n : \A t \in T : body[<<t, k>>] \in T
  BY DEF IsLoop
<1> DEFINE Fits(g, m) == /\ g \in [0 .. m -> T]
                         /\ g[0] = start
                         /\ \A k \in 1 .. m : g[k] = body[<<g[k - 1], k>>]
           Bad == {m \in 0 .. n : ~\E g : Fits(g, m)}
<1> SUFFICES ASSUME Bad # {} PROVE FALSE
  <2>1. n \in 0 .. n
    BY <1>0
  <2> QED BY <2>1 DEF IsRun
<1>1. PICK m \in Bad : \A j \in Bad : m <= j
  <2>1. Bad \in SUBSET Nat
    BY <1>0
  <2> HIDE DEF Bad
  <2> QED BY <2>1, LeastNatural
<1>2. CASE m = 0
  <2>1. Fits([k \in 0 .. 0 |-> start], 0)
    BY <1>0
  <2> QED BY <1>1, <1>2, <2>1
<1>3. CASE m # 0
  <2>1. m \in 1 .. n /\ m - 1 \in 0 .. n /\ ~(m <= m - 1)
    BY <1>0, <1>1, <1>3
  <2>2. PICK g : Fits(g, m - 1)
    BY <1>1, <2>1
  <2> DEFINE h == [k \in 0 .. m |-> IF k = m THEN body[<<g[m - 1], m>>] ELSE g[k]]
  <2>3. g[m - 1] \in T /\ body[<<g[m - 1], m>>] \in T
    BY <1>0, <2>1, <2>2
  <2>4. h \in [0 .. m -> T]
    <3>1. ASSUME NEW k \in 0 .. m, k # m PROVE g[k] \in T
      <4>1. k \in 0 .. m - 1
        BY <2>1, <3>1
      <4> QED BY <2>2, <4>1
    <3> QED BY <2>3, <3>1
  <2>5. h[0] = start
    BY <2>1, <2>2
  <2>6. ASSUME NEW k \in 1 .. m PROVE h[k] = body[<<h[k - 1], k>>]
    <3>1. k \in 0 .. m /\ k - 1 \in 0 .. m /\ k - 1 # m
      BY <2>1
    <3>2. h[k - 1] = g[k - 1]
      BY <3>1
    <3>3. CASE k = m
      BY <3>1, <3>2, <3>3
    <3>4. CASE k # m
      <4>1. k \in 1 .. m - 1 /\ h[k] = g[k]
        BY <2>1, <3>1, <3>4
      <4> HIDE DEF h
      <4> QED BY <2>2, <3>2, <4>1
    <3> QED BY <3>3, <3>4
  <2>7. Fits(h, m)
    BY <2>4, <2>5, <2>6
  <2> QED BY <1>1, <2>7
<1> QED BY <1>2, <1>3

----------------------------------------------------------------------------
(* Sets of bits.                                                           *)

(* What is in a shifted set. *)
IsShift(T, S, k) == T \in SUBSET Int /\ \A x \in Int : x \in T <=> x - k \in S

(* Shift yields such a set, for shifts in both directions. *)
LEMMA ShiftIs ==
  ASSUME NEW S \in SUBSET Int, NEW k \in Int
  PROVE  IsShift(Shift(S, k), S, k)
<1>1. ASSUME NEW x \in Int, x - k \in S PROVE x \in Shift(S, k)
  <2>1. x = (x - k) + k
    OBVIOUS
  <2> QED BY <1>1, <2>1 DEF Shift
<1>2. ASSUME NEW x \in Shift(S, k) PROVE x \in Int /\ x - k \in S
  <2>1. PICK b \in S : x = b + k
    BY DEF Shift
  <2>2. b = x - k /\ x \in Int
    BY <2>1
  <2> QED BY <2>2
<1> QED BY <1>1, <1>2 DEF IsShift

----------------------------------------------------------------------------
(* Division.                                                               *)

(* The lowest degree is 16: there are m steps. *)
StepsFrom(n, m) == m \in Nat /\ (m = n - 15 \/ (m = 0 /\ n < 15))

(* The steps of the division of p from degree n down. *)
IsDivision(d, p, n, m) ==
  /\ d \in [0 .. m -> SUBSET Int] /\ d[0] = p
  /\ \A k \in 1 .. m : d[k] = subtract(d[k - 1], n + 1 - k)

(* A step of the division. *)
IsSubtracted(r, p, d) ==
  /\ r \in SUBSET Int
  /\ d \in p => \A x \in Int : x \in r <=> (x \in p <=> x - d + 16 \notin Generator)
  /\ d \notin p => r = p

(* It is what subtract does, term by term. *)
LEMMA SubtractIs ==
  ASSUME NEW p \in SUBSET Int, NEW d \in Int
  PROVE  IsSubtracted(subtract(p, d), p, d)
<1> DEFINE S == Shift(Generator, d - 16)
<1>1. Generator \in SUBSET Int /\ d - 16 \in Int
  BY DEF Generator
<1>2. IsShift(S, Generator, d - 16)
  BY <1>1, ShiftIs
<1> HIDE DEF S
<1>3. S \in SUBSET Int /\ \A x \in Int : x \in S <=> x - (d - 16) \in Generator
  BY <1>2 DEF IsShift
<1>4. \A x \in Int : x - (d - 16) = x - d + 16
  OBVIOUS
<1>5. subtract(p, d) = IF d \in p THEN Xor(p, S) ELSE p
  BY DEF subtract, S
<1>6. Xor(p, S) \in SUBSET Int /\ \A x \in Int : x \in Xor(p, S) <=> (x \in p <=> x \notin S)
  BY <1>3 DEF Xor
<1> QED BY <1>3, <1>4, <1>5, <1>6 DEF IsSubtracted

(* The division of p is what the loop of Remainder does. *)
LEMMA RemainderRuns ==
  ASSUME NEW n \in Int, NEW p \in SUBSET Int, NEW m, StepsFrom(n, m)
  PROVE  \E d : IsDivision(d, p, n, m) /\ Remainder(p, n) = d[m]
<1> DEFINE degrees == [k \in 1 .. n - 15 |-> n + 1 - k]
           Is(a) == a = [k \in 0 .. Len(degrees) |->
                           IF k = 0 THEN p ELSE subtract(a[k - 1], degrees[k])]
           after == CHOOSE a : Is(a)
           body == [q \in (SUBSET Int) \X (1 .. m) |-> subtract(q[1], n + 1 - q[2])]
<1>1. m \in Nat /\ 1 .. n - 15 = 1 .. m
  BY DEF StepsFrom
<1>2. Len(degrees) = m /\ \A k \in 1 .. m : degrees[k] = n + 1 - k
  <2>1. degrees \in [1 .. m -> Int] /\ \A k \in 1 .. m : degrees[k] = n + 1 - k
    BY <1>1
  <2> HIDE DEF degrees
  <2>2. Len(degrees) = m
    BY <1>1, <2>1, FunctionIsSeq
  <2> QED BY <2>1, <2>2
<1>3. Remainder(p, n) = after[Len(degrees)]
  BY DEF Remainder, Feed
<1> HIDE DEF degrees
<1>4. ASSUME NEW k \in 1 .. m, NEW t \in SUBSET Int
      PROVE  body[<<t, k>>] = subtract(t, n + 1 - k) /\ body[<<t, k>>] \in SUBSET Int
  <2>1. n + 1 - k \in Int
    BY <1>1
  <2>2. subtract(t, n + 1 - k) \in SUBSET Int
    BY <2>1, SubtractIs DEF IsSubtracted
  <2>3. body[<<t, k>>] = subtract(t, n + 1 - k)
    OBVIOUS
  <2> QED BY <2>2, <2>3
<1> HIDE DEF body
<1>5. IsLoop(body, SUBSET Int, p, m)
  BY <1>1, <1>4 DEF IsLoop
<1>6. PICK d : IsRun(d, body, SUBSET Int, p, m)
  BY <1>5, LoopGoesOn
<1>7. IsDivision(d, p, n, m)
  <2>1. d \in [0 .. m -> SUBSET Int] /\ d[0] = p
    BY <1>6 DEF IsRun
  <2>2. ASSUME NEW k \in 1 .. m PROVE d[k] = subtract(d[k - 1], n + 1 - k)
    <3>1. d[k - 1] \in SUBSET Int
      BY <1>1, <2>1
    <3>2. d[k] = body[<<d[k - 1], k>>]
      BY <1>6 DEF IsRun
    <3> QED BY <1>4, <3>1, <3>2
  <2> QED BY <2>1, <2>2 DEF IsDivision
<1>8. Is(d)
  <2>1. d \in [0 .. m -> SUBSET Int]
    BY <1>7 DEF IsDivision
  <2>2. \A k \in 0 .. m : d[k] = IF k = 0 THEN p ELSE subtract(d[k - 1], degrees[k])
    BY <1>1, <1>2, <1>7 DEF IsDivision
  <2> QED BY <1>2, <2>1, <2>2
<1>9. Is(after)
  BY <1>8
<1> HIDE DEF after
<1>10. GoAlike(after, d, m)
  <2>1. \A k \in 0 .. m : after[k] = IF k = 0 THEN p ELSE subtract(after[k - 1], degrees[k])
    BY <1>2, <1>9
  <2>2. after[0] = d[0]
    BY <1>1, <1>7, <2>1 DEF IsDivision
  <2>3. ASSUME NEW k \in 1 .. m, after[k - 1] = d[k - 1] PROVE after[k] = d[k]
    <3>1. after[k] = subtract(after[k - 1], degrees[k])
      BY <1>1, <2>1
    <3>2. d[k] = subtract(d[k - 1], degrees[k])
      BY <1>2, <1>7 DEF IsDivision
    <3> QED BY <2>3, <3>1, <3>2
  <2> QED BY <1>1, <2>2, <2>3 DEF GoAlike
<1>11. after[m] = d[m]
  BY <1>10, SameSteps
<1> QED BY <1>2, <1>3, <1>7, <1>11

(* The degrees go down. *)
LEMMA DegreesSink ==
  ASSUME NEW n \in Int, NEW p \in SUBSET (0 .. n), NEW m, StepsFrom(n, m),
         NEW d, IsDivision(d, p, n, m)
  PROVE  \A k \in 0 .. m : d[k] \subseteq 0 .. n - k
<1> DEFINE Bad == {k \in 0 .. m : ~(d[k] \subseteq 0 .. n - k)}
<1> SUFFICES ASSUME Bad # {} PROVE FALSE
  OBVIOUS
<1>1. m \in Nat
  BY DEF StepsFrom
<1>2. PICK k \in Bad : \A j \in Bad : k <= j
  <2>1. Bad \in SUBSET Nat
    BY <1>1
  <2> HIDE DEF Bad
  <2> QED BY <2>1, LeastNatural
<1>3. k # 0
  BY <1>2 DEF IsDivision
<1>4. k \in 1 .. m /\ k - 1 \in 0 .. m /\ ~(k <= k - 1)
  BY <1>1, <1>2, <1>3
<1>5. d[k - 1] \subseteq 0 .. n - (k - 1)
  BY <1>2, <1>4
<1> DEFINE top == n + 1 - k
<1>6. top \in Int /\ top >= 16 /\ n - k = top - 1 /\ n - (k - 1) = top
  BY <1>1, <1>4 DEF StepsFrom
<1>7. d[k] = subtract(d[k - 1], top) /\ d[k - 1] \in SUBSET Int
  BY <1>4 DEF IsDivision
<1> HIDE DEF top
<1>8. IsSubtracted(d[k], d[k - 1], top)
  BY <1>6, <1>7, SubtractIs
<1>9. 16 \in Generator /\ \A y \in Generator : y \in 0 .. 16
  BY DEF Generator
<1>10. ASSUME NEW x \in d[k] PROVE x \in 0 .. n - k
  <2>1. x \in Int
    BY <1>8 DEF IsSubtracted
  <2>2. CASE top \notin d[k - 1]
    <3>1. x \in d[k - 1] /\ x # top
      BY <1>8, <2>2 DEF IsSubtracted
    <3> QED BY <1>5, <1>6, <3>1
  <2>3. CASE top \in d[k - 1] /\ x \in d[k - 1]
    <3>1. x - top + 16 \notin Generator
      BY <1>8, <2>1, <2>3 DEF IsSubtracted
    <3>2. x # top
      BY <1>6, <1>9, <3>1
    <3> QED BY <1>5, <1>6, <2>3, <3>2
  <2>4. CASE top \in d[k - 1] /\ x \notin d[k - 1]
    <3>1. x - top + 16 \in Generator
      BY <1>8, <2>1, <2>4 DEF IsSubtracted
    <3>2. x - top + 16 \in 0 .. 16 /\ x # top
      BY <1>9, <2>4, <3>1
    <3> QED BY <1>6, <2>1, <3>2
  <2> QED BY <2>2, <2>3, <2>4
<1>11. d[k] \subseteq 0 .. n - k
  BY <1>10
<1> QED BY <1>2, <1>11

(* A remainder has 16 bits. *)
LEMMA RemainderFits ==
  ASSUME NEW n \in Int, NEW p \in SUBSET (0 .. n)
  PROVE  Remainder(p, n) \in SUBSET (0 .. 15)
<1> DEFINE m == IF n >= 15 THEN n - 15 ELSE 0
<1>1. StepsFrom(n, m) /\ m \in Nat /\ m \in 0 .. m /\ n - m <= 15
  BY DEF StepsFrom
<1> HIDE DEF m
<1>2. p \in SUBSET Int
  OBVIOUS
<1>3. PICK d : IsDivision(d, p, n, m) /\ Remainder(p, n) = d[m]
  BY <1>1, <1>2, RemainderRuns
<1>4. d[m] \subseteq 0 .. n - m
  BY <1>1, <1>3, DegreesSink
<1> QED BY <1>1, <1>3, <1>4

----------------------------------------------------------------------------
(* The division takes in one bit after the other.                          *)

(* One more term from below, or at 16; and the step of the division at 16. *)
Reduce(x) == IF 16 \in x THEN Xor(x, Generator) ELSE x

(* Terms at 0, or anywhere below the degree that is divided next. *)
TakesBit(q, n) == q \in SUBSET (0 .. 16) /\ (n >= 15 \/ q \subseteq {0})

(* A step of the division of a polynomial that is shifted by one. *)
LEMMA SubtractShifted ==
  ASSUME NEW p \in SUBSET Int, NEW q \in SUBSET (0 .. 16), NEW d \in Int, d >= 16
  PROVE  subtract(Xor(Shift(p, 1), q), d + 1) = Xor(Shift(subtract(p, d), 1), q)
<1> DEFINE shifted == Xor(Shift(p, 1), q)
           left == subtract(shifted, d + 1)
           r == subtract(p, d)
<1>1. IsSubtracted(r, p, d)
  BY SubtractIs
<1>2. r \in SUBSET Int
  BY <1>1 DEF IsSubtracted
<1>3. q \in SUBSET Int /\ d + 1 \in Int /\ d + 1 \notin q
  OBVIOUS
<1> HIDE DEF r
<1>4. IsShift(Shift(p, 1), p, 1) /\ IsShift(Shift(r, 1), r, 1)
  BY <1>2, ShiftIs
<1>5. shifted \in SUBSET Int /\ \A x \in Int : x \in shifted <=> (x - 1 \in p <=> x \notin q)
  BY <1>3, <1>4 DEF Xor, IsShift
<1>6. d + 1 \in shifted <=> d \in p
  BY <1>3, <1>5
<1> HIDE DEF shifted
<1>7. IsSubtracted(left, shifted, d + 1)
  BY <1>3, <1>5, SubtractIs
<1> HIDE DEF left
<1>8. /\ Xor(Shift(r, 1), q) \in SUBSET Int
      /\ \A x \in Int : x \in Xor(Shift(r, 1), q) <=> (x - 1 \in r <=> x \notin q)
  BY <1>3, <1>4 DEF Xor, IsShift
<1>9. CASE d \in p
  <2>1. \A x \in Int : x \in left <=> (x \in shifted <=> x - (d + 1) + 16 \notin Generator)
    BY <1>6, <1>7, <1>9 DEF IsSubtracted
  <2>2. \A x \in Int : x \in r <=> (x \in p <=> x - d + 16 \notin Generator)
    BY <1>1, <1>9 DEF IsSubtracted
  <2>3. ASSUME NEW x \in Int PROVE x \in left <=> (x - 1 \in r <=> x \notin q)
    <3>1. x - (d + 1) + 16 = (x - 1) - d + 16 /\ x - 1 \in Int
      OBVIOUS
    <3>2. x - 1 \in r <=> (x - 1 \in p <=> (x - 1) - d + 16 \notin Generator)
      BY <2>2, <3>1
    <3>3. x \in left <=> (x \in shifted <=> (x - 1) - d + 16 \notin Generator)
      BY <2>1, <3>1
    <3>4. x \in shifted <=> (x - 1 \in p <=> x \notin q)
      BY <1>5
    <3> QED BY <3>2, <3>3, <3>4, Zenon
  <2>4. left \in SUBSET Int
    BY <1>7 DEF IsSubtracted
  <2> QED BY <1>8, <2>3, <2>4 DEF left, r, shifted
<1>10. CASE d \notin p
  <2>1. left = shifted /\ r = p
    BY <1>1, <1>6, <1>7, <1>10 DEF IsSubtracted
  <2> QED BY <2>1 DEF left, r, shifted
<1> QED BY <1>9, <1>10

(***************************************************************************)
(* To divide a polynomial shifted by one, with terms q added, is to divide *)
(* it, to shift the remainder, to add q and to reduce that by one term.    *)
(***************************************************************************)
LEMMA Horner ==
  ASSUME NEW n \in Int, n >= -1, NEW p \in SUBSET (0 .. n), NEW q, TakesBit(q, n)
  PROVE  Remainder(Xor(Shift(p, 1), q), n + 1) = Reduce(Xor(Shift(Remainder(p, n), 1), q))
<1> DEFINE r == Xor(Shift(p, 1), q)
<1>1. q \in SUBSET (0 .. 16) /\ q \in SUBSET Int /\ p \in SUBSET Int
  BY DEF TakesBit
<1>2. IsShift(Shift(p, 1), p, 1)
  BY <1>1, ShiftIs
<1>3. r \in SUBSET Int
  BY <1>1, <1>2 DEF Xor, IsShift
<1>4. CASE n >= 15
  <2> DEFINE m == n - 15
  <2>1. m \in Nat /\ StepsFrom(n, m) /\ StepsFrom(n + 1, m + 1) /\ n + 1 \in Int
    BY <1>4 DEF StepsFrom
  <2>2. \A k \in 1 .. m :
          /\ k - 1 \in 0 .. m /\ k \in 1 .. m + 1 /\ n + 1 - k \in Int /\ n + 1 - k >= 16
          /\ n + 1 + 1 - k = (n + 1 - k) + 1
    OBVIOUS
  <2>3. n + 1 + 1 - (m + 1) = 16 /\ m \in 0 .. m /\ m + 1 \in 1 .. m + 1 /\ (m + 1) - 1 = m
    BY <2>1
  <2> HIDE DEF r, m
  <2>4. PICK d : IsDivision(d, p, n, m) /\ Remainder(p, n) = d[m]
    BY <1>1, <2>1, RemainderRuns
  <2>5. PICK e : IsDivision(e, r, n + 1, m + 1) /\ Remainder(r, n + 1) = e[m + 1]
    BY <1>3, <2>1, RemainderRuns
  <2> DEFINE h == [k \in 0 .. m |-> Xor(Shift(d[k], 1), q)]
  <2>6. ASSUME NEW k \in 1 .. m, e[k - 1] = h[k - 1] PROVE e[k] = h[k]
    <3>1. e[k] = subtract(e[k - 1], (n + 1 - k) + 1)
      BY <2>2, <2>5 DEF IsDivision
    <3>2. d[k] = subtract(d[k - 1], n + 1 - k) /\ d[k - 1] \in SUBSET Int
      BY <2>2, <2>4 DEF IsDivision
    <3>3. e[k - 1] = Xor(Shift(d[k - 1], 1), q)
      BY <2>2, <2>6
    <3>4. subtract(e[k - 1], (n + 1 - k) + 1) = Xor(Shift(subtract(d[k - 1], n + 1 - k), 1), q)
      BY <1>1, <2>2, <3>2, <3>3, SubtractShifted
    <3>5. h[k] = Xor(Shift(d[k], 1), q)
      BY <2>1
    <3> QED BY <3>1, <3>2, <3>4, <3>5
  <2>7. e[0] = h[0]
    BY <2>1, <2>4, <2>5 DEF IsDivision, r
  <2>8. GoAlike(e, h, m)
    BY <2>1, <2>6, <2>7 DEF GoAlike
  <2>9. e[m] = h[m] /\ h[m] = Xor(Shift(d[m], 1), q)
    BY <2>1, <2>3, <2>8, SameSteps
  <2>10. e[m + 1] = subtract(e[m], 16)
    BY <2>3, <2>5 DEF IsDivision
  <2>11. subtract(e[m], 16) = Reduce(e[m])
    <3>1. Shift(Generator, 16 - 16) = Generator
      BY DEF Shift, Generator
    <3> QED BY <3>1 DEF subtract, Reduce
  <2> QED BY <2>4, <2>5, <2>9, <2>10, <2>11 DEF r
<1>5. CASE n < 15
  <2>1. StepsFrom(n, 0) /\ StepsFrom(n + 1, 0) /\ n + 1 \in Int
    BY <1>5 DEF StepsFrom
  <2>2. 16 - 1 \notin p /\ 16 \notin q
    BY <1>5 DEF TakesBit
  <2>3. 16 \notin r
    BY <1>2, <2>2 DEF Xor, IsShift
  <2> HIDE DEF r
  <2>4. Remainder(p, n) = p
    BY <1>1, <2>1, RemainderRuns DEF IsDivision
  <2>5. Remainder(r, n + 1) = r
    BY <1>3, <2>1, RemainderRuns DEF IsDivision
  <2> QED BY <2>3, <2>4, <2>5 DEF Reduce, r
<1> QED BY <1>4, <1>5

(* The powers of two that the masks of a 16 bit number need. *)
LEMMA Powers ==
  /\ 2^0 = 1 /\ 2^1 = 2 /\ 2^2 = 4 /\ 2^3 = 8 /\ 2^4 = 16 /\ 2^5 = 32 /\ 2^6 = 64 /\ 2^7 = 128
  /\ 2^8 = 256 /\ 2^9 = 512 /\ 2^10 = 1024 /\ 2^11 = 2048 /\ 2^12 = 4096 /\ 2^13 = 8192
  /\ 2^14 = 16384 /\ 2^15 = 32768
  OBVIOUS

(* The bit b, if the number is odd. *)
Odd(n, b) == IF n % 2 = 1 THEN {b} ELSE {}

(* The bits of a number, mask by mask. *)
LEMMA BitsAre ==
  ASSUME NEW n \in Nat
  PROVE  Bits16(n) =
           Odd(n, 0) \cup Odd(n \div 2, 1) \cup Odd(n \div 4, 2) \cup Odd(n \div 8, 3)
             \cup Odd(n \div 16, 4) \cup Odd(n \div 32, 5) \cup Odd(n \div 64, 6)
             \cup Odd(n \div 128, 7) \cup Odd(n \div 256, 8) \cup Odd(n \div 512, 9)
             \cup Odd(n \div 1024, 10) \cup Odd(n \div 2048, 11) \cup Odd(n \div 4096, 12)
             \cup Odd(n \div 8192, 13) \cup Odd(n \div 16384, 14) \cup Odd(n \div 32768, 15)
<1>1. Bits16(n) \in SUBSET (0 .. 15) /\ \A b \in 0 .. 15 : b \in Bits16(n) <=> (n \div 2^b) % 2 = 1
  <2>1. 16 - 1 = 15
    OBVIOUS
  <2> QED BY <2>1 DEF Bits16, BitsOf
<1>2. n \div 1 = n
  OBVIOUS
<1>3. /\ (0 \in Bits16(n) <=> n % 2 = 1) /\ (1 \in Bits16(n) <=> (n \div 2) % 2 = 1)
      /\ (2 \in Bits16(n) <=> (n \div 4) % 2 = 1) /\ (3 \in Bits16(n) <=> (n \div 8) % 2 = 1)
      /\ (4 \in Bits16(n) <=> (n \div 16) % 2 = 1) /\ (5 \in Bits16(n) <=> (n \div 32) % 2 = 1)
      /\ (6 \in Bits16(n) <=> (n \div 64) % 2 = 1) /\ (7 \in Bits16(n) <=> (n \div 128) % 2 = 1)
      /\ (8 \in Bits16(n) <=> (n \div 256) % 2 = 1) /\ (9 \in Bits16(n) <=> (n \div 512) % 2 = 1)
      /\ (10 \in Bits16(n) <=> (n \div 1024) % 2 = 1) /\ (11 \in Bits16(n) <=> (n \div 2048) % 2 = 1)
      /\ (12 \in Bits16(n) <=> (n \div 4096) % 2 = 1) /\ (13 \in Bits16(n) <=> (n \div 8192) % 2 = 1)
      /\ (14 \in Bits16(n) <=> (n \div 16384) % 2 = 1) /\ (15 \in Bits16(n) <=> (n \div 32768) % 2 = 1)
  BY <1>1, <1>2, Powers
<1> QED BY <1>1, <1>3 DEF Odd

(* The polynomial of the register is the generator without its first term. *)
LEMMA PolyIs ==
  Poly = {0, 2, 5, 6, 8, 10, 11, 12, 13} /\ Generator = Poly \cup {16}
<1>1. Poly = {0, 2, 5, 6, 8, 10, 11, 12, 13}
  BY BitsAre DEF Poly, Odd
<1> QED BY <1>1 DEF Generator

----------------------------------------------------------------------------
(* Registers that take in one bit after the other.                         *)

(* The register takes in terms q. *)
Fed(r, q) == Reduce(Xor(Shift(r, 1), q))

(* The register after that, bit by bit. *)
TakesIn(f, r, q) ==
  /\ f \in SUBSET (0 .. 15)
  /\ \A x \in 0 .. 15 :
       x \in f <=> IF 15 \in r <=> 16 \notin q THEN (x - 1 \in r <=> x \notin q) <=> x \notin Poly
                                               ELSE x - 1 \in r <=> x \notin q

(* Reduce leaves those bits, and no more than sixteen. *)
LEMMA FedIs ==
  ASSUME NEW r \in SUBSET (0 .. 15), NEW q \in SUBSET (0 .. 16)
  PROVE  TakesIn(Fed(r, q), r, q)
<1> DEFINE s == Xor(Shift(r, 1), q)
<1>1. IsShift(Shift(r, 1), r, 1)
  BY ShiftIs
<1>2. s \in SUBSET Int /\ \A x \in Int : x \in s <=> (x - 1 \in r <=> x \notin q)
  <2>1. q \in SUBSET Int
    OBVIOUS
  <2> QED BY <1>1, <2>1 DEF IsShift, Xor
<1>3. s \in SUBSET (0 .. 16)
  <2>1. ASSUME NEW x \in s PROVE x \in 0 .. 16
    BY <1>2
  <2> QED BY <2>1
<1>4. 16 \in s <=> (15 \in r <=> 16 \notin q)
  BY <1>2
<1> HIDE DEF s
<1>5. Poly \in SUBSET (0 .. 15) /\ Generator = Poly \cup {16}
  BY PolyIs
<1>6. CASE 16 \in s
  <2>1. Fed(r, q) = Xor(s, Generator)
    BY <1>6 DEF Fed, Reduce, s
  <2>2. Fed(r, q) \in SUBSET (0 .. 15)
    BY <1>3, <1>5, <1>6, <2>1 DEF Xor
  <2>3. \A x \in 0 .. 15 : x \in Fed(r, q) <=> (x \in s <=> x \notin Poly)
    BY <1>3, <1>5, <2>1 DEF Xor
  <2> QED BY <1>2, <1>4, <1>6, <2>2, <2>3 DEF TakesIn
<1>7. CASE 16 \notin s
  <2>1. Fed(r, q) = s
    BY <1>7 DEF Fed, Reduce, s
  <2> QED BY <1>2, <1>3, <1>4, <1>7, <2>1 DEF TakesIn
<1> QED BY <1>6, <1>7

(* The width of the registers. *)
IsWide(w) == w \in Int /\ w >= 16

(* A shift to the left, in the low 16 bits. *)
LEMMA LeftIs ==
  ASSUME IsWide(width), NEW c \in SUBSET Nat
  PROVE  Left(c) \in SUBSET Nat /\ \A x \in 0 .. 15 : x \in Left(c) <=> x - 1 \in Low(c, 16)
<1>1. IsShift(Shift(c, 1), c, 1)
  BY ShiftIs
<1>2. ASSUME NEW x \in Left(c) PROVE x \in Nat
  <2>1. x \in Int /\ x - 1 \in c
    BY <1>1, <1>2 DEF Left, Low, IsShift
  <2> QED BY <2>1
<1>3. ASSUME NEW x \in 0 .. 15 PROVE x \in Left(c) <=> x - 1 \in Low(c, 16)
  <2>1. x < width /\ x \in Int /\ x - 1 < 16
    BY DEF IsWide
  <2> QED BY <1>1, <2>1 DEF Left, Low, IsShift
<1> QED BY <1>2, <1>3

(* What two sets of low bits are. *)
LEMMA LowBits ==
  ASSUME NEW c \in SUBSET Nat
  PROVE  Low(c, 16) \in SUBSET (0 .. 15) /\ \A x \in 0 .. 15 : x \in Low(c, 16) <=> x \in c
<1>1. ASSUME NEW x \in c, x < 16 PROVE x \in 0 .. 15
  <2>1. x \in Nat
    OBVIOUS
  <2> QED BY <1>1, <2>1
<1>2. \A x \in 0 .. 15 : x < 16
  OBVIOUS
<1> QED BY <1>1, <1>2 DEF Low

(* The bit of crc_16_dnp_bbb_update. *)
LEMMA BbbShiftFeeds ==
  ASSUME IsWide(width), NEW c \in SUBSET Nat, NEW q \in SUBSET {0}
  PROVE  bbb_shift(c, q) \in SUBSET Nat /\ Low(bbb_shift(c, q), 16) = Fed(Low(c, 16), q)
<1> DEFINE low == Low(c, 16)
           s == bbb_shift(c, q)
<1>1. Left(c) \in SUBSET Nat /\ \A x \in 0 .. 15 : x \in Left(c) <=> x - 1 \in low
  BY LeftIs
<1>2. low \in SUBSET (0 .. 15) /\ (15 \in low <=> 15 \in c)
  BY LowBits
<1>3. TakesIn(Fed(low, q), low, q)
  BY <1>2, FedIs
<1>4. Poly \in SUBSET (0 .. 15)
  BY PolyIs
<1>5. 0 - 1 \notin low /\ \A x \in q : x = 0
  BY <1>2
<1>6. s = IF 15 \in low THEN Xor(Left(c) \cup q, Poly) ELSE Left(c) \cup q
  BY <1>2 DEF bbb_shift
<1> HIDE DEF low, s
<1>7. s \in SUBSET Nat
  <2>1. Poly \in SUBSET Nat
    BY PolyIs
  <2>2. q \in SUBSET Nat
    BY <1>5
  <2>3. Left(c) \cup q \in SUBSET Nat
    BY <1>1, <2>2
  <2> QED BY <1>1, <1>4, <1>6, <2>1, <2>3 DEF Xor
<1>8. \A x \in 0 .. 15 : x \in Left(c) \cup q <=> (x - 1 \in low <=> x \notin q)
  BY <1>1, <1>5
<1>9. \A x \in 0 .. 15 : x \in s <=> x \in Fed(low, q)
  <2>1. CASE 15 \in low
    <3>1. \A x \in 0 .. 15 : x \in s <=> (x \in Left(c) \cup q <=> x \notin Poly)
      BY <1>6, <2>1 DEF Xor
    <3> QED BY <1>3, <1>5, <1>8, <2>1, <3>1 DEF TakesIn
  <2>2. CASE 15 \notin low
    BY <1>3, <1>5, <1>6, <1>8, <2>2 DEF TakesIn
  <2> QED BY <2>1, <2>2
<1>10. \A x \in 0 .. 15 : x \in Low(s, 16) <=> x \in s
  BY <1>7, LowBits
<1>11. Low(s, 16) \in SUBSET (0 .. 15) /\ Fed(low, q) \in SUBSET (0 .. 15)
  BY <1>3, <1>7, LowBits DEF TakesIn
<1>12. Low(s, 16) = Fed(low, q)
  BY <1>9, <1>10, <1>11
<1> QED BY <1>7, <1>12 DEF s, low

(* The bit of crc_16_dnp_bbf_update. *)
AtTop(bit) == IF bit THEN {16} ELSE {}

(* It takes in the term at the top. *)
LEMMA BbfBitFeeds ==
  ASSUME IsWide(width), NEW c \in SUBSET Nat, NEW bit \in BOOLEAN
  PROVE  /\ bbf_bit(c, bit) \in SUBSET Nat
         /\ Low(bbf_bit(c, bit), 16) = Fed(Low(c, 16), AtTop(bit))
<1> DEFINE low == Low(c, 16)
           s == bbf_bit(c, bit)
           q == AtTop(bit)
<1>1. Left(c) \in SUBSET Nat /\ \A x \in 0 .. 15 : x \in Left(c) <=> x - 1 \in low
  BY LeftIs
<1>2. low \in SUBSET (0 .. 15) /\ (15 \in low <=> 15 \in c)
  BY LowBits
<1>3. q \in SUBSET (0 .. 16) /\ (16 \notin q <=> ~bit) /\ \A x \in 0 .. 15 : x \notin q
  BY DEF AtTop
<1>4. s = IF 15 \in low <=> 16 \notin q THEN Xor(Left(c), Poly) ELSE Left(c)
  <2>1. s = IF (15 \in c) # bit THEN Xor(Left(c), Poly) ELSE Left(c)
    BY DEF bbf_bit
  <2>2. ((15 \in c) # bit) <=> (15 \in low <=> 16 \notin q)
    BY <1>2, <1>3
  <2> HIDE DEF low, s, q
  <2> QED BY <2>1, <2>2
<1> HIDE DEF low, s, q
<1>5. TakesIn(Fed(low, q), low, q)
  BY <1>2, <1>3, FedIs
<1>6. Poly \in SUBSET (0 .. 15)
  BY PolyIs
<1>7. s \in SUBSET Nat
  <2>1. Poly \in SUBSET Nat
    BY PolyIs
  <2> QED BY <1>1, <1>4, <2>1 DEF Xor
<1>8. \A x \in 0 .. 15 : x \in Left(c) <=> (x - 1 \in low <=> x \notin q)
  BY <1>1, <1>3
<1>9. \A x \in 0 .. 15 : x \in s <=> x \in Fed(low, q)
  <2>1. CASE 15 \in low <=> 16 \notin q
    <3>1. \A x \in 0 .. 15 : x \in s <=> (x \in Left(c) <=> x \notin Poly)
      BY <1>4, <2>1 DEF Xor
    <3> QED BY <1>5, <1>8, <2>1, <3>1 DEF TakesIn
  <2>2. CASE ~(15 \in low <=> 16 \notin q)
    BY <1>4, <1>5, <1>8, <2>2 DEF TakesIn
  <2> QED BY <2>1, <2>2
<1>10. \A x \in 0 .. 15 : x \in Low(s, 16) <=> x \in s
  BY <1>7, LowBits
<1>11. Low(s, 16) \in SUBSET (0 .. 15) /\ Fed(low, q) \in SUBSET (0 .. 15)
  BY <1>5, <1>7, LowBits DEF TakesIn
<1>12. Low(s, 16) = Fed(low, q)
  BY <1>9, <1>10, <1>11
<1> QED BY <1>7, <1>12 DEF s, low, q

(* The register c takes in the terms q one after the other. *)
IsFed(r, q, c, n) ==
  /\ n \in Nat /\ r \in [0 .. n -> SUBSET (0 .. 15)] /\ r[0] = c
  /\ \A k \in 1 .. n : q[k] \in SUBSET (0 .. 16) /\ r[k] = Fed(r[k - 1], q[k])

(* A loop does so in its low bits. *)
LowIsFed(a, q, c, n) ==
  Low(a[0], 16) = c /\ \A k \in 1 .. n : Low(a[k], 16) = Fed(Low(a[k - 1], 16), q[k])

(* Then it comes to the same in its low bits. *)
LEMMA LowSteps ==
  ASSUME NEW n, NEW q, NEW c, NEW r, IsFed(r, q, c, n), NEW a, LowIsFed(a, q, c, n)
  PROVE  Low(a[n], 16) = r[n]
<1> DEFINE h == [k \in 0 .. n |-> Low(a[k], 16)]
<1>1. n \in Nat /\ n \in 0 .. n /\ 0 \in 0 .. n /\ \A k \in 1 .. n : k \in 0 .. n /\ k - 1 \in 0 .. n
  BY DEF IsFed
<1>2. h[n] = Low(a[n], 16) /\ h[0] = c /\ \A k \in 1 .. n : h[k] = Fed(h[k - 1], q[k])
  BY <1>1 DEF LowIsFed
<1> HIDE DEF h
<1>3. GoAlike(h, r, n)
  BY <1>1, <1>2 DEF GoAlike, IsFed
<1>4. h[n] = r[n]
  BY <1>3, SameSteps
<1> QED BY <1>2, <1>4

(* A register has no more than its low bits. *)
LEMMA LowIsAll ==
  ASSUME NEW c \in SUBSET (0 .. 15)
  PROVE  Low(c, 16) = c
<1>1. \A x \in c : x < 16
  OBVIOUS
<1> QED BY <1>1 DEF Low

(* The steps of Loop. *)
LEMMA LoopSteps ==
  ASSUME NEW n \in Nat
  PROVE  Len([i \in 1 .. n |-> i - 1]) = n /\ \A k \in 1 .. n : [i \in 1 .. n |-> i - 1][k] = k - 1
<1>1. [i \in 1 .. n |-> i - 1] \in [1 .. n -> Int]
  OBVIOUS
<1>2. Len([i \in 1 .. n |-> i - 1]) = n
  BY <1>1, FunctionIsSeq
<1> QED BY <1>2

(* The bits of a byte, from the first sent, as terms that come in at 0. *)
Incoming(byte) == [k \in 1 .. 8 |-> IF k - 1 \in Byte(byte) THEN {0} ELSE {}]

(* crc_16_dnp_bbb_update takes in a byte. *)
LEMMA BbbByteFeeds ==
  ASSUME IsWide(width), NEW c \in SUBSET (0 .. 15), NEW byte, NEW r, IsFed(r, Incoming(byte), c, 8)
  PROVE  bbb_byte(c, byte) = r[8]
<1> DEFINE steps == [i \in 1 .. 8 |-> i - 1]
           in(i) == IF 7 - i \in reflect(Byte(byte), 8) THEN {0} ELSE {}
           Is(a) == a = [k \in 0 .. Len(steps) |->
                           IF k = 0 THEN c ELSE bbb_shift(a[k - 1], in(steps[k]))]
           after == CHOOSE a : Is(a)
           body == [p \in (SUBSET Nat) \X (1 .. 8) |-> bbb_shift(p[1], Incoming(byte)[p[2]])]
<1>1. bbb_byte(c, byte) = Low(after[Len(steps)], 16)
  BY DEF bbb_byte, Loop, Feed
<1>2. Len(steps) = 8 /\ \A k \in 1 .. 8 : steps[k] = k - 1
  BY LoopSteps
<1> HIDE DEF steps
<1>3. \A k \in 1 .. 8 : in(steps[k]) = Incoming(byte)[k] /\ Incoming(byte)[k] \in SUBSET {0}
  <2>1. ASSUME NEW k \in 1 .. 8 PROVE 7 - (k - 1) \in reflect(Byte(byte), 8) <=> k - 1 \in Byte(byte)
    <3>1. Byte(byte) \in SUBSET (0 .. 7)
      BY DEF Byte, BitsOf
    <3>2. \A b \in Byte(byte) : b < 8 /\ (7 - (k - 1) = 8 - 1 - b <=> k - 1 = b)
      BY <3>1
    <3> QED BY <3>2 DEF reflect, Low
  <2> QED BY <1>2, <2>1 DEF Incoming
<1>4. ASSUME NEW k \in 1 .. 8, NEW t \in SUBSET Nat
      PROVE  /\ body[<<t, k>>] = bbb_shift(t, Incoming(byte)[k]) /\ body[<<t, k>>] \in SUBSET Nat
             /\ Low(body[<<t, k>>], 16) = Fed(Low(t, 16), Incoming(byte)[k])
  BY <1>3, BbbShiftFeeds
<1> HIDE DEF body, in
<1>5. PICK a : IsRun(a, body, SUBSET Nat, c, 8)
  <2>1. c \in SUBSET Nat
    OBVIOUS
  <2>2. IsLoop(body, SUBSET Nat, c, 8)
    BY <1>4, <2>1 DEF IsLoop
  <2> QED BY <2>2, LoopGoesOn
<1>6. a \in [0 .. 8 -> SUBSET Nat] /\ a[0] = c
  BY <1>5 DEF IsRun
<1>7. ASSUME NEW k \in 1 .. 8
      PROVE  /\ a[k - 1] \in SUBSET Nat /\ a[k] = bbb_shift(a[k - 1], in(steps[k]))
             /\ Low(a[k], 16) = Fed(Low(a[k - 1], 16), Incoming(byte)[k])
  <2>1. a[k] = body[<<a[k - 1], k>>] /\ a[k - 1] \in SUBSET Nat
    BY <1>5, <1>6 DEF IsRun
  <2> QED BY <1>3, <1>4, <2>1
<1>8. Is(a)
  <2>1. \A k \in 0 .. 8 : a[k] = IF k = 0 THEN c ELSE bbb_shift(a[k - 1], in(steps[k]))
    BY <1>6, <1>7
  <2> QED BY <1>2, <1>6, <2>1
<1>9. Is(after)
  BY <1>8
<1> HIDE DEF after
<1>10. GoAlike(after, a, 8)
  <2>1. \A k \in 0 .. 8 : after[k] = IF k = 0 THEN c ELSE bbb_shift(after[k - 1], in(steps[k]))
    BY <1>2, <1>9
  <2> QED BY <1>6, <1>7, <2>1 DEF GoAlike
<1>11. after[8] = a[8]
  BY <1>10, SameSteps
<1>12. Low(a[8], 16) = r[8]
  <2>1. Low(c, 16) = c
    BY LowIsAll
  <2>2. LowIsFed(a, Incoming(byte), c, 8)
    BY <1>6, <1>7, <2>1 DEF LowIsFed
  <2> QED BY <2>2, LowSteps
<1> QED BY <1>1, <1>2, <1>11, <1>12

(* The bits of a byte as terms that meet the last bit of the register. *)
Meeting(byte) == [k \in 1 .. 8 |-> AtTop(k - 1 \in Byte(byte))]

(* crc_16_dnp_bbf_update takes in a byte. *)
LEMMA BbfByteFeeds ==
  ASSUME IsWide(width), NEW c \in SUBSET (0 .. 15), NEW byte, NEW r, IsFed(r, Meeting(byte), c, 8)
  PROVE  bbf_byte(c, byte) = r[8]
<1> DEFINE steps == [i \in 1 .. 8 |-> i - 1]
           Is(a) == a = [k \in 0 .. Len(steps) |->
                           IF k = 0 THEN c ELSE bbf_bit(a[k - 1], steps[k] \in Byte(byte))]
           after == CHOOSE a : Is(a)
           body == [p \in (SUBSET Nat) \X (1 .. 8) |-> bbf_bit(p[1], p[2] - 1 \in Byte(byte))]
<1>1. bbf_byte(c, byte) = Low(after[Len(steps)], 16)
  BY DEF bbf_byte, Loop, Feed
<1>2. Len(steps) = 8 /\ \A k \in 1 .. 8 : steps[k] = k - 1
  BY LoopSteps
<1> HIDE DEF steps
<1>3. ASSUME NEW k \in 1 .. 8
      PROVE  /\ (steps[k] \in Byte(byte)) = (k - 1 \in Byte(byte))
             /\ Meeting(byte)[k] = AtTop(k - 1 \in Byte(byte))
  BY <1>2 DEF Meeting
<1>4. ASSUME NEW k \in 1 .. 8, NEW t \in SUBSET Nat
      PROVE  /\ body[<<t, k>>] = bbf_bit(t, k - 1 \in Byte(byte)) /\ body[<<t, k>>] \in SUBSET Nat
             /\ Low(body[<<t, k>>], 16) = Fed(Low(t, 16), Meeting(byte)[k])
  <2> DEFINE bit == k - 1 \in Byte(byte)
  <2>1. body[<<t, k>>] = bbf_bit(t, bit)
    OBVIOUS
  <2>2. bit \in BOOLEAN
    OBVIOUS
  <2>3. Meeting(byte)[k] = AtTop(bit)
    BY <1>3
  <2> HIDE DEF body, bit
  <2>4. bbf_bit(t, bit) \in SUBSET Nat /\ Low(bbf_bit(t, bit), 16) = Fed(Low(t, 16), AtTop(bit))
    BY <2>2, BbfBitFeeds
  <2>5. /\ body[<<t, k>>] = bbf_bit(t, bit) /\ body[<<t, k>>] \in SUBSET Nat
        /\ Low(body[<<t, k>>], 16) = Fed(Low(t, 16), Meeting(byte)[k])
    BY <2>1, <2>3, <2>4, Zenon
  <2> QED BY <2>5 DEF bit
<1> HIDE DEF body
<1>5. PICK a : IsRun(a, body, SUBSET Nat, c, 8)
  <2>1. c \in SUBSET Nat
    OBVIOUS
  <2>2. IsLoop(body, SUBSET Nat, c, 8)
    BY <1>4, <2>1 DEF IsLoop
  <2> QED BY <2>2, LoopGoesOn
<1>6. a \in [0 .. 8 -> SUBSET Nat] /\ a[0] = c
  BY <1>5 DEF IsRun
<1>7. ASSUME NEW k \in 1 .. 8
      PROVE  /\ a[k - 1] \in SUBSET Nat /\ a[k] = bbf_bit(a[k - 1], steps[k] \in Byte(byte))
             /\ Low(a[k], 16) = Fed(Low(a[k - 1], 16), Meeting(byte)[k])
  <2>1. a[k] = body[<<a[k - 1], k>>] /\ a[k - 1] \in SUBSET Nat
    BY <1>5, <1>6 DEF IsRun
  <2> QED BY <1>3, <1>4, <2>1
<1>8. Is(a)
  <2>1. \A k \in 0 .. 8 : a[k] = IF k = 0 THEN c ELSE bbf_bit(a[k - 1], steps[k] \in Byte(byte))
    BY <1>6, <1>7
  <2> QED BY <1>2, <1>6, <2>1
<1>9. Is(after)
  BY <1>8
<1> HIDE DEF after
<1>10. GoAlike(after, a, 8)
  <2>1. \A k \in 0 .. 8 : after[k] = IF k = 0 THEN c ELSE bbf_bit(after[k - 1], steps[k] \in Byte(byte))
    BY <1>2, <1>9
  <2> QED BY <1>6, <1>7, <2>1 DEF GoAlike
<1>11. after[8] = a[8]
  BY <1>10, SameSteps
<1>12. Low(a[8], 16) = r[8]
  <2>1. Low(c, 16) = c
    BY LowIsAll
  <2>2. LowIsFed(a, Meeting(byte), c, 8)
    BY <1>6, <1>7, <2>1 DEF LowIsFed
  <2> QED BY <2>2, LowSteps
<1> QED BY <1>1, <1>2, <1>11, <1>12

(* Zeros that come in. *)
Zeros == [k \in 1 .. 16 |-> {}]

(* crc_16_dnp_bbb_finalize takes in sixteen zeros. *)
LEMMA BbbFinalizeFeeds ==
  ASSUME IsWide(width), NEW c \in SUBSET (0 .. 15), NEW r, IsFed(r, Zeros, c, 16)
  PROVE  bbb_finalize(c) = Xor(reflect(r[16], 16), Ones)
<1> DEFINE steps == [i \in 1 .. 16 |-> i - 1]
           Is(a) == a = [k \in 0 .. Len(steps) |->
                           IF k = 0 THEN c ELSE bbb_shift(a[k - 1], {})]
           after == CHOOSE a : Is(a)
           body == [p \in (SUBSET Nat) \X (1 .. 16) |-> bbb_shift(p[1], {})]
<1>1. bbb_finalize(c) = Xor(reflect(after[Len(steps)], 16), Ones)
  BY DEF bbb_finalize, Loop, Feed
<1>2. Len(steps) = 16 /\ \A k \in 1 .. 16 : steps[k] = k - 1
  BY LoopSteps
<1> HIDE DEF steps
<1>3. \A k \in 1 .. 16 : Zeros[k] = {}
  BY DEF Zeros
<1>4. ASSUME NEW k \in 1 .. 16, NEW t \in SUBSET Nat
      PROVE  /\ body[<<t, k>>] = bbb_shift(t, {}) /\ body[<<t, k>>] \in SUBSET Nat
             /\ Low(body[<<t, k>>], 16) = Fed(Low(t, 16), Zeros[k])
  BY <1>3, BbbShiftFeeds
<1> HIDE DEF body
<1>5. PICK a : IsRun(a, body, SUBSET Nat, c, 16)
  <2>1. c \in SUBSET Nat
    OBVIOUS
  <2>2. IsLoop(body, SUBSET Nat, c, 16)
    BY <1>4, <2>1 DEF IsLoop
  <2> QED BY <2>2, LoopGoesOn
<1>6. a \in [0 .. 16 -> SUBSET Nat] /\ a[0] = c
  BY <1>5 DEF IsRun
<1>7. ASSUME NEW k \in 1 .. 16
      PROVE  /\ a[k - 1] \in SUBSET Nat /\ a[k] = bbb_shift(a[k - 1], {})
             /\ Low(a[k], 16) = Fed(Low(a[k - 1], 16), Zeros[k])
  <2>1. a[k] = body[<<a[k - 1], k>>] /\ a[k - 1] \in SUBSET Nat
    BY <1>5, <1>6 DEF IsRun
  <2> QED BY <1>3, <1>4, <2>1
<1>8. Is(a)
  <2>1. \A k \in 0 .. 16 : a[k] = IF k = 0 THEN c ELSE bbb_shift(a[k - 1], {})
    BY <1>6, <1>7
  <2> QED BY <1>2, <1>6, <2>1
<1>9. Is(after)
  BY <1>8
<1> HIDE DEF after
<1>10. GoAlike(after, a, 16)
  <2>1. \A k \in 0 .. 16 : after[k] = IF k = 0 THEN c ELSE bbb_shift(after[k - 1], {})
    BY <1>2, <1>9
  <2> QED BY <1>6, <1>7, <2>1 DEF GoAlike
<1>11. after[16] = a[16]
  BY <1>10, SameSteps
<1>12. Low(a[16], 16) = r[16]
  <2>1. Low(c, 16) = c
    BY LowIsAll
  <2>2. LowIsFed(a, Zeros, c, 16)
    BY <1>6, <1>7, <2>1 DEF LowIsFed
  <2> QED BY <2>2, LowSteps
<1>13. reflect(a[16], 16) = reflect(r[16], 16)
  <2>1. r[16] \in SUBSET (0 .. 15)
    BY DEF IsFed
  <2>2. Low(r[16], 16) = r[16]
    BY <2>1, LowIsAll
  <2> QED BY <1>12, <2>2 DEF reflect
<1> QED BY <1>1, <1>2, <1>11, <1>13

(* Frames as sequences of bytes, and their degree. *)
IsMessage(s) == s \in Seq(0 .. 255)
Degree(s) == 8 * Len(s) - 1

(* What the registers hold after a message: crc_16_dnp_bbb has the remainder *)
(* of its polynomial, crc_16_dnp_bbf that of the polynomial shifted by 16.    *)
Dividend(s) == Remainder(Polynomial(s), Degree(s))
Residue(s) == Remainder(Shift(Polynomial(s), 16), Degree(s) + 16)

(* The polynomial p with the first i bits of a byte behind it. *)
Part(p, byte, i) == {x \in Nat : IF x >= i THEN x - i \in p ELSE i - 1 - x \in Byte(byte)}

(* The first term of a byte's part. *)
AtBottom(bit) == IF bit THEN {0} ELSE {}

(* A byte has eight bits. *)
LEMMA ByteType == \A byte : Byte(byte) \in SUBSET (0 .. 7)
  BY DEF Byte, BitsOf

(* One more bit goes behind the polynomial. *)
LEMMA PartGrows ==
  ASSUME NEW p \in SUBSET Nat, NEW byte, NEW i \in 1 .. 8
  PROVE  Part(p, byte, i) = Xor(Shift(Part(p, byte, i - 1), 1), AtBottom(i - 1 \in Byte(byte)))
<1> DEFINE old == Part(p, byte, i - 1)
           q == AtBottom(i - 1 \in Byte(byte))
           new == Xor(Shift(old, 1), q)
<1>1. old \in SUBSET Nat /\ old \in SUBSET Int
  BY DEF Part
<1>2. IsShift(Shift(old, 1), old, 1)
  BY <1>1, ShiftIs
<1>3. q \in SUBSET {0} /\ (0 \in q <=> i - 1 \in Byte(byte))
  BY DEF AtBottom
<1> HIDE DEF old, q
<1>4. Shift(old, 1) \in SUBSET Int /\ q \in SUBSET Int
  BY <1>2, <1>3 DEF IsShift
<1>5. new \in SUBSET Int /\ \A x \in Int : x \in new <=> (x - 1 \in old <=> x \notin q)
  BY <1>2, <1>4 DEF IsShift, Xor
<1> HIDE DEF new
<1>6. ASSUME NEW x \in Int, x < 0 PROVE x \notin new /\ x \notin Part(p, byte, i)
  <2>1. x - 1 \notin Nat /\ x \notin Nat /\ x # 0
    BY <1>6
  <2> QED BY <1>1, <1>3, <1>5, <2>1 DEF Part
<1>7. 0 \in new <=> 0 \in Part(p, byte, i)
  <2>1. 0 - 1 \notin Nat /\ 0 \in Nat /\ ~(0 >= i) /\ i - 1 - 0 = i - 1
    OBVIOUS
  <2>2. 0 \in new <=> 0 \in q
    BY <1>1, <1>5, <2>1
  <2> QED BY <1>3, <2>1, <2>2 DEF Part
<1>8. ASSUME NEW x \in Int, x > 0 PROVE x \in new <=> x \in Part(p, byte, i)
  <2>1. /\ x \in Nat /\ x - 1 \in Nat /\ x # 0 /\ (x >= i <=> x - 1 >= i - 1)
        /\ x - i = (x - 1) - (i - 1) /\ i - 1 - x = (i - 1) - 1 - (x - 1)
    BY <1>8
  <2>2. x \in new <=> x - 1 \in old
    BY <1>3, <1>5, <2>1
  <2> QED BY <2>1, <2>2 DEF Part, old
<1>9. Part(p, byte, i) \in SUBSET Int
  BY DEF Part
<1>10. \A x \in Int : x \in new <=> x \in Part(p, byte, i)
  <2> SUFFICES ASSUME NEW x \in Int PROVE x \in new <=> x \in Part(p, byte, i)
    OBVIOUS
  <2>1. x < 0 \/ x = 0 \/ x > 0
    OBVIOUS
  <2> QED BY <1>6, <1>7, <1>8, <2>1
<1> QED BY <1>5, <1>9, <1>10 DEF new, q, old

(* Its degree. *)
LEMMA PartFits ==
  ASSUME NEW n \in Int, n >= -1, NEW p \in SUBSET (0 .. n), NEW byte, NEW i \in 0 .. 8
  PROVE  Part(p, byte, i) \in SUBSET (0 .. n + i)
<1> SUFFICES ASSUME NEW x \in Part(p, byte, i) PROVE x \in 0 .. n + i
  OBVIOUS
<1>1. x \in Nat /\ (x >= i => x - i \in p)
  BY DEF Part
<1>2. CASE x >= i
  <2>1. x - i \in 0 .. n
    BY <1>1, <1>2
  <2> QED BY <1>1, <2>1
<1>3. CASE ~(x >= i)
  BY <1>1, <1>3
<1> QED BY <1>2, <1>3

(* No bit of it yet. *)
LEMMA PartOfNothing ==
  ASSUME NEW p \in SUBSET Nat, NEW byte
  PROVE  Part(p, byte, 0) = p
<1>1. \A x \in Nat : x >= 0 /\ x - 0 = x
  OBVIOUS
<1> QED BY <1>1 DEF Part

(* Each term comes of a bit. *)
HasTerms(s) ==
  \A x : x \in Polynomial(s)
            <=> \E k \in 1 .. Len(s) : \E b \in Byte(s[k]) : x = 8 * (Len(s) - k) + 7 - b

(* The terms of a message. *)
LEMMA PolynomialType ==
  ASSUME NEW s, IsMessage(s)
  PROVE  /\ Degree(s) \in Int /\ Degree(s) >= -1 /\ Len(s) \in Nat
         /\ Polynomial(s) \in SUBSET (0 .. Degree(s)) /\ Polynomial(s) \in SUBSET Nat
         /\ HasTerms(s)
<1>1. Len(s) \in Nat /\ DOMAIN s = 1 .. Len(s)
  BY LenProperties DEF IsMessage
<1>2. \A x : x \in Polynomial(s)
               <=> \E k \in 1 .. Len(s) : \E b \in Byte(s[k]) : x = 8 * (Len(s) - k) + 7 - b
  BY <1>1 DEF Polynomial
<1>3. ASSUME NEW x \in Polynomial(s) PROVE x \in 0 .. Degree(s)
  <2>1. PICK k \in 1 .. Len(s) : \E b \in Byte(s[k]) : x = 8 * (Len(s) - k) + 7 - b
    BY <1>2
  <2>2. PICK b \in 0 .. 7 : x = 8 * (Len(s) - k) + 7 - b
    BY <2>1, ByteType
  <2> QED BY <1>1, <2>2 DEF Degree
<1>4. Degree(s) \in Int /\ Degree(s) >= -1
  BY <1>1 DEF Degree
<1> QED BY <1>1, <1>2, <1>3, <1>4 DEF HasTerms

(* A byte goes behind a message. *)
LEMMA PolynomialGrows ==
  ASSUME NEW s, IsMessage(s), NEW byte \in 0 .. 255
  PROVE  /\ IsMessage(Append(s, byte)) /\ Degree(Append(s, byte)) = Degree(s) + 8
         /\ Polynomial(Append(s, byte)) = Part(Polynomial(s), byte, 8)
<1> DEFINE t == Append(s, byte)
           n == Len(s)
<1>1. n \in Nat /\ IsMessage(t) /\ Len(t) = n + 1 /\ t[n + 1] = byte /\ \A k \in 1 .. n : t[k] = s[k]
  BY AppendProperties, LenProperties DEF IsMessage
<1> HIDE DEF t
<1>2. Degree(t) = Degree(s) + 8
  BY <1>1 DEF Degree, n
<1>3. \A x : x \in Polynomial(s)
               <=> \E k \in 1 .. n : \E b \in Byte(s[k]) : x = 8 * (n - k) + 7 - b
  BY PolynomialType DEF HasTerms
<1>4. \A x : x \in Polynomial(t)
               <=> \E k \in 1 .. n + 1 : \E b \in Byte(t[k]) : x = 8 * (n + 1 - k) + 7 - b
  <2>1. HasTerms(t)
    BY <1>1, PolynomialType
  <2> HIDE DEF n
  <2> QED BY <1>1, <2>1 DEF HasTerms
<1>5. Polynomial(s) \in SUBSET Nat /\ Polynomial(t) \in SUBSET Nat
  BY <1>1, PolynomialType
<1> HIDE DEF n
<1>6. ASSUME NEW x \in Polynomial(t) PROVE x \in Part(Polynomial(s), byte, 8)
  <2>1. PICK k \in 1 .. n + 1 : \E b \in Byte(t[k]) : x = 8 * (n + 1 - k) + 7 - b
    BY <1>4
  <2>2. PICK b \in Byte(t[k]) : x = 8 * (n + 1 - k) + 7 - b
    BY <2>1
  <2>3. b \in 0 .. 7 /\ x \in Nat
    BY <1>5, <2>2, ByteType
  <2>4. CASE k = n + 1
    <3>1. ~(x >= 8) /\ 8 - 1 - x = b
      BY <1>1, <2>2, <2>3, <2>4
    <3> QED BY <1>1, <2>2, <2>3, <2>4, <3>1 DEF Part
  <2>5. CASE k # n + 1
    <3>1. k \in 1 .. n /\ x >= 8 /\ x - 8 = 8 * (n - k) + 7 - b
      BY <1>1, <2>2, <2>3, <2>5
    <3>2. x - 8 \in Polynomial(s)
      BY <1>1, <1>3, <2>2, <3>1
    <3> QED BY <2>3, <3>1, <3>2 DEF Part
  <2> QED BY <2>4, <2>5
<1>7. ASSUME NEW x \in Part(Polynomial(s), byte, 8) PROVE x \in Polynomial(t)
  <2>1. x \in Nat /\ IF x >= 8 THEN x - 8 \in Polynomial(s) ELSE 8 - 1 - x \in Byte(byte)
    BY DEF Part
  <2>2. CASE x >= 8
    <3>1. PICK k \in 1 .. n : \E b \in Byte(s[k]) : x - 8 = 8 * (n - k) + 7 - b
      BY <1>3, <2>1, <2>2
    <3>2. PICK b \in Byte(s[k]) : x - 8 = 8 * (n - k) + 7 - b
      BY <3>1
    <3>3. b \in 0 .. 7
      BY ByteType
    <3>4. k \in 1 .. n + 1 /\ b \in Byte(t[k]) /\ x = 8 * (n + 1 - k) + 7 - b
      BY <1>1, <2>1, <3>2, <3>3
    <3> QED BY <1>4, <3>4
  <2>3. CASE ~(x >= 8)
    <3>1. /\ n + 1 \in 1 .. n + 1 /\ 8 - 1 - x \in Byte(t[n + 1])
          /\ x = 8 * (n + 1 - (n + 1)) + 7 - (8 - 1 - x)
      BY <1>1, <2>1, <2>3
    <3> QED BY <1>4, <3>1
  <2> QED BY <2>2, <2>3
<1> QED BY <1>1, <1>2, <1>6, <1>7 DEF t

----------------------------------------------------------------------------
(* What the registers make of a message.                                   *)

(* The remainder of the message, as crc_16_dnp_bbb takes in a byte. *)
LEMMA DividendTakesByte ==
  ASSUME NEW s, IsMessage(s), NEW byte \in 0 .. 255
  PROVE  \E r : IsFed(r, Incoming(byte), Dividend(s), 8) /\ r[8] = Dividend(Append(s, byte))
<1> DEFINE p == Polynomial(s)
           n == Degree(s)
           part(i) == Part(p, byte, i)
           r == [i \in 0 .. 8 |-> Remainder(part(i), n + i)]
<1>1. n \in Int /\ n >= -1 /\ p \in SUBSET (0 .. n) /\ p \in SUBSET Nat
  BY PolynomialType
<1> HIDE DEF p, n
<1>2. \A i \in 0 .. 8 : part(i) \in SUBSET (0 .. n + i)
  BY <1>1, PartFits
<1>3. r[0] = Remainder(p, n) /\ r[8] = Remainder(part(8), n + 8)
  BY <1>1, PartOfNothing
<1>4. ASSUME NEW i \in 0 .. 8 PROVE r[i] \in SUBSET (0 .. 15)
  <2>1. n + i \in Int
    BY <1>1
  <2> HIDE DEF part
  <2> QED BY <1>2, <2>1, RemainderFits
<1>5. ASSUME NEW k \in 1 .. 8
      PROVE  Incoming(byte)[k] \in SUBSET (0 .. 16) /\ r[k] = Fed(r[k - 1], Incoming(byte)[k])
  <2>1. Incoming(byte)[k] = AtBottom(k - 1 \in Byte(byte))
    BY DEF Incoming, AtBottom
  <2> DEFINE q == AtBottom(k - 1 \in Byte(byte))
             m == n + (k - 1)
  <2>2. /\ k \in 0 .. 8 /\ k - 1 \in 0 .. 8 /\ n + k = m + 1 /\ m \in Int /\ m >= -1
    BY <1>1
  <2>3. part(k) = Xor(Shift(part(k - 1), 1), q)
    BY <1>1, PartGrows
  <2>4. q \in SUBSET {0}
    BY DEF AtBottom
  <2>5. q \in SUBSET (0 .. 16)
    BY <2>4
  <2>6. TakesBit(q, m)
    BY <2>4, <2>5 DEF TakesBit
  <2>7. r[k] = Remainder(part(k), m + 1) /\ r[k - 1] = Remainder(part(k - 1), m)
    BY <2>2
  <2>8. part(k - 1) \in SUBSET (0 .. m)
    BY <1>2, <2>2
  <2> HIDE DEF q, m, part, r
  <2>9. r[k] = Fed(r[k - 1], q)
    BY <2>2, <2>3, <2>6, <2>7, <2>8, Horner DEF Fed
  <2> QED BY <2>1, <2>5, <2>9 DEF q
<1>6. r \in [0 .. 8 -> SUBSET (0 .. 15)]
  BY <1>4
<1> HIDE DEF r, part
<1>7. IsFed(r, Incoming(byte), Dividend(s), 8)
  BY <1>3, <1>5, <1>6 DEF IsFed, Dividend, p, n
<1>8. r[8] = Dividend(Append(s, byte))
  BY <1>3, PolynomialGrows DEF Dividend, p, n, part
<1> QED BY <1>7, <1>8

(* That of the shifted message, as crc_16_dnp_bbf does. *)
LEMMA ResidueTakesByte ==
  ASSUME NEW s, IsMessage(s), NEW byte \in 0 .. 255
  PROVE  \E r : IsFed(r, Meeting(byte), Residue(s), 8) /\ r[8] = Residue(Append(s, byte))
<1> DEFINE p == Polynomial(s)
           n == Degree(s)
           part(i) == Part(p, byte, i)
           r == [i \in 0 .. 8 |-> Remainder(Shift(part(i), 16), (n + i) + 16)]
<1>1. n \in Int /\ n >= -1 /\ p \in SUBSET (0 .. n) /\ p \in SUBSET Nat
  BY PolynomialType
<1> HIDE DEF p, n
<1>2. ASSUME NEW i \in 0 .. 8
      PROVE  part(i) \in SUBSET Int /\ Shift(part(i), 16) \in SUBSET (0 .. (n + i) + 16)
  <2>1. part(i) \in SUBSET (0 .. n + i)
    BY <1>1, PartFits
  <2> HIDE DEF part
  <2>2. \A b \in part(i) : b + 16 \in 0 .. (n + i) + 16 /\ b \in Int
    BY <1>1, <2>1
  <2> QED BY <2>2 DEF Shift
<1>3. r[0] = Remainder(Shift(p, 16), n + 16) /\ r[8] = Remainder(Shift(part(8), 16), (n + 8) + 16)
  <2>1. n + 0 = n
    BY <1>1
  <2> QED BY <1>1, <2>1, PartOfNothing
<1>4. ASSUME NEW i \in 0 .. 8 PROVE r[i] \in SUBSET (0 .. 15)
  <2>1. (n + i) + 16 \in Int
    BY <1>1
  <2> HIDE DEF part
  <2> QED BY <1>2, <2>1, RemainderFits
<1>5. ASSUME NEW k \in 1 .. 8
      PROVE  Meeting(byte)[k] \in SUBSET (0 .. 16) /\ r[k] = Fed(r[k - 1], Meeting(byte)[k])
  <2> DEFINE q == AtTop(k - 1 \in Byte(byte))
             low == AtBottom(k - 1 \in Byte(byte))
             m == (n + (k - 1)) + 16
  <2>1. Meeting(byte)[k] = q
    BY DEF Meeting
  <2>2. /\ k \in 0 .. 8 /\ k - 1 \in 0 .. 8 /\ (n + k) + 16 = m + 1 /\ m \in Int /\ m >= -1 /\ m >= 15
    BY <1>1
  <2>3. part(k) = Xor(Shift(part(k - 1), 1), low)
    BY <1>1, PartGrows
  <2>4. low \in SUBSET Int /\ \A x \in Int : x \in q <=> x - 16 \in low
    BY DEF AtBottom, AtTop
  <2>5. q \in SUBSET (0 .. 16) /\ q \in SUBSET Int
    BY DEF AtTop
  <2>6. TakesBit(q, m)
    BY <2>2, <2>5 DEF TakesBit
  <2>7. r[k] = Remainder(Shift(part(k), 16), m + 1) /\ r[k - 1] = Remainder(Shift(part(k - 1), 16), m)
    BY <2>2
  <2>8. part(k - 1) \in SUBSET Int /\ part(k) \in SUBSET Int /\ Shift(part(k - 1), 16) \in SUBSET (0 .. m)
    BY <1>2, <2>2
  <2> HIDE DEF q, low, m, part, r
  <2>9. Shift(part(k), 16) = Xor(Shift(Shift(part(k - 1), 16), 1), q)
    <3> DEFINE a == part(k - 1)
               u == Shift(a, 16)
    <3>1. IsShift(Shift(a, 1), a, 1) /\ IsShift(u, a, 16)
      BY <2>8, ShiftIs
    <3>2. u \in SUBSET Int
      BY <3>1 DEF IsShift
    <3> HIDE DEF a, u
    <3>3. IsShift(Shift(u, 1), u, 1)
      BY <3>2, ShiftIs
    <3>4. IsShift(Shift(part(k), 16), part(k), 16)
      BY <2>8, ShiftIs
    <3>5. Shift(a, 1) \in SUBSET Int /\ \A x \in Int : x \in part(k) <=> (x - 1 \in a <=> x \notin low)
      BY <2>3, <3>1 DEF IsShift, Xor, a
    <3>6. ASSUME NEW x \in Int
          PROVE  x \in Shift(part(k), 16) <=> (x \in Shift(u, 1) <=> x \notin q)
      <4>1. x - 16 \in Int /\ x - 1 \in Int /\ (x - 16) - 1 = (x - 1) - 16
        OBVIOUS
      <4>2. x \in Shift(part(k), 16) <=> x - 16 \in part(k)
        BY <3>4 DEF IsShift
      <4>3. x \in Shift(u, 1) <=> x - 1 \in u
        BY <3>3 DEF IsShift
      <4>4. x - 1 \in u <=> (x - 1) - 16 \in a
        BY <3>1, <4>1 DEF IsShift
      <4>5. x - 16 \in part(k) <=> ((x - 16) - 1 \in a <=> x - 16 \notin low)
        BY <3>5, <4>1
      <4>6. x \in q <=> x - 16 \in low
        BY <2>4
      <4> QED BY <4>1, <4>2, <4>3, <4>4, <4>5, <4>6
    <3>7. Shift(part(k), 16) \in SUBSET Int /\ Shift(u, 1) \in SUBSET Int
      BY <3>3, <3>4 DEF IsShift
    <3>8. Shift(part(k), 16) = Xor(Shift(u, 1), q)
      BY <2>5, <3>6, <3>7 DEF Xor
    <3> QED BY <3>8 DEF u, a
  <2>10. r[k] = Fed(r[k - 1], q)
    BY <2>2, <2>6, <2>7, <2>8, <2>9, Horner DEF Fed
  <2> QED BY <2>1, <2>5, <2>10
<1>6. r \in [0 .. 8 -> SUBSET (0 .. 15)]
  BY <1>4
<1> HIDE DEF r, part
<1>7. IsFed(r, Meeting(byte), Residue(s), 8)
  BY <1>3, <1>5, <1>6 DEF IsFed, Residue, p, n
<1>8. r[8] = Residue(Append(s, byte))
  BY <1>3, PolynomialGrows DEF Residue, p, n, part
<1> QED BY <1>7, <1>8

(* Sixteen zeros behind a message shift it. *)
LEMMA DividendTakesZeros ==
  ASSUME NEW s, IsMessage(s)
  PROVE  \E r : IsFed(r, Zeros, Dividend(s), 16) /\ r[16] = Residue(s)
<1> DEFINE p == Polynomial(s)
           n == Degree(s)
           r == [i \in 0 .. 16 |-> Remainder(Shift(p, i), n + i)]
<1>1. n \in Int /\ n >= -1 /\ p \in SUBSET (0 .. n) /\ p \in SUBSET Int
  BY PolynomialType
<1> HIDE DEF p, n
<1>2. ASSUME NEW i \in 0 .. 16
      PROVE  Shift(p, i) \in SUBSET Int /\ Shift(p, i) \in SUBSET (0 .. n + i)
  <2>1. \A b \in p : b + i \in 0 .. n + i /\ b + i \in Int
    BY <1>1
  <2> QED BY <2>1 DEF Shift
<1>3. r[0] = Remainder(p, n) /\ r[16] = Remainder(Shift(p, 16), n + 16)
  <2>1. n + 0 = n /\ \A b \in p : b + 0 = b
    BY <1>1
  <2>2. Shift(p, 0) = p
    BY <2>1 DEF Shift
  <2> QED BY <2>1, <2>2
<1>4. ASSUME NEW i \in 0 .. 16 PROVE r[i] \in SUBSET (0 .. 15)
  <2>1. n + i \in Int
    BY <1>1
  <2> QED BY <1>2, <2>1, RemainderFits
<1>5. ASSUME NEW k \in 1 .. 16
      PROVE  Zeros[k] \in SUBSET (0 .. 16) /\ r[k] = Fed(r[k - 1], Zeros[k])
  <2>1. Zeros[k] = {}
    BY DEF Zeros
  <2> DEFINE m == n + (k - 1)
             u == Shift(p, k - 1)
  <2>2. k \in 0 .. 16 /\ k - 1 \in 0 .. 16 /\ n + k = m + 1 /\ m \in Int /\ m >= -1
    BY <1>1
  <2>3. TakesBit({}, m)
    BY DEF TakesBit
  <2>4. r[k] = Remainder(Shift(p, k), m + 1) /\ r[k - 1] = Remainder(u, m)
    BY <2>2
  <2>5. u \in SUBSET (0 .. m) /\ u \in SUBSET Int
    BY <1>2, <2>2
  <2>6. Shift(p, k) = Xor(Shift(u, 1), {})
    <3>1. IsShift(Shift(p, k), p, k) /\ IsShift(u, p, k - 1)
      BY <1>1, <2>2, ShiftIs
    <3>2. IsShift(Shift(u, 1), u, 1)
      BY <2>5, ShiftIs
    <3> HIDE DEF u
    <3>3. \A x \in Int : x \in Shift(p, k) <=> x \in Shift(u, 1)
      <4> SUFFICES ASSUME NEW x \in Int PROVE x \in Shift(p, k) <=> x \in Shift(u, 1)
        OBVIOUS
      <4>1. x - 1 \in Int /\ (x - 1) - (k - 1) = x - k
        OBVIOUS
      <4>2. (x \in Shift(p, k) <=> x - k \in p) /\ (x \in Shift(u, 1) <=> x - 1 \in u)
        BY <3>1, <3>2 DEF IsShift
      <4>3. x - 1 \in u <=> (x - 1) - (k - 1) \in p
        BY <3>1, <4>1 DEF IsShift
      <4> QED BY <4>1, <4>2, <4>3
    <3>4. Shift(p, k) = Shift(u, 1)
      BY <3>1, <3>2, <3>3 DEF IsShift
    <3> QED BY <3>4 DEF Xor
  <2> HIDE DEF m, u, r
  <2>7. r[k] = Fed(r[k - 1], {})
    BY <2>2, <2>3, <2>4, <2>5, <2>6, Horner DEF Fed
  <2> QED BY <2>1, <2>7
<1>6. r \in [0 .. 16 -> SUBSET (0 .. 15)]
  BY <1>4
<1> HIDE DEF r
<1>7. IsFed(r, Zeros, Dividend(s), 16)
  BY <1>3, <1>5, <1>6 DEF IsFed, Dividend, p, n
<1>8. r[16] = Residue(s)
  BY <1>3 DEF Residue, p, n
<1> QED BY <1>7, <1>8

(* The entries of the table of crc_16_dnp_tbl4bit, bit by bit. *)
LEMMA TableOf16 ==
  /\ crc_table[1] = {}
  /\ crc_table[2] = {0, 1, 3, 5, 6, 9, 12, 13, 15}
  /\ crc_table[3] = {0, 1, 2, 3, 5, 7, 8, 11, 13}
  /\ crc_table[4] = {2, 6, 7, 8, 9, 11, 12, 15}
  /\ crc_table[5] = {1, 2, 3, 4, 6, 8, 9, 12, 14}
  /\ crc_table[6] = {0, 2, 4, 5, 8, 13, 14, 15}
  /\ crc_table[7] = {0, 4, 5, 6, 7, 9, 11, 12, 13, 14}
  /\ crc_table[8] = {1, 3, 4, 7, 11, 14, 15}
  /\ crc_table[9] = {2, 3, 4, 5, 7, 9, 10, 13, 15}
  /\ crc_table[10] = {0, 1, 2, 4, 6, 7, 10, 12}
  /\ crc_table[11] = {0, 1, 4, 8, 9, 10, 11, 15}
  /\ crc_table[12] = {3, 4, 5, 6, 8, 10, 11, 12, 13}
  /\ crc_table[13] = {1, 5, 6, 7, 8, 10, 12, 13, 14, 15}
  /\ crc_table[14] = {0, 3, 7, 8, 9, 10, 14}
  /\ crc_table[15] = {0, 2, 3, 6, 10, 11, 12, 14, 15}
  /\ crc_table[16] = {1, 2, 5, 9, 10, 11, 13, 14}
  BY BitsAre DEF crc_table, Odd

(* The entry for four bits. *)
Entry(u) == crc_table[Number(u) + 1]

(* A term x, by the terms that are divided in the four steps. *)
Tapped(u, x) ==
  LET last == 3 \in u <=> 0 \notin u
  IN  ((last /\ x \in Poly) <=> ~(2 \in u /\ x - 1 \in Poly))
        <=> ((1 \in u /\ x - 2 \in Poly) <=> (0 \in u /\ x - 3 \in Poly))

(* The number of four bits. *)
LEMMA NumberOfFour ==
  ASSUME NEW u \in SUBSET (0 .. 3)
  PROVE  Number(u) = (IF 0 \in u THEN 1 ELSE 0) + (IF 1 \in u THEN 2 ELSE 0)
                       + (IF 2 \in u THEN 4 ELSE 0) + (IF 3 \in u THEN 8 ELSE 0)
<1>1. NibbleNumber(u) = (IF 0 \in u THEN 1 ELSE 0) + (IF 1 \in u THEN 2 ELSE 0)
                          + (IF 2 \in u THEN 4 ELSE 0) + (IF 3 \in u THEN 8 ELSE 0)
  BY Powers DEF NibbleNumber, Weight
<1>2. ASSUME NEW k \in {-4, -8, -12} PROVE NibbleNumber(Shift(u, k)) = 0
  <2>1. \A b \in u : b + k \notin {0, 1, 2, 3}
    OBVIOUS
  <2>2. 0 \notin Shift(u, k) /\ 1 \notin Shift(u, k) /\ 2 \notin Shift(u, k) /\ 3 \notin Shift(u, k)
    BY <2>1 DEF Shift
  <2> QED BY <2>2 DEF NibbleNumber, Weight
<1>3. NibbleNumber(u) \in Int
  BY <1>1
<1>4. Number(u) = NibbleNumber(u)
  BY <1>2, <1>3 DEF Number
<1> QED BY <1>1, <1>4

(* An entry, that is reflected, has the terms the four steps leave. *)
EntryIsTapped(u) == \A z \in 0 .. 15 : z \in Entry(u) <=> Tapped(u, 15 - z)

(* The table is what four steps make of four bits. *)
LEMMA EntryIs ==
  ASSUME NEW u \in SUBSET (0 .. 3)
  PROVE  Entry(u) \in SUBSET (0 .. 15) /\ EntryIsTapped(u)
<1> DEFINE n == Number(u)
<1>1. n = (IF 0 \in u THEN 1 ELSE 0) + (IF 1 \in u THEN 2 ELSE 0)
            + (IF 2 \in u THEN 4 ELSE 0) + (IF 3 \in u THEN 8 ELSE 0)
  BY NumberOfFour
<1> HIDE DEF n
<1>2. Poly = {0, 2, 5, 6, 8, 10, 11, 12, 13}
  BY PolyIs
<1>3. Entry(u) = crc_table[n + 1]
  BY DEF Entry, n
<1>4. Entry(u) \in SUBSET (0 .. 15)
  BY <1>1, <1>3, TableOf16
<1>5. ASSUME NEW z \in 0 .. 15
      PROVE  /\ 15 - z \in Poly <=> z \in {2, 3, 4, 5, 7, 9, 10, 13, 15}
             /\ 15 - z - 1 \in Poly <=> z \in {1, 2, 3, 4, 6, 8, 9, 12, 14}
             /\ 15 - z - 2 \in Poly <=> z \in {0, 1, 2, 3, 5, 7, 8, 11, 13}
             /\ 15 - z - 3 \in Poly <=> z \in {0, 1, 2, 4, 6, 7, 10, 12}
  BY <1>2
<1>6. ASSUME NEW z \in 0 .. 15 PROVE z \in Entry(u) <=> Tapped(u, 15 - z)
  <2>1. /\ 15 - z \in Poly <=> z \in {2, 3, 4, 5, 7, 9, 10, 13, 15}
        /\ 15 - z - 1 \in Poly <=> z \in {1, 2, 3, 4, 6, 8, 9, 12, 14}
        /\ 15 - z - 2 \in Poly <=> z \in {0, 1, 2, 3, 5, 7, 8, 11, 13}
        /\ 15 - z - 3 \in Poly <=> z \in {0, 1, 2, 4, 6, 7, 10, 12}
    BY <1>5
  <2> QED BY <1>1, <1>3, <2>1, TableOf16 DEF Tapped
<1> QED BY <1>4, <1>6 DEF EntryIsTapped

(* The register takes in one bit of a byte, or of half a byte n. *)
Clocks(b, a, i, n) ==
  /\ b \in SUBSET (0 .. 15)
  /\ \A x \in Int : x <= 15 =>
       (x \in b <=> (x - 1 \in a <=> ~((15 \in a <=> i \notin n) /\ x \in Poly)))

(* So does the register of the definition. *)
LEMMA FedClocks ==
  ASSUME NEW a \in SUBSET (0 .. 15), NEW b, NEW i, NEW n, b = Fed(a, AtTop(i \in n))
  PROVE  Clocks(b, a, i, n)
<1> DEFINE q == AtTop(i \in n)
<1>1. q \in SUBSET (0 .. 16) /\ (16 \notin q <=> i \notin n) /\ \A x \in 0 .. 15 : x \notin q
  BY DEF AtTop
<1> HIDE DEF q
<1>2. TakesIn(b, a, q)
  BY <1>1, FedIs DEF q
<1>3. Poly \in SUBSET (0 .. 15)
  BY PolyIs
<1>4. ASSUME NEW x \in Int, x <= 15
      PROVE  x \in b <=> (x - 1 \in a <=> ~((15 \in a <=> i \notin n) /\ x \in Poly))
  <2>1. CASE x < 0
    <3>1. x \notin 0 .. 15 /\ x - 1 \notin 0 .. 15
      BY <2>1
    <3>2. x \notin b /\ x - 1 \notin a /\ x \notin Poly
      BY <1>2, <1>3, <3>1 DEF TakesIn
    <3> QED BY <3>2
  <2>2. CASE x >= 0
    <3>1. x \in 0 .. 15
      BY <1>4, <2>2
    <3>2. x \in b <=> IF 15 \in a <=> 16 \notin q THEN (x - 1 \in a <=> x \notin q) <=> x \notin Poly
                                                  ELSE x - 1 \in a <=> x \notin q
      BY <1>2, <3>1 DEF TakesIn
    <3> QED BY <1>1, <3>1, <3>2
  <2> QED BY <2>1, <2>2
<1> QED BY <1>2, <1>4 DEF Clocks, TakesIn

(* Registers in reflection. *)
LEMMA ReflectIs ==
  ASSUME NEW c \in SUBSET (0 .. 15)
  PROVE  reflect(c, 16) \in SUBSET (0 .. 15) /\ \A z \in Int : z \in reflect(c, 16) <=> 15 - z \in c
<1>1. Low(c, 16) = c
  BY LowIsAll
<1>2. \A b \in c : b \in 0 .. 15 /\ 16 - 1 - b \in 0 .. 15
  OBVIOUS
<1>3. ASSUME NEW z \in Int PROVE z \in reflect(c, 16) <=> 15 - z \in c
  <2>1. z = 16 - 1 - (15 - z) /\ \A b \in c : z = 16 - 1 - b => b = 15 - z
    BY <1>2
  <2> QED BY <1>1, <2>1 DEF reflect
<1> QED BY <1>1, <1>2, <1>3 DEF reflect

(* What is left of a shift to the right. *)
LEMMA RightIs ==
  ASSUME NEW c \in SUBSET (0 .. 15), NEW n \in {4, 8}
  PROVE  Right(c, n) \in SUBSET (0 .. 15) /\ \A z \in Int : z \in Right(c, n) <=> z >= 0 /\ z + n \in c
<1> DEFINE high == {b \in c : b >= n}
<1>1. IsShift(Shift(high, -n), high, -n)
  BY ShiftIs
<1>2. Right(c, n) = Shift(high, -n)
  BY DEF Right
<1>3. ASSUME NEW z \in Int PROVE z \in Right(c, n) <=> z >= 0 /\ z + n \in c
  <2>1. z - (-n) = z + n /\ (z + n >= n <=> z >= 0)
    OBVIOUS
  <2> QED BY <1>1, <1>2, <2>1 DEF IsShift
<1>4. ASSUME NEW z \in Right(c, n) PROVE z \in 0 .. 15
  <2>1. z \in Int /\ z >= 0 /\ z + n \in 0 .. 15
    BY <1>1, <1>2, <1>3 DEF IsShift
  <2> QED BY <2>1
<1> QED BY <1>3, <1>4

(* The low bits of a sum. *)
LowSum(c, n) == Low(Xor(c, n), 4)

(* They are the bits in which the register and the message differ. *)
LEMMA LowSumIs ==
  ASSUME NEW c \in SUBSET (0 .. 15), NEW n \in SUBSET (0 .. 7)
  PROVE  LowSum(c, n) \in SUBSET (0 .. 3) /\ \A i \in 0 .. 3 : i \in LowSum(c, n) <=> (i \in c <=> i \notin n)
<1>1. \A x \in Xor(c, n) : x \in 0 .. 15
  BY DEF Xor
<1>2. ASSUME NEW x \in LowSum(c, n) PROVE x \in 0 .. 3
  <2>1. x \in 0 .. 15 /\ x < 4
    BY <1>1 DEF LowSum, Low
  <2> QED BY <2>1
<1>3. ASSUME NEW i \in 0 .. 3 PROVE i \in LowSum(c, n) <=> (i \in c <=> i \notin n)
  <2>1. i < 4
    OBVIOUS
  <2> QED BY <2>1 DEF LowSum, Low, Xor
<1> QED BY <1>2, <1>3

(* Half a byte by the table is four bits one by one. *)
LEMMA FourBits ==
  ASSUME NEW a \in SUBSET (0 .. 15), NEW b, NEW c, NEW d, NEW e, NEW n \in SUBSET (0 .. 7),
         Clocks(b, a, 0, n), Clocks(c, b, 1, n), Clocks(d, c, 2, n), Clocks(e, d, 3, n)
  PROVE  reflect(e, 16) = tbl4bit_nibble(reflect(a, 16), n)
<1> DEFINE m == reflect(a, 16)
           u == LowSum(m, n)
           f == tbl4bit_nibble(m, n)
<1>1. m \in SUBSET (0 .. 15) /\ \A z \in Int : z \in m <=> 15 - z \in a
  BY ReflectIs
<1>2. e \in SUBSET (0 .. 15) /\ reflect(e, 16) \in SUBSET (0 .. 15)
      /\ \A z \in Int : z \in reflect(e, 16) <=> 15 - z \in e
  BY ReflectIs DEF Clocks
<1> HIDE DEF m
<1>3. u \in SUBSET (0 .. 3) /\ \A i \in 0 .. 3 : i \in u <=> (i \in m <=> i \notin n)
  BY <1>1, LowSumIs
<1>4. f = Xor(Entry(u), Right(m, 4))
  BY DEF tbl4bit_nibble, Entry, LowSum
<1> HIDE DEF u, f
<1>5. Entry(u) \in SUBSET (0 .. 15) /\ \A z \in 0 .. 15 : z \in Entry(u) <=> Tapped(u, 15 - z)
  BY <1>3, EntryIs DEF EntryIsTapped
<1>6. Right(m, 4) \in SUBSET (0 .. 15) /\ \A z \in Int : z \in Right(m, 4) <=> z >= 0 /\ z + 4 \in m
  BY <1>1, RightIs
<1>7. /\ 0 \in u <=> (15 \in a <=> 0 \notin n)
      /\ 1 \in u <=> (14 \in a <=> 1 \notin n)
      /\ 2 \in u <=> (13 \in a <=> 2 \notin n)
      /\ 3 \in u <=> (12 \in a <=> 3 \notin n)
  <2>1. (0 \in m <=> 15 \in a) /\ (1 \in m <=> 14 \in a) /\ (2 \in m <=> 13 \in a) /\ (3 \in m <=> 12 \in a)
    BY <1>1
  <2> QED BY <1>3, <2>1
<1>8. 15 \notin Poly /\ 14 \notin Poly /\ 13 \in Poly
  BY PolyIs
<1>9. /\ 15 \in b <=> 14 \in a
      /\ 14 \in b <=> 13 \in a
      /\ 13 \in b <=> (12 \in a <=> 0 \notin u)
  BY <1>7, <1>8 DEF Clocks
<1>10. (15 \in c <=> 14 \in b) /\ (14 \in c <=> 13 \in b) /\ (15 \in d <=> 14 \in c)
  BY <1>8 DEF Clocks
<1>11. /\ (15 \in a <=> 0 \notin n) <=> 0 \in u
       /\ (15 \in b <=> 1 \notin n) <=> 1 \in u
       /\ (15 \in c <=> 2 \notin n) <=> 2 \in u
       /\ (15 \in d <=> 3 \notin n) <=> (3 \in u <=> 0 \notin u)
  BY <1>7, <1>9, <1>10
<1>12. ASSUME NEW z \in 0 .. 15 PROVE z \in reflect(e, 16) <=> z \in f
  <2> DEFINE x == 15 - z
  <2>1. /\ x \in Int /\ x <= 15 /\ x - 1 \in Int /\ x - 1 <= 15 /\ x - 2 \in Int /\ x - 2 <= 15
        /\ x - 3 \in Int /\ x - 3 <= 15 /\ (x - 1) - 1 = x - 2 /\ (x - 2) - 1 = x - 3
        /\ (x - 3) - 1 = x - 4
    OBVIOUS
  <2>2. z \in Right(m, 4) <=> x - 4 \in a
    <3>1. z + 4 \in Int /\ 15 - (z + 4) = x - 4 /\ z >= 0
      OBVIOUS
    <3> HIDE DEF x
    <3> QED BY <1>1, <1>6, <3>1
  <2>3. z \in reflect(e, 16) <=> x \in e
    BY <1>2
  <2>4. z \in Entry(u) <=> Tapped(u, x)
    BY <1>5
  <2> HIDE DEF x
  <2>5. x \in e <=> (x - 1 \in d <=> ~((3 \in u <=> 0 \notin u) /\ x \in Poly))
    BY <1>11, <2>1 DEF Clocks
  <2>6. x - 1 \in d <=> (x - 2 \in c <=> ~(2 \in u /\ x - 1 \in Poly))
    BY <1>11, <2>1 DEF Clocks
  <2>7. x - 2 \in c <=> (x - 3 \in b <=> ~(1 \in u /\ x - 2 \in Poly))
    BY <1>11, <2>1 DEF Clocks
  <2>8. x - 3 \in b <=> (x - 4 \in a <=> ~(0 \in u /\ x - 3 \in Poly))
    BY <1>11, <2>1 DEF Clocks
  <2>9. z \in f <=> (Tapped(u, x) <=> ~(x - 4 \in a))
    BY <1>4, <2>2, <2>4 DEF Xor
  <2> QED BY <2>3, <2>5, <2>6, <2>7, <2>8, <2>9 DEF Tapped
<1>13. f \in SUBSET (0 .. 15)
  BY <1>4, <1>5, <1>6 DEF Xor
<1> QED BY <1>2, <1>12, <1>13 DEF f, m

(* The half of a byte that goes first, and the other half. *)
LEMMA Halves ==
  ASSUME NEW byte
  PROVE  /\ Byte(byte) \in SUBSET (0 .. 7) /\ Right(Byte(byte), 4) \in SUBSET (0 .. 7)
         /\ \A i \in 0 .. 3 : i \in Right(Byte(byte), 4) <=> i + 4 \in Byte(byte)
<1>1. Byte(byte) \in SUBSET (0 .. 7) /\ Byte(byte) \in SUBSET (0 .. 15)
  BY ByteType
<1>2. \A z \in Int : z \in Right(Byte(byte), 4) <=> z >= 0 /\ z + 4 \in Byte(byte)
  BY <1>1, RightIs
<1>3. Right(Byte(byte), 4) \in SUBSET (0 .. 15)
  BY <1>1, RightIs
<1>4. ASSUME NEW z \in Right(Byte(byte), 4) PROVE z \in 0 .. 7
  <2>1. z \in Int /\ z >= 0 /\ z + 4 \in 0 .. 7
    BY <1>1, <1>2, <1>3
  <2> QED BY <2>1
<1> QED BY <1>1, <1>2, <1>4

(* crc_16_dnp_tbl4bit_update takes in a byte. *)
LEMMA Tbl4bitByteFeeds ==
  ASSUME NEW c, NEW byte, NEW r, IsFed(r, Meeting(byte), c, 8)
  PROVE  tbl4bit_byte(reflect(c, 16), byte) = reflect(r[8], 16)
<1>1. /\ r[0] = c /\ \A k \in 0 .. 8 : r[k] \in SUBSET (0 .. 15)
      /\ \A k \in 1 .. 8 : r[k] = Fed(r[k - 1], AtTop(k - 1 \in Byte(byte)))
  BY DEF IsFed, Meeting
<1> DEFINE low == Byte(byte)
           high == Right(Byte(byte), 4)
<1>2. low \in SUBSET (0 .. 7) /\ high \in SUBSET (0 .. 7) /\ \A i \in 0 .. 3 : i \in high <=> i + 4 \in low
  BY Halves
<1>3. ASSUME NEW k \in 1 .. 4 PROVE Clocks(r[k], r[k - 1], k - 1, low)
  <2>1. k \in 1 .. 8 /\ k - 1 \in 0 .. 8
    OBVIOUS
  <2> QED BY <1>1, <2>1, FedClocks
<1> HIDE DEF low, high
<1>4. ASSUME NEW k \in 1 .. 4 PROVE Clocks(r[k + 4], r[k + 3], k - 1, high)
  <2>1. k + 4 \in 1 .. 8 /\ (k + 4) - 1 = k + 3 /\ k + 3 \in 0 .. 8 /\ k - 1 \in 0 .. 3 /\ (k - 1) + 4 = k + 3
    OBVIOUS
  <2>2. (k + 3 \in Byte(byte)) = (k - 1 \in high)
    BY <1>2, <2>1 DEF low
  <2>3. r[k + 4] = Fed(r[k + 3], AtTop(k - 1 \in high)) /\ r[k + 3] \in SUBSET (0 .. 15)
    BY <1>1, <2>1, <2>2
  <2> QED BY <2>3, FedClocks
<1>5. reflect(r[4], 16) = tbl4bit_nibble(reflect(r[0], 16), low)
  <2>1. Clocks(r[1], r[0], 0, low) /\ Clocks(r[2], r[1], 1, low)
        /\ Clocks(r[3], r[2], 2, low) /\ Clocks(r[4], r[3], 3, low)
    BY <1>3
  <2>2. r[0] \in SUBSET (0 .. 15)
    BY <1>1
  <2> QED BY <1>2, <2>1, <2>2, FourBits
<1>6. reflect(r[8], 16) = tbl4bit_nibble(reflect(r[4], 16), high)
  <2>1. Clocks(r[5], r[4], 0, high) /\ Clocks(r[6], r[5], 1, high)
        /\ Clocks(r[7], r[6], 2, high) /\ Clocks(r[8], r[7], 3, high)
    BY <1>4
  <2>2. r[4] \in SUBSET (0 .. 15)
    BY <1>1
  <2> QED BY <1>2, <2>1, <2>2, FourBits
<1> QED BY <1>1, <1>5, <1>6 DEF tbl4bit_byte, low, high

(* The first sixteen entries of the table of computeCRC_16_DNP, bit by bit. *)
LEMMA TableOf256 ==
  /\ table[1] = {}
  /\ table[2] = {1, 2, 3, 4, 6, 9, 10, 12, 13}
  /\ table[3] = {2, 3, 4, 5, 7, 10, 11, 13, 14}
  /\ table[4] = {1, 5, 6, 7, 9, 11, 12, 14}
  /\ table[5] = {3, 4, 5, 6, 8, 11, 12, 14, 15}
  /\ table[6] = {1, 2, 5, 8, 9, 10, 11, 13, 14, 15}
  /\ table[7] = {2, 6, 7, 8, 10, 12, 13, 15}
  /\ table[8] = {1, 3, 4, 7, 8, 9, 15}
  /\ table[9] = {0, 3, 7, 8, 9, 10, 11, 12, 13, 14, 15}
  /\ table[10] = {0, 1, 2, 4, 6, 7, 8, 11, 14, 15}
  /\ table[11] = {0, 2, 4, 5, 8, 9, 12, 15}
  /\ table[12] = {0, 1, 3, 5, 6, 8, 10, 13, 15}
  /\ table[13] = {0, 4, 5, 6, 7, 9, 10, 13}
  /\ table[14] = {0, 1, 2, 3, 5, 7, 12}
  /\ table[15] = {0, 2, 3, 6, 9, 11, 14}
  /\ table[16] = {0, 1, 4, 10, 11, 12, 13, 14}
  BY BitsAre DEF table, Odd

(* A row of that table: the terms that four bits leave are added to those of *)
(* the four bits before them.                                                *)
RowIs(h) == \A l \in 0 .. 15 : table[16 * h + l + 1] = Xor(crc_table[h + 1], table[l + 1])

(* The table of 256 is made of the table of 16 and its own first row. *)
LEMMA Rows == \A h \in 0 .. 15 : RowIs(h)
<1>0. RowIs(0)
  BY TableOf16, TableOf256 DEF RowIs, Xor
<1>1. RowIs(1)
  <2>1. /\ table[17] = Bits16(\hB26B) /\ table[18] = Bits16(\h8435) /\ table[19] = Bits16(\hDED7)
        /\ table[20] = Bits16(\hE889) /\ table[21] = Bits16(\h6B13) /\ table[22] = Bits16(\h5D4D)
        /\ table[23] = Bits16(\h07AF) /\ table[24] = Bits16(\h31F1) /\ table[25] = Bits16(\h4DE2)
        /\ table[26] = Bits16(\h7BBC) /\ table[27] = Bits16(\h215E) /\ table[28] = Bits16(\h1700)
        /\ table[29] = Bits16(\h949A) /\ table[30] = Bits16(\hA2C4) /\ table[31] = Bits16(\hF826)
        /\ table[32] = Bits16(\hCE78)
    BY DEF table
  <2> QED BY <2>1, BitsAre, TableOf16, TableOf256 DEF RowIs, Xor, Odd
<1>2. RowIs(2)
  <2>1. /\ table[33] = Bits16(\h29AF) /\ table[34] = Bits16(\h1FF1) /\ table[35] = Bits16(\h4513)
        /\ table[36] = Bits16(\h734D) /\ table[37] = Bits16(\hF0D7) /\ table[38] = Bits16(\hC689)
        /\ table[39] = Bits16(\h9C6B) /\ table[40] = Bits16(\hAA35) /\ table[41] = Bits16(\hD626)
        /\ table[42] = Bits16(\hE078) /\ table[43] = Bits16(\hBA9A) /\ table[44] = Bits16(\h8CC4)
        /\ table[45] = Bits16(\h0F5E) /\ table[46] = Bits16(\h3900) /\ table[47] = Bits16(\h63E2)
        /\ table[48] = Bits16(\h55BC)
    BY DEF table
  <2> QED BY <2>1, BitsAre, TableOf16, TableOf256 DEF RowIs, Xor, Odd
<1>3. RowIs(3)
  <2>1. /\ table[49] = Bits16(\h9BC4) /\ table[50] = Bits16(\hAD9A) /\ table[51] = Bits16(\hF778)
        /\ table[52] = Bits16(\hC126) /\ table[53] = Bits16(\h42BC) /\ table[54] = Bits16(\h74E2)
        /\ table[55] = Bits16(\h2E00) /\ table[56] = Bits16(\h185E) /\ table[57] = Bits16(\h644D)
        /\ table[58] = Bits16(\h5213) /\ table[59] = Bits16(\h08F1) /\ table[60] = Bits16(\h3EAF)
        /\ table[61] = Bits16(\hBD35) /\ table[62] = Bits16(\h8B6B) /\ table[63] = Bits16(\hD189)
        /\ table[64] = Bits16(\hE7D7)
    BY DEF table
  <2> QED BY <2>1, BitsAre, TableOf16, TableOf256 DEF RowIs, Xor, Odd
<1>4. RowIs(4)
  <2>1. /\ table[65] = Bits16(\h535E) /\ table[66] = Bits16(\h6500) /\ table[67] = Bits16(\h3FE2)
        /\ table[68] = Bits16(\h09BC) /\ table[69] = Bits16(\h8A26) /\ table[70] = Bits16(\hBC78)
        /\ table[71] = Bits16(\hE69A) /\ table[72] = Bits16(\hD0C4) /\ table[73] = Bits16(\hACD7)
        /\ table[74] = Bits16(\h9A89) /\ table[75] = Bits16(\hC06B) /\ table[76] = Bits16(\hF635)
        /\ table[77] = Bits16(\h75AF) /\ table[78] = Bits16(\h43F1) /\ table[79] = Bits16(\h1913)
        /\ table[80] = Bits16(\h2F4D)
    BY DEF table
  <2> QED BY <2>1, BitsAre, TableOf16, TableOf256 DEF RowIs, Xor, Odd
<1>5. RowIs(5)
  <2>1. /\ table[81] = Bits16(\hE135) /\ table[82] = Bits16(\hD76B) /\ table[83] = Bits16(\h8D89)
        /\ table[84] = Bits16(\hBBD7) /\ table[85] = Bits16(\h384D) /\ table[86] = Bits16(\h0E13)
        /\ table[87] = Bits16(\h54F1) /\ table[88] = Bits16(\h62AF) /\ table[89] = Bits16(\h1EBC)
        /\ table[90] = Bits16(\h28E2) /\ table[91] = Bits16(\h7200) /\ table[92] = Bits16(\h445E)
        /\ table[93] = Bits16(\hC7C4) /\ table[94] = Bits16(\hF19A) /\ table[95] = Bits16(\hAB78)
        /\ table[96] = Bits16(\h9D26)
    BY DEF table
  <2> QED BY <2>1, BitsAre, TableOf16, TableOf256 DEF RowIs, Xor, Odd
<1>6. RowIs(6)
  <2>1. /\ table[97] = Bits16(\h7AF1) /\ table[98] = Bits16(\h4CAF) /\ table[99] = Bits16(\h164D)
        /\ table[100] = Bits16(\h2013) /\ table[101] = Bits16(\hA389) /\ table[102] = Bits16(\h95D7)
        /\ table[103] = Bits16(\hCF35) /\ table[104] = Bits16(\hF96B) /\ table[105] = Bits16(\h8578)
        /\ table[106] = Bits16(\hB326) /\ table[107] = Bits16(\hE9C4) /\ table[108] = Bits16(\hDF9A)
        /\ table[109] = Bits16(\h5C00) /\ table[110] = Bits16(\h6A5E) /\ table[111] = Bits16(\h30BC)
        /\ table[112] = Bits16(\h06E2)
    BY DEF table
  <2> QED BY <2>1, BitsAre, TableOf16, TableOf256 DEF RowIs, Xor, Odd
<1>7. RowIs(7)
  <2>1. /\ table[113] = Bits16(\hC89A) /\ table[114] = Bits16(\hFEC4) /\ table[115] = Bits16(\hA426)
        /\ table[116] = Bits16(\h9278) /\ table[117] = Bits16(\h11E2) /\ table[118] = Bits16(\h27BC)
        /\ table[119] = Bits16(\h7D5E) /\ table[120] = Bits16(\h4B00) /\ table[121] = Bits16(\h3713)
        /\ table[122] = Bits16(\h014D) /\ table[123] = Bits16(\h5BAF) /\ table[124] = Bits16(\h6DF1)
        /\ table[125] = Bits16(\hEE6B) /\ table[126] = Bits16(\hD835) /\ table[127] = Bits16(\h82D7)
        /\ table[128] = Bits16(\hB489)
    BY DEF table
  <2> QED BY <2>1, BitsAre, TableOf16, TableOf256 DEF RowIs, Xor, Odd
<1>8. RowIs(8)
  <2>1. /\ table[129] = Bits16(\hA6BC) /\ table[130] = Bits16(\h90E2) /\ table[131] = Bits16(\hCA00)
        /\ table[132] = Bits16(\hFC5E) /\ table[133] = Bits16(\h7FC4) /\ table[134] = Bits16(\h499A)
        /\ table[135] = Bits16(\h1378) /\ table[136] = Bits16(\h2526) /\ table[137] = Bits16(\h5935)
        /\ table[138] = Bits16(\h6F6B) /\ table[139] = Bits16(\h3589) /\ table[140] = Bits16(\h03D7)
        /\ table[141] = Bits16(\h804D) /\ table[142] = Bits16(\hB613) /\ table[143] = Bits16(\hECF1)
        /\ table[144] = Bits16(\hDAAF)
    BY DEF table
  <2> QED BY <2>1, BitsAre, TableOf16, TableOf256 DEF RowIs, Xor, Odd
<1>9. RowIs(9)
  <2>1. /\ table[145] = Bits16(\h14D7) /\ table[146] = Bits16(\h2289) /\ table[147] = Bits16(\h786B)
        /\ table[148] = Bits16(\h4E35) /\ table[149] = Bits16(\hCDAF) /\ table[150] = Bits16(\hFBF1)
        /\ table[151] = Bits16(\hA113) /\ table[152] = Bits16(\h974D) /\ table[153] = Bits16(\hEB5E)
        /\ table[154] = Bits16(\hDD00) /\ table[155] = Bits16(\h87E2) /\ table[156] = Bits16(\hB1BC)
        /\ table[157] = Bits16(\h3226) /\ table[158] = Bits16(\h0478) /\ table[159] = Bits16(\h5E9A)
        /\ table[160] = Bits16(\h68C4)
    BY DEF table
  <2> QED BY <2>1, BitsAre, TableOf16, TableOf256 DEF RowIs, Xor, Odd
<1>10. RowIs(10)
  <2>1. /\ table[161] = Bits16(\h8F13) /\ table[162] = Bits16(\hB94D) /\ table[163] = Bits16(\hE3AF)
        /\ table[164] = Bits16(\hD5F1) /\ table[165] = Bits16(\h566B) /\ table[166] = Bits16(\h6035)
        /\ table[167] = Bits16(\h3AD7) /\ table[168] = Bits16(\h0C89) /\ table[169] = Bits16(\h709A)
        /\ table[170] = Bits16(\h46C4) /\ table[171] = Bits16(\h1C26) /\ table[172] = Bits16(\h2A78)
        /\ table[173] = Bits16(\hA9E2) /\ table[174] = Bits16(\h9FBC) /\ table[175] = Bits16(\hC55E)
        /\ table[176] = Bits16(\hF300)
    BY DEF table
  <2> QED BY <2>1, BitsAre, TableOf16, TableOf256 DEF RowIs, Xor, Odd
<1>11. RowIs(11)
  <2>1. /\ table[177] = Bits16(\h3D78) /\ table[178] = Bits16(\h0B26) /\ table[179] = Bits16(\h51C4)
        /\ table[180] = Bits16(\h679A) /\ table[181] = Bits16(\hE400) /\ table[182] = Bits16(\hD25E)
        /\ table[183] = Bits16(\h88BC) /\ table[184] = Bits16(\hBEE2) /\ table[185] = Bits16(\hC2F1)
        /\ table[186] = Bits16(\hF4AF) /\ table[187] = Bits16(\hAE4D) /\ table[188] = Bits16(\h9813)
        /\ table[189] = Bits16(\h1B89) /\ table[190] = Bits16(\h2DD7) /\ table[191] = Bits16(\h7735)
        /\ table[192] = Bits16(\h416B)
    BY DEF table
  <2> QED BY <2>1, BitsAre, TableOf16, TableOf256 DEF RowIs, Xor, Odd
<1>12. RowIs(12)
  <2>1. /\ table[193] = Bits16(\hF5E2) /\ table[194] = Bits16(\hC3BC) /\ table[195] = Bits16(\h995E)
        /\ table[196] = Bits16(\hAF00) /\ table[197] = Bits16(\h2C9A) /\ table[198] = Bits16(\h1AC4)
        /\ table[199] = Bits16(\h4026) /\ table[200] = Bits16(\h7678) /\ table[201] = Bits16(\h0A6B)
        /\ table[202] = Bits16(\h3C35) /\ table[203] = Bits16(\h66D7) /\ table[204] = Bits16(\h5089)
        /\ table[205] = Bits16(\hD313) /\ table[206] = Bits16(\hE54D) /\ table[207] = Bits16(\hBFAF)
        /\ table[208] = Bits16(\h89F1)
    BY DEF table
  <2> QED BY <2>1, BitsAre, TableOf16, TableOf256 DEF RowIs, Xor, Odd
<1>13. RowIs(13)
  <2>1. /\ table[209] = Bits16(\h4789) /\ table[210] = Bits16(\h71D7) /\ table[211] = Bits16(\h2B35)
        /\ table[212] = Bits16(\h1D6B) /\ table[213] = Bits16(\h9EF1) /\ table[214] = Bits16(\hA8AF)
        /\ table[215] = Bits16(\hF24D) /\ table[216] = Bits16(\hC413) /\ table[217] = Bits16(\hB800)
        /\ table[218] = Bits16(\h8E5E) /\ table[219] = Bits16(\hD4BC) /\ table[220] = Bits16(\hE2E2)
        /\ table[221] = Bits16(\h6178) /\ table[222] = Bits16(\h5726) /\ table[223] = Bits16(\h0DC4)
        /\ table[224] = Bits16(\h3B9A)
    BY DEF table
  <2> QED BY <2>1, BitsAre, TableOf16, TableOf256 DEF RowIs, Xor, Odd
<1>14. RowIs(14)
  <2>1. /\ table[225] = Bits16(\hDC4D) /\ table[226] = Bits16(\hEA13) /\ table[227] = Bits16(\hB0F1)
        /\ table[228] = Bits16(\h86AF) /\ table[229] = Bits16(\h0535) /\ table[230] = Bits16(\h336B)
        /\ table[231] = Bits16(\h6989) /\ table[232] = Bits16(\h5FD7) /\ table[233] = Bits16(\h23C4)
        /\ table[234] = Bits16(\h159A) /\ table[235] = Bits16(\h4F78) /\ table[236] = Bits16(\h7926)
        /\ table[237] = Bits16(\hFABC) /\ table[238] = Bits16(\hCCE2) /\ table[239] = Bits16(\h9600)
        /\ table[240] = Bits16(\hA05E)
    BY DEF table
  <2> QED BY <2>1, BitsAre, TableOf16, TableOf256 DEF RowIs, Xor, Odd
<1>15. RowIs(15)
  <2>1. /\ table[241] = Bits16(\h6E26) /\ table[242] = Bits16(\h5878) /\ table[243] = Bits16(\h029A)
        /\ table[244] = Bits16(\h34C4) /\ table[245] = Bits16(\hB75E) /\ table[246] = Bits16(\h8100)
        /\ table[247] = Bits16(\hDBE2) /\ table[248] = Bits16(\hEDBC) /\ table[249] = Bits16(\h91AF)
        /\ table[250] = Bits16(\hA7F1) /\ table[251] = Bits16(\hFD13) /\ table[252] = Bits16(\hCB4D)
        /\ table[253] = Bits16(\h48D7) /\ table[254] = Bits16(\h7E89) /\ table[255] = Bits16(\h246B)
        /\ table[256] = Bits16(\h1235)
    BY DEF table
  <2> QED BY <2>1, BitsAre, TableOf16, TableOf256 DEF RowIs, Xor, Odd
<1>16. ASSUME NEW h \in 0 .. 15 PROVE RowIs(h)
  <2>1. h = 0 \/ h = 1 \/ h = 2 \/ h = 3 \/ h = 4 \/ h = 5 \/ h = 6 \/ h = 7 \/ h = 8
          \/ h = 9 \/ h = 10 \/ h = 11 \/ h = 12 \/ h = 13 \/ h = 14 \/ h = 15
    OBVIOUS
  <2> QED BY <2>1, <1>0, <1>1, <1>2, <1>3, <1>4, <1>5, <1>6, <1>7, <1>8, <1>9, <1>10, <1>11, <1>12, <1>13, <1>14, <1>15
<1> QED BY <1>16

(* Entries of sums are sums of entries. *)
LEMMA EntryOfSum ==
  ASSUME NEW u \in SUBSET (0 .. 3), NEW v \in SUBSET (0 .. 3), NEW w \in SUBSET (0 .. 3),
         \A i \in 0 .. 3 : i \in w <=> (i \in u <=> i \notin v)
  PROVE  \A z \in 0 .. 15 : z \in Entry(w) <=> (z \in Entry(u) <=> z \notin Entry(v))
<1> SUFFICES ASSUME NEW z \in 0 .. 15
             PROVE  z \in Entry(w) <=> (z \in Entry(u) <=> z \notin Entry(v))
  OBVIOUS
<1>1. /\ z \in Entry(u) <=> Tapped(u, 15 - z)
      /\ z \in Entry(v) <=> Tapped(v, 15 - z)
      /\ z \in Entry(w) <=> Tapped(w, 15 - z)
  BY EntryIs DEF EntryIsTapped
<1>2. /\ 0 \in w <=> (0 \in u <=> 0 \notin v)
      /\ 1 \in w <=> (1 \in u <=> 1 \notin v)
      /\ 2 \in w <=> (2 \in u <=> 2 \notin v)
      /\ 3 \in w <=> (3 \in u <=> 3 \notin v)
  OBVIOUS
<1>3. Tapped(w, 15 - z) <=> (Tapped(u, 15 - z) <=> ~Tapped(v, 15 - z))
  BY <1>2 DEF Tapped
<1> QED BY <1>1, <1>3

(* The number of eight bits. *)
LEMMA NumberOfEight ==
  ASSUME NEW w \in SUBSET (0 .. 7)
  PROVE  /\ Low(w, 4) \in SUBSET (0 .. 3) /\ \A i \in 0 .. 3 : i \in Low(w, 4) <=> i \in w
         /\ Right(w, 4) \in SUBSET (0 .. 3) /\ \A i \in 0 .. 3 : i \in Right(w, 4) <=> i + 4 \in w
         /\ Number(w) = 16 * Number(Right(w, 4)) + Number(Low(w, 4))
<1> DEFINE u == Low(w, 4)
           v == Right(w, 4)
<1>1. u \in SUBSET (0 .. 3) /\ \A i \in 0 .. 3 : i \in u <=> i \in w
  <2>1. \A b \in w : b < 4 => b \in 0 .. 3
    OBVIOUS
  <2>2. \A i \in 0 .. 3 : i < 4
    OBVIOUS
  <2> QED BY <2>1, <2>2 DEF Low
<1>2. v \in SUBSET (0 .. 3) /\ \A i \in 0 .. 3 : i \in v <=> i + 4 \in w
  <2>1. w \in SUBSET (0 .. 15)
    OBVIOUS
  <2>2. v \in SUBSET (0 .. 15) /\ \A z \in Int : z \in v <=> z >= 0 /\ z + 4 \in w
    BY <2>1, RightIs
  <2>3. ASSUME NEW z \in v PROVE z \in 0 .. 3
    <3>1. z \in Int /\ z >= 0 /\ z + 4 \in 0 .. 7
      BY <2>2
    <3> QED BY <3>1
  <2> QED BY <2>2, <2>3
<1> HIDE DEF u, v
<1>3. /\ Number(u) = (IF 0 \in u THEN 1 ELSE 0) + (IF 1 \in u THEN 2 ELSE 0)
                       + (IF 2 \in u THEN 4 ELSE 0) + (IF 3 \in u THEN 8 ELSE 0)
      /\ Number(v) = (IF 0 \in v THEN 1 ELSE 0) + (IF 1 \in v THEN 2 ELSE 0)
                       + (IF 2 \in v THEN 4 ELSE 0) + (IF 3 \in v THEN 8 ELSE 0)
  BY <1>1, <1>2, NumberOfFour
<1>4. NibbleNumber(w) = Number(u)
  <2>1. (0 \in w <=> 0 \in u) /\ (1 \in w <=> 1 \in u) /\ (2 \in w <=> 2 \in u) /\ (3 \in w <=> 3 \in u)
    BY <1>1
  <2> QED BY <1>3, <2>1, Powers DEF NibbleNumber, Weight
<1>5. NibbleNumber(Shift(w, -4)) = Number(v)
  <2>1. IsShift(Shift(w, -4), w, -4)
    BY ShiftIs
  <2>2. ASSUME NEW i \in 0 .. 3 PROVE i \in Shift(w, -4) <=> i \in v
    <3>1. i \in Int /\ i - (-4) = i + 4
      OBVIOUS
    <3> QED BY <1>2, <2>1, <3>1 DEF IsShift
  <2>3. /\ 0 \in Shift(w, -4) <=> 0 \in v
        /\ 1 \in Shift(w, -4) <=> 1 \in v
        /\ 2 \in Shift(w, -4) <=> 2 \in v
        /\ 3 \in Shift(w, -4) <=> 3 \in v
    BY <2>2
  <2> QED BY <1>3, <2>3, Powers DEF NibbleNumber, Weight
<1>6. ASSUME NEW k \in {-8, -12} PROVE NibbleNumber(Shift(w, k)) = 0
  <2>1. \A b \in w : b + k \notin {0, 1, 2, 3}
    OBVIOUS
  <2>2. 0 \notin Shift(w, k) /\ 1 \notin Shift(w, k) /\ 2 \notin Shift(w, k) /\ 3 \notin Shift(w, k)
    BY <2>1 DEF Shift
  <2> QED BY <2>2 DEF NibbleNumber, Weight
<1>7. Number(u) \in Int /\ Number(v) \in Int
  BY <1>3
<1>8. Number(w) = 16 * Number(v) + Number(u)
  BY <1>4, <1>5, <1>6, <1>7 DEF Number
<1> QED BY <1>1, <1>2, <1>8 DEF u, v

(* What the table of 256 has for the first four bits alone: the second step *)
(* of the table of 16.                                                      *)
LEMMA FirstRow ==
  ASSUME NEW u \in SUBSET (0 .. 3)
  PROVE  table[Number(u) + 1] = Xor(Entry(Low(Entry(u), 4)), Right(Entry(u), 4))
<1> DEFINE e == Entry(u)
           l == Low(e, 4)
           f == Xor(Entry(l), Right(e, 4))
           t == table[Number(u) + 1]
<1>1. e \in SUBSET (0 .. 15) /\ \A z \in 0 .. 15 : z \in e <=> Tapped(u, 15 - z)
  BY EntryIs DEF EntryIsTapped
<1> HIDE DEF e
<1>2. l \in SUBSET (0 .. 3) /\ \A i \in 0 .. 3 : i \in l <=> i \in e
  <2>1. \A b \in e : b < 4 => b \in 0 .. 3
    BY <1>1
  <2>2. \A i \in 0 .. 3 : i < 4
    OBVIOUS
  <2> QED BY <2>1, <2>2 DEF Low
<1> HIDE DEF l
<1>3. Right(e, 4) \in SUBSET (0 .. 15) /\ \A z \in Int : z \in Right(e, 4) <=> z >= 0 /\ z + 4 \in e
  BY <1>1, RightIs
<1>4. Entry(l) \in SUBSET (0 .. 15) /\ \A z \in 0 .. 15 : z \in Entry(l) <=> Tapped(l, 15 - z)
  BY <1>2, EntryIs DEF EntryIsTapped
<1>5. t \in SUBSET (0 .. 15)
  BY NumberOfFour, TableOf256
<1>6. Poly = {0, 2, 5, 6, 8, 10, 11, 12, 13}
  BY PolyIs
<1>7. /\ 0 \in l <=> Tapped(u, 15)
      /\ 1 \in l <=> Tapped(u, 14)
      /\ 2 \in l <=> Tapped(u, 13)
      /\ 3 \in l <=> Tapped(u, 12)
  BY <1>1, <1>2
<1>8. ASSUME NEW z \in 0 .. 15 PROVE z \in t <=> z \in f
  <2>1. z \in Right(e, 4) <=> z <= 11 /\ Tapped(u, 15 - (z + 4))
    <3>1. z + 4 \in Int /\ z >= 0 /\ (z + 4 \in 0 .. 15 <=> z <= 11)
      OBVIOUS
    <3> QED BY <1>1, <1>3, <3>1
  <2>2. z \in f <=> (Tapped(l, 15 - z) <=> ~(z <= 11 /\ Tapped(u, 15 - (z + 4))))
    BY <1>4, <2>1 DEF Xor
  <2>3. z \in t <=> (Tapped(l, 15 - z) <=> ~(z <= 11 /\ Tapped(u, 15 - (z + 4))))
    BY <1>6, <1>7, NumberOfFour, TableOf256 DEF Tapped
  <2> QED BY <2>2, <2>3
<1>9. f \in SUBSET (0 .. 15)
  BY <1>3, <1>4 DEF Xor
<1>10. t = f
  BY <1>5, <1>8, <1>9
<1> QED BY <1>10 DEF t, f, l, e

(* A step of the table of 256 is two of the table of 16. *)
LEMMA CrcmodByteIs ==
  ASSUME NEW c \in SUBSET (0 .. 15), NEW byte
  PROVE  crcmod_byte(c, byte) = tbl4bit_byte(c, byte)
<1> DEFINE low == Byte(byte)
           high == Right(low, 4)
           w == Xor(low, Low(c, 8))
           u == Low(w, 4)
           v == Right(w, 4)
           e == Entry(u)
           l == Low(e, 4)
           t == tbl4bit_nibble(c, low)
           f == crcmod_byte(c, byte)
           g == tbl4bit_byte(c, byte)
<1>1. /\ low \in SUBSET (0 .. 7) /\ high \in SUBSET (0 .. 7)
      /\ \A i \in 0 .. 3 : i \in high <=> i + 4 \in low
  BY Halves
<1>2. f = Xor(table[Number(w) + 1], Right(c, 8)) /\ g = tbl4bit_nibble(t, high)
  BY DEF crcmod_byte, tbl4bit_byte
<1> HIDE DEF low, high, f, g
<1>3. w \in SUBSET (0 .. 7) /\ \A i \in 0 .. 7 : i \in w <=> (i \in low <=> i \notin c)
  <2>1. \A b \in c : b < 8 => b \in 0 .. 7
    OBVIOUS
  <2>2. \A i \in 0 .. 7 : i < 8
    OBVIOUS
  <2>3. Low(c, 8) \in SUBSET (0 .. 7) /\ \A i \in 0 .. 7 : i \in Low(c, 8) <=> i \in c
    BY <2>1, <2>2 DEF Low
  <2> QED BY <1>1, <2>3 DEF Xor
<1> HIDE DEF w
<1>4. /\ u \in SUBSET (0 .. 3) /\ \A i \in 0 .. 3 : i \in u <=> i \in w
      /\ v \in SUBSET (0 .. 3) /\ \A i \in 0 .. 3 : i \in v <=> i + 4 \in w
      /\ Number(w) = 16 * Number(v) + Number(u)
  BY <1>3, NumberOfEight
<1>5. t = Xor(Entry(LowSum(c, low)), Right(c, 4)) /\ g = Xor(Entry(LowSum(t, high)), Right(t, 4))
  BY <1>2 DEF tbl4bit_nibble, Entry, LowSum
<1> HIDE DEF u, v, t
<1>6. LowSum(c, low) = u
  <2>1. LowSum(c, low) \in SUBSET (0 .. 3) /\ \A i \in 0 .. 3 : i \in LowSum(c, low) <=> (i \in c <=> i \notin low)
    BY <1>1, LowSumIs
  <2>2. \A i \in 0 .. 3 : i \in u <=> (i \in low <=> i \notin c)
    BY <1>3, <1>4
  <2> QED BY <1>4, <2>1, <2>2
<1>7. e \in SUBSET (0 .. 15)
  BY <1>4, EntryIs
<1> HIDE DEF e
<1>8. l \in SUBSET (0 .. 3) /\ \A i \in 0 .. 3 : i \in l <=> i \in e
  <2>1. \A b \in e : b < 4 => b \in 0 .. 3
    BY <1>7
  <2>2. \A i \in 0 .. 3 : i < 4
    OBVIOUS
  <2> QED BY <2>1, <2>2 DEF Low
<1> HIDE DEF l
<1>9. /\ Right(c, 4) \in SUBSET (0 .. 15) /\ \A z \in Int : z \in Right(c, 4) <=> z >= 0 /\ z + 4 \in c
      /\ Right(c, 8) \in SUBSET (0 .. 15) /\ \A z \in Int : z \in Right(c, 8) <=> z >= 0 /\ z + 8 \in c
      /\ Right(e, 4) \in SUBSET (0 .. 15) /\ \A z \in Int : z \in Right(e, 4) <=> z >= 0 /\ z + 4 \in e
  BY <1>7, RightIs
<1>10. t = Xor(e, Right(c, 4)) /\ t \in SUBSET (0 .. 15)
  BY <1>5, <1>6, <1>7, <1>9 DEF Xor, e
<1>11. \A z \in Int : z \in t <=> (z \in e <=> ~(z >= 0 /\ z + 4 \in c))
  BY <1>9, <1>10 DEF Xor
<1> DEFINE k == LowSum(t, high)
<1>12. k \in SUBSET (0 .. 3) /\ \A i \in 0 .. 3 : i \in k <=> (i \in l <=> i \notin v)
  <2>1. k \in SUBSET (0 .. 3) /\ \A i \in 0 .. 3 : i \in k <=> (i \in t <=> i \notin high)
    BY <1>1, <1>10, LowSumIs
  <2>2. ASSUME NEW i \in 0 .. 3 PROVE i \in k <=> (i \in l <=> i \notin v)
    <3>1. i \in Int /\ i >= 0 /\ i + 4 \in 0 .. 7
      OBVIOUS
    <3>2. i \in t <=> (i \in l <=> i + 4 \notin c)
      BY <1>8, <1>11, <3>1
    <3>3. i \in v <=> (i + 4 \in low <=> i + 4 \notin c)
      BY <1>3, <1>4, <3>1
    <3>4. i \in high <=> i + 4 \in low
      BY <1>1
    <3> QED BY <2>1, <3>2, <3>3, <3>4
  <2> QED BY <2>1, <2>2
<1> HIDE DEF k
<1>13. /\ Entry(k) \in SUBSET (0 .. 15) /\ Entry(l) \in SUBSET (0 .. 15) /\ Entry(v) \in SUBSET (0 .. 15)
       /\ \A z \in 0 .. 15 : z \in Entry(k) <=> (z \in Entry(l) <=> z \notin Entry(v))
  BY <1>4, <1>8, <1>12, EntryIs, EntryOfSum
<1>14. table[Number(w) + 1] = Xor(Entry(v), Xor(Entry(l), Right(e, 4)))
  <2>1. Number(u) \in 0 .. 15 /\ Number(v) \in 0 .. 15
    BY <1>4, NumberOfFour
  <2>2. table[16 * Number(v) + Number(u) + 1] = Xor(crc_table[Number(v) + 1], table[Number(u) + 1])
    BY <2>1, Rows DEF RowIs
  <2>3. table[Number(u) + 1] = Xor(Entry(l), Right(e, 4))
    BY <1>4, FirstRow DEF l, e
  <2> QED BY <1>4, <2>2, <2>3 DEF Entry
<1>15. Right(t, 4) \in SUBSET (0 .. 15) /\ \A z \in Int : z \in Right(t, 4) <=> z >= 0 /\ z + 4 \in t
  BY <1>10, RightIs
<1>16. f = Xor(Xor(Entry(v), Xor(Entry(l), Right(e, 4))), Right(c, 8)) /\ g = Xor(Entry(k), Right(t, 4))
  BY <1>2, <1>5, <1>14 DEF k
<1>17. f \in SUBSET (0 .. 15) /\ g \in SUBSET (0 .. 15)
  BY <1>9, <1>13, <1>15, <1>16 DEF Xor
<1>18. ASSUME NEW z \in 0 .. 15 PROVE z \in f <=> z \in g
  <2>1. z \in Int /\ z >= 0 /\ z + 4 \in Int /\ z + 4 >= 0 /\ (z + 4) + 4 = z + 8
    OBVIOUS
  <2>2. z \in f <=> ((z \in Entry(v) <=> ~(z \in Entry(l) <=> z + 4 \notin e)) <=> z + 8 \notin c)
    <3>1. z \in f <=> ((z \in Entry(v) <=> ~(z \in Entry(l) <=> z \notin Right(e, 4))) <=> z \notin Right(c, 8))
      BY <1>16 DEF Xor
    <3>2. (z \in Right(e, 4) <=> z + 4 \in e) /\ (z \in Right(c, 8) <=> z + 8 \in c)
      BY <1>9, <2>1
    <3> QED BY <3>1, <3>2
  <2>3. z \in g <=> ((z \in Entry(l) <=> z \notin Entry(v)) <=> ~(z + 4 \in e <=> z + 8 \notin c))
    <3>1. z \in g <=> (z \in Entry(k) <=> z \notin Right(t, 4))
      BY <1>16 DEF Xor
    <3>2. z \in Right(t, 4) <=> (z + 4 \in e <=> z + 8 \notin c)
      BY <1>11, <1>15, <2>1
    <3>3. z \in Entry(k) <=> (z \in Entry(l) <=> z \notin Entry(v))
      BY <1>13
    <3> QED BY <3>1, <3>2, <3>3
  <2> QED BY <2>2, <2>3
<1>19. f = g
  BY <1>17, <1>18
<1> QED BY <1>19 DEF f, g

(* Hence both tables take in a byte alike. *)
LEMMA CrcmodByteFeeds ==
  ASSUME NEW c, NEW byte, NEW r, IsFed(r, Meeting(byte), c, 8)
  PROVE  crcmod_byte(reflect(c, 16), byte) = reflect(r[8], 16)
<1>1. c \in SUBSET (0 .. 15)
  BY DEF IsFed
<1>2. reflect(c, 16) \in SUBSET (0 .. 15)
  BY <1>1, ReflectIs
<1> QED BY <1>2, CrcmodByteIs, Tbl4bitByteFeeds

----------------------------------------------------------------------------
(* A byte goes behind a message.                                           *)

(* What the tables hold after a message. *)
Mirrored(s) == reflect(Residue(s), 16)

(* What each implementation makes of it. *)
LEMMA BytesGoBehind ==
  ASSUME IsWide(width), NEW s, IsMessage(s), NEW byte \in 0 .. 255
  PROVE  /\ bbb_byte(Dividend(s), byte) = Dividend(Append(s, byte))
         /\ bbf_byte(Residue(s), byte) = Residue(Append(s, byte))
         /\ tbl4bit_byte(Mirrored(s), byte) = Mirrored(Append(s, byte))
         /\ crcmod_byte(Mirrored(s), byte) = Mirrored(Append(s, byte))
<1>1. bbb_byte(Dividend(s), byte) = Dividend(Append(s, byte))
  <2>1. PICK r : IsFed(r, Incoming(byte), Dividend(s), 8) /\ r[8] = Dividend(Append(s, byte))
    BY DividendTakesByte
  <2>2. Dividend(s) \in SUBSET (0 .. 15)
    BY <2>1 DEF IsFed
  <2> QED BY <2>1, <2>2, BbbByteFeeds
<1>2. PICK r : IsFed(r, Meeting(byte), Residue(s), 8) /\ r[8] = Residue(Append(s, byte))
  BY ResidueTakesByte
<1>3. Residue(s) \in SUBSET (0 .. 15)
  BY <1>2 DEF IsFed
<1> QED BY <1>1, <1>2, <1>3, BbfByteFeeds, Tbl4bitByteFeeds, CrcmodByteFeeds DEF Mirrored

(* The first k bytes of a block, behind what was fed. *)
Behind(s, block, k) == s \o SubSeq(block, 1, k)

(* They are a message, one byte at a time. *)
GoesBehind(s, block) ==
  /\ Len(block) \in Nat /\ Behind(s, block, 0) = s /\ Behind(s, block, Len(block)) = s \o block
  /\ \A k \in 0 .. Len(block) : IsMessage(Behind(s, block, k))
  /\ \A k \in 1 .. Len(block) :
       block[k] \in 0 .. 255 /\ Behind(s, block, k) = Append(Behind(s, block, k - 1), block[k])

(* Three sequences one behind the other. *)
Joins(s, t, u) == (s \o t) \o u = s \o (t \o u)

(* Sequences of bytes are put behind each other in any order. *)
LEMMA Associate ==
  ASSUME NEW s \in Seq(0 .. 255), NEW t \in Seq(0 .. 255), NEW u \in Seq(0 .. 255)
  PROVE  Joins(s, t, u)
  BY ConcatAssociative DEF Joins

(* A block goes behind what was fed. *)
LEMMA BlockGoesBehind ==
  ASSUME NEW s, IsMessage(s), NEW block, IsMessage(block)
  PROVE  GoesBehind(s, block)
<1> DEFINE n == Len(block)
           part(k) == SubSeq(block, 1, k)
<1>1. s \in Seq(0 .. 255) /\ block \in Seq(0 .. 255) /\ n \in Nat /\ \A k \in 1 .. n : block[k] \in 0 .. 255
  BY LenProperties, ElementOfSeq DEF IsMessage
<1>2. ASSUME NEW k \in 0 .. n PROVE part(k) \in Seq(0 .. 255)
  BY <1>1, SubSeqProperties
<1>3. part(0) = <<>> /\ part(n) = block
  BY <1>1, SubSeqEmpty, SubSeqFull
<1>4. ASSUME NEW k \in 1 .. n
      PROVE  k - 1 \in 0 .. n /\ part(k) = part(k - 1) \o <<block[k]>> /\ <<block[k]>> \in Seq(0 .. 255)
  BY <1>1, SubSeqRecursiveSecond
<1>5. Behind(s, block, 0) = s /\ Behind(s, block, n) = s \o block
  BY <1>1, <1>3, ConcatEmptySeq DEF Behind
<1> HIDE DEF part
<1>6. ASSUME NEW k \in 0 .. n PROVE Behind(s, block, k) \in Seq(0 .. 255)
  BY <1>1, <1>2, ConcatProperties DEF Behind, part
<1>7. ASSUME NEW k \in 1 .. n
      PROVE  Behind(s, block, k) = Append(Behind(s, block, k - 1), block[k])
  <2>1. part(k - 1) \in Seq(0 .. 255) /\ Behind(s, block, k - 1) \in Seq(0 .. 255)
    BY <1>2, <1>4, <1>6
  <2>2. s \o part(k) = (s \o part(k - 1)) \o <<block[k]>>
    <3> DEFINE last == <<block[k]>>
               front == part(k - 1)
    <3>1. last \in Seq(0 .. 255) /\ front \in Seq(0 .. 255) /\ part(k) = front \o last
      BY <1>4, <2>1
    <3> HIDE DEF last, front
    <3>2. Joins(s, front, last)
      BY <1>1, <3>1, Associate
    <3> QED BY <3>1, <3>2 DEF last, front, Joins
  <2>3. Behind(s, block, k) = Behind(s, block, k - 1) \o <<block[k]>>
    BY <2>2 DEF Behind, part
  <2> QED BY <1>1, <2>1, <2>3, AppendIsConcat
<1> QED BY <1>1, <1>5, <1>6, <1>7 DEF GoesBehind, IsMessage

(* crc_16_dnp_bbb_update takes in a block. *)
LEMMA BbbUpdateFeeds ==
  ASSUME IsWide(width), NEW s, IsMessage(s), NEW block, IsMessage(block)
  PROVE  bbb_update(Dividend(s), block) = Dividend(s \o block)
<1> DEFINE n == Len(block)
           start == Dividend(s)
           Is(a) == a = [k \in 0 .. n |-> IF k = 0 THEN start ELSE bbb_byte(a[k - 1], block[k])]
           after == CHOOSE a : Is(a)
           held == [k \in 0 .. n |-> Dividend(Behind(s, block, k))]
<1>1. bbb_update(start, block) = after[n]
  BY DEF bbb_update, Feed
<1> HIDE DEF start
<1>2. GoesBehind(s, block)
  BY BlockGoesBehind
<1>3. /\ n \in Nat /\ n \in 0 .. n /\ 0 \in 0 .. n /\ \A k \in 1 .. n : k - 1 \in 0 .. n /\ k \in 0 .. n
  BY <1>2 DEF GoesBehind
<1>4. held[0] = start /\ held[n] = Dividend(s \o block)
  BY <1>2, <1>3 DEF GoesBehind, start
<1>5. ASSUME NEW k \in 1 .. n PROVE held[k] = bbb_byte(held[k - 1], block[k])
  <2> DEFINE t == Behind(s, block, k - 1)
  <2>1. IsMessage(t) /\ block[k] \in 0 .. 255 /\ Behind(s, block, k) = Append(t, block[k])
    BY <1>2, <1>3 DEF GoesBehind
  <2>2. held[k] = Dividend(Behind(s, block, k)) /\ held[k - 1] = Dividend(t)
    BY <1>3
  <2> HIDE DEF t, held
  <2> QED BY <2>1, <2>2, BytesGoBehind
<1>6. Is(held)
  <2>1. held = [k \in 0 .. n |-> held[k]]
    OBVIOUS
  <2> HIDE DEF held
  <2>2. \A k \in 0 .. n : held[k] = IF k = 0 THEN start ELSE bbb_byte(held[k - 1], block[k])
    BY <1>3, <1>4, <1>5
  <2>3. [k \in 0 .. n |-> held[k]]
          = [k \in 0 .. n |-> IF k = 0 THEN start ELSE bbb_byte(held[k - 1], block[k])]
    BY <2>2
  <2> QED BY <2>1, <2>3
<1> HIDE DEF held
<1>7. Is(after)
  BY <1>6
<1> HIDE DEF after
<1>8. GoAlike(after, held, n)
  BY <1>3, <1>4, <1>5, <1>7 DEF GoAlike
<1>9. after[n] = held[n]
  BY <1>8, SameSteps
<1> QED BY <1>1, <1>4, <1>9 DEF start

(* crc_16_dnp_bbf_update takes in a block. *)
LEMMA BbfUpdateFeeds ==
  ASSUME IsWide(width), NEW s, IsMessage(s), NEW block, IsMessage(block)
  PROVE  bbf_update(Residue(s), block) = Residue(s \o block)
<1> DEFINE n == Len(block)
           start == Residue(s)
           Is(a) == a = [k \in 0 .. n |-> IF k = 0 THEN start ELSE bbf_byte(a[k - 1], block[k])]
           after == CHOOSE a : Is(a)
           held == [k \in 0 .. n |-> Residue(Behind(s, block, k))]
<1>1. bbf_update(start, block) = after[n]
  BY DEF bbf_update, Feed
<1> HIDE DEF start
<1>2. GoesBehind(s, block)
  BY BlockGoesBehind
<1>3. /\ n \in Nat /\ n \in 0 .. n /\ 0 \in 0 .. n /\ \A k \in 1 .. n : k - 1 \in 0 .. n /\ k \in 0 .. n
  BY <1>2 DEF GoesBehind
<1>4. held[0] = start /\ held[n] = Residue(s \o block)
  BY <1>2, <1>3 DEF GoesBehind, start
<1>5. ASSUME NEW k \in 1 .. n PROVE held[k] = bbf_byte(held[k - 1], block[k])
  <2> DEFINE t == Behind(s, block, k - 1)
  <2>1. IsMessage(t) /\ block[k] \in 0 .. 255 /\ Behind(s, block, k) = Append(t, block[k])
    BY <1>2, <1>3 DEF GoesBehind
  <2>2. held[k] = Residue(Behind(s, block, k)) /\ held[k - 1] = Residue(t)
    BY <1>3
  <2> HIDE DEF t, held
  <2> QED BY <2>1, <2>2, BytesGoBehind
<1>6. Is(held)
  <2>1. held = [k \in 0 .. n |-> held[k]]
    OBVIOUS
  <2> HIDE DEF held
  <2>2. \A k \in 0 .. n : held[k] = IF k = 0 THEN start ELSE bbf_byte(held[k - 1], block[k])
    BY <1>3, <1>4, <1>5
  <2>3. [k \in 0 .. n |-> held[k]]
          = [k \in 0 .. n |-> IF k = 0 THEN start ELSE bbf_byte(held[k - 1], block[k])]
    BY <2>2
  <2> QED BY <2>1, <2>3
<1> HIDE DEF held
<1>7. Is(after)
  BY <1>6
<1> HIDE DEF after
<1>8. GoAlike(after, held, n)
  BY <1>3, <1>4, <1>5, <1>7 DEF GoAlike
<1>9. after[n] = held[n]
  BY <1>8, SameSteps
<1> QED BY <1>1, <1>4, <1>9 DEF start

(* crc_16_dnp_tbl4bit_update takes in a block. *)
LEMMA Tbl4bitUpdateFeeds ==
  ASSUME IsWide(width), NEW s, IsMessage(s), NEW block, IsMessage(block)
  PROVE  tbl4bit_update(Mirrored(s), block) = Mirrored(s \o block)
<1> DEFINE n == Len(block)
           start == Mirrored(s)
           Is(a) == a = [k \in 0 .. n |-> IF k = 0 THEN start ELSE tbl4bit_byte(a[k - 1], block[k])]
           after == CHOOSE a : Is(a)
           held == [k \in 0 .. n |-> Mirrored(Behind(s, block, k))]
<1>1. tbl4bit_update(start, block) = after[n]
  BY DEF tbl4bit_update, Feed
<1> HIDE DEF start
<1>2. GoesBehind(s, block)
  BY BlockGoesBehind
<1>3. /\ n \in Nat /\ n \in 0 .. n /\ 0 \in 0 .. n /\ \A k \in 1 .. n : k - 1 \in 0 .. n /\ k \in 0 .. n
  BY <1>2 DEF GoesBehind
<1>4. held[0] = start /\ held[n] = Mirrored(s \o block)
  BY <1>2, <1>3 DEF GoesBehind, start
<1>5. ASSUME NEW k \in 1 .. n PROVE held[k] = tbl4bit_byte(held[k - 1], block[k])
  <2> DEFINE t == Behind(s, block, k - 1)
  <2>1. IsMessage(t) /\ block[k] \in 0 .. 255 /\ Behind(s, block, k) = Append(t, block[k])
    BY <1>2, <1>3 DEF GoesBehind
  <2>2. held[k] = Mirrored(Behind(s, block, k)) /\ held[k - 1] = Mirrored(t)
    BY <1>3
  <2> HIDE DEF t, held
  <2> QED BY <2>1, <2>2, BytesGoBehind
<1>6. Is(held)
  <2>1. held = [k \in 0 .. n |-> held[k]]
    OBVIOUS
  <2> HIDE DEF held
  <2>2. \A k \in 0 .. n : held[k] = IF k = 0 THEN start ELSE tbl4bit_byte(held[k - 1], block[k])
    BY <1>3, <1>4, <1>5
  <2>3. [k \in 0 .. n |-> held[k]]
          = [k \in 0 .. n |-> IF k = 0 THEN start ELSE tbl4bit_byte(held[k - 1], block[k])]
    BY <2>2
  <2> QED BY <2>1, <2>3
<1> HIDE DEF held
<1>7. Is(after)
  BY <1>6
<1> HIDE DEF after
<1>8. GoAlike(after, held, n)
  BY <1>3, <1>4, <1>5, <1>7 DEF GoAlike
<1>9. after[n] = held[n]
  BY <1>8, SameSteps
<1> QED BY <1>1, <1>4, <1>9 DEF start

(* computeCRC_16_DNP takes in a block. *)
LEMMA ComputeFeeds ==
  ASSUME IsWide(width), NEW s, IsMessage(s), NEW block, IsMessage(block)
  PROVE  computeCRC_16_DNP(block, Xor(Mirrored(s), Ones)) = Xor(Mirrored(s \o block), Ones)
<1> DEFINE n == Len(block)
           start == Mirrored(s)
           Is(a) == a = [k \in 0 .. n |-> IF k = 0 THEN start ELSE crcmod_byte(a[k - 1], block[k])]
           after == CHOOSE a : Is(a)
           held == [k \in 0 .. n |-> Mirrored(Behind(s, block, k))]
<1>1. computeCRC_16_DNP(block, Xor(start, Ones)) = Xor(after[n], Ones)
  <2>1. Xor(Xor(start, Ones), Ones) = start
    BY DEF Xor
  <2> HIDE DEF start
  <2>2. computeCRC_16_DNP(block, Xor(start, Ones)) = Xor(Feed(crcmod_byte, Xor(Xor(start, Ones), Ones), block), Ones)
    BY DEF computeCRC_16_DNP
  <2>3. Feed(crcmod_byte, start, block) = after[n]
    BY DEF Feed
  <2> QED BY <2>1, <2>2, <2>3
<1> HIDE DEF start
<1>2. GoesBehind(s, block)
  BY BlockGoesBehind
<1>3. /\ n \in Nat /\ n \in 0 .. n /\ 0 \in 0 .. n /\ \A k \in 1 .. n : k - 1 \in 0 .. n /\ k \in 0 .. n
  BY <1>2 DEF GoesBehind
<1>4. held[0] = start /\ held[n] = Mirrored(s \o block)
  BY <1>2, <1>3 DEF GoesBehind, start
<1>5. ASSUME NEW k \in 1 .. n PROVE held[k] = crcmod_byte(held[k - 1], block[k])
  <2> DEFINE t == Behind(s, block, k - 1)
  <2>1. IsMessage(t) /\ block[k] \in 0 .. 255 /\ Behind(s, block, k) = Append(t, block[k])
    BY <1>2, <1>3 DEF GoesBehind
  <2>2. held[k] = Mirrored(Behind(s, block, k)) /\ held[k - 1] = Mirrored(t)
    BY <1>3
  <2> HIDE DEF t, held
  <2> QED BY <2>1, <2>2, BytesGoBehind
<1>6. Is(held)
  <2>1. held = [k \in 0 .. n |-> held[k]]
    OBVIOUS
  <2> HIDE DEF held
  <2>2. \A k \in 0 .. n : held[k] = IF k = 0 THEN start ELSE crcmod_byte(held[k - 1], block[k])
    BY <1>3, <1>4, <1>5
  <2>3. [k \in 0 .. n |-> held[k]]
          = [k \in 0 .. n |-> IF k = 0 THEN start ELSE crcmod_byte(held[k - 1], block[k])]
    BY <2>2
  <2> QED BY <2>1, <2>3
<1> HIDE DEF held
<1>7. Is(after)
  BY <1>6
<1> HIDE DEF after
<1>8. GoAlike(after, held, n)
  BY <1>3, <1>4, <1>5, <1>7 DEF GoAlike
<1>9. after[n] = held[n]
  BY <1>8, SameSteps
<1> QED BY <1>1, <1>4, <1>9 DEF start

----------------------------------------------------------------------------
(* What compute_checksum has after each block.                             *)

(* The four registers hold the remainder of what was fed, each in its form. *)
HoldsRemainder ==
  crc = [bbb     |-> Dividend(bytes),
         bbf     |-> Residue(bytes),
         tbl4bit |-> Mirrored(bytes),
         crcmod  |-> Xor(Mirrored(bytes), Ones)]

(* The inductive invariant of compute_checksum. *)
CrcIInv ==
  /\ width \in Widths
  /\ bytes \in Seq(0 .. 255) /\ Len(bytes) <= MaxBytes
  /\ HoldsRemainder

(* The registers hold 16 bits. *)
LEMMA RemaindersFit ==
  ASSUME NEW s, IsMessage(s)
  PROVE  Dividend(s) \in SUBSET Ones /\ Residue(s) \in SUBSET Ones /\ Mirrored(s) \in SUBSET Ones
<1>1. PICK r : IsFed(r, Zeros, Dividend(s), 16) /\ r[16] = Residue(s)
  BY DividendTakesZeros
<1>2. r[0] = Dividend(s) /\ r[0] \in SUBSET (0 .. 15) /\ r[16] \in SUBSET (0 .. 15)
  BY <1>1 DEF IsFed
<1>3. Residue(s) \in SUBSET (0 .. 15)
  BY <1>1, <1>2
<1> QED BY <1>2, <1>3, ReflectIs DEF Mirrored, Ones

(* Before the first byte they are zero. *)
LEMMA NothingFed == Dividend(<<>>) = {} /\ Residue(<<>>) = {} /\ Mirrored(<<>>) = {}
<1>1. Len(<<>>) = 0 /\ DOMAIN <<>> = {}
  OBVIOUS
<1>2. Polynomial(<<>>) = {} /\ Degree(<<>>) = -1 /\ Shift({}, 16) = {}
  BY <1>1 DEF Polynomial, Degree, Shift
<1>3. StepsFrom(-1, 0) /\ StepsFrom(-1 + 16, 0) /\ {} \in SUBSET Int
  BY DEF StepsFrom
<1>4. Remainder({}, -1) = {} /\ Remainder({}, -1 + 16) = {}
  BY <1>3, RemainderRuns DEF IsDivision
<1>5. Dividend(<<>>) = {} /\ Residue(<<>>) = {}
  BY <1>2, <1>4 DEF Dividend, Residue
<1> QED BY <1>5 DEF Mirrored, reflect, Low

(* The widths are at least that of the remainder. *)
LEMMA WidthsAreWide == width \in Widths => IsWide(width)
  BY WidthsAssumption DEF IsWide

(* Every block keeps the registers the remainder of what was fed. *)
LEMMA CrcInvariance == CrcSpec => []CrcIInv
<1>1. CrcInit => CrcIInv
  <2>1. Len(<<>>) = 0 /\ <<>> \in Seq(0 .. 255) /\ 0 <= MaxBytes
    BY BlocksAssumption
  <2>2. Xor({}, Ones) = Ones
    BY DEF Xor
  <2> QED BY <2>1, <2>2, NothingFed DEF CrcInit, CrcIInv, HoldsRemainder
<1>2. CrcIInv /\ [CrcNext]_crc_vars => CrcIInv'
  <2> SUFFICES ASSUME CrcIInv, [CrcNext]_crc_vars PROVE CrcIInv'
    OBVIOUS
  <2>1. ASSUME NEW block \in Blocks, Update(block) PROVE CrcIInv'
    <3>1. IsMessage(bytes) /\ IsMessage(block) /\ IsWide(width)
      BY BlocksAssumption, WidthsAreWide DEF CrcIInv, IsMessage
    <3>2. /\ crc.bbb = Dividend(bytes) /\ crc.bbf = Residue(bytes)
          /\ crc.tbl4bit = Mirrored(bytes) /\ crc.crcmod = Xor(Mirrored(bytes), Ones)
      BY DEF CrcIInv, HoldsRemainder
    <3>3. bytes' = bytes \o block
      BY <2>1 DEF Update
    <3>4. /\ bbb_update(crc.bbb, block) = Dividend(bytes')
          /\ bbf_update(crc.bbf, block) = Residue(bytes')
          /\ tbl4bit_update(crc.tbl4bit, block) = Mirrored(bytes')
          /\ computeCRC_16_DNP(block, crc.crcmod) = Xor(Mirrored(bytes'), Ones)
      BY <3>1, <3>2, <3>3, BbbUpdateFeeds, BbfUpdateFeeds, Tbl4bitUpdateFeeds, ComputeFeeds
    <3>5. HoldsRemainder'
      BY <2>1, <3>4 DEF Update, HoldsRemainder
    <3>6. bytes' \in Seq(0 .. 255) /\ Len(bytes') <= MaxBytes /\ width' = width
      <4>1. bytes \o block \in Seq(0 .. 255) /\ Len(bytes \o block) = Len(bytes) + Len(block)
        BY <3>1, ConcatProperties DEF IsMessage
      <4> QED BY <2>1, <3>3, <4>1 DEF Update
    <3> QED BY <3>5, <3>6 DEF CrcIInv
  <2>2. CASE UNCHANGED crc_vars
    BY <2>2 DEF crc_vars, CrcIInv, HoldsRemainder
  <2> QED BY <2>1, <2>2 DEF CrcNext
<1> QED BY <1>1, <1>2, PTL DEF CrcSpec

(* Every implementation finalizes to the same. *)
LEMMA ChecksumIs ==
  ASSUME CrcIInv
  PROVE  Checksums = {Xor(Mirrored(bytes), Ones)} /\ Mirrored(bytes) \in SUBSET Ones
<1>1. IsMessage(bytes) /\ IsWide(width)
  BY WidthsAreWide DEF CrcIInv, IsMessage
<1>2. /\ crc.bbb = Dividend(bytes) /\ crc.bbf = Residue(bytes)
      /\ crc.tbl4bit = Mirrored(bytes) /\ crc.crcmod = Xor(Mirrored(bytes), Ones)
  BY DEF CrcIInv, HoldsRemainder
<1>3. bbb_finalize(Dividend(bytes)) = Xor(Mirrored(bytes), Ones)
  <2>1. PICK r : IsFed(r, Zeros, Dividend(bytes), 16) /\ r[16] = Residue(bytes)
    BY <1>1, DividendTakesZeros
  <2>2. Dividend(bytes) \in SUBSET (0 .. 15)
    BY <1>1, RemaindersFit DEF Ones
  <2> QED BY <1>1, <2>1, <2>2, BbbFinalizeFeeds DEF Mirrored
<1>4. bbf_finalize(Residue(bytes)) = Xor(Mirrored(bytes), Ones)
  BY DEF bbf_finalize, Mirrored
<1>5. tbl4bit_finalize(Mirrored(bytes)) = Xor(Mirrored(bytes), Ones)
  BY DEF tbl4bit_finalize
<1>6. Mirrored(bytes) \in SUBSET Ones
  BY <1>1, RemaindersFit
<1> QED BY <1>2, <1>3, <1>4, <1>5, <1>6 DEF Checksums

(* What the updates return fits in the uint16_t of compute_checksum, for    *)
(* every frame, however it is cut and whatever the width of the registers.  *)
THEOREM ChecksumsAreOfSixteenBits == CrcSpec => []ChecksumsFit
<1>1. CrcIInv => ChecksumsFit
  <2> SUFFICES ASSUME CrcIInv PROVE ChecksumsFit
    OBVIOUS
  <2>1. IsMessage(bytes)
    BY DEF CrcIInv, IsMessage
  <2>2. Xor(Mirrored(bytes), Ones) \subseteq Ones
    BY <2>1, RemaindersFit DEF Xor
  <2>3. \A name \in DOMAIN crc : crc[name] \subseteq Ones
    BY <2>1, <2>2, RemaindersFit DEF CrcIInv, HoldsRemainder
  <2> QED BY <2>3 DEF CrcIInv, ChecksumsFit
<1> QED BY <1>1, CrcInvariance, PTL

(***************************************************************************)
(* All four implementations return the remainder of the polynomial that     *)
(* the frame is, for frames of every length, cut into any blocks, and for   *)
(* every width of the registers.                                            *)
(***************************************************************************)
THEOREM ImplementationsAgree == CrcSpec => []ChecksumIsTheRemainder
<1>1. CrcIInv => ChecksumIsTheRemainder
  <2> SUFFICES ASSUME CrcIInv PROVE ChecksumIsTheRemainder
    OBVIOUS
  <2>1. IsMessage(bytes)
    BY DEF CrcIInv, IsMessage
  <2>2. Degree(bytes) + 16 = 8 * Len(bytes) + 15
    <3>1. Len(bytes) \in Nat
      BY <2>1, PolynomialType
    <3> QED BY <3>1 DEF Degree
  <2>3. Residue(bytes) \in SUBSET (0 .. 15)
    BY <2>1, RemaindersFit DEF Ones
  <2>4. Mirrored(bytes) = {15 - d : d \in Residue(bytes)}
    <3>1. Low(Residue(bytes), 16) = Residue(bytes) /\ 16 - 1 = 15
      BY <2>3, LowIsAll
    <3> QED BY <3>1 DEF Mirrored, reflect
  <2>5. Crc16Dnp(bytes) = Xor(Mirrored(bytes), Ones)
    BY <2>2, <2>4 DEF Crc16Dnp, Residue
  <2> QED BY <2>5, ChecksumIs DEF ChecksumIsTheRemainder
<1> QED BY <1>1, CrcInvariance, PTL

(* A small letter has the value of the capital letter. *)
LEMMA SmallLetterValue ==
  ASSUME NEW char, IsHex(char)
  PROVE  hex_value(IF char \in 65 .. 70 THEN char + 32 ELSE char) = hex_value(char)
<1>1. CASE char \in 65 .. 70
  <2>1. char + 32 \in 97 .. 102 /\ char + 32 - 97 + 10 = char - 65 + 10
    BY <1>1
  <2>2. /\ ~(char \in 48 .. 57) /\ ~(char + 32 \in 48 .. 57)
        /\ ~(char + 32 \in 65 .. 70)
    BY <1>1
  <2>3. hex_value(char) = char - 65 + 10
    BY <1>1, <2>2 DEF hex_value
  <2> DEFINE small == char + 32
  <2>4. ~(small \in 48 .. 57) /\ ~(small \in 65 .. 70) /\ small \in 97 .. 102
    BY <2>1, <2>2
  <2> HIDE DEF small
  <2>5. hex_value(small) = small - 97 + 10
    BY <2>4 DEF hex_value
  <2> QED BY <1>1, <2>1, <2>3, <2>5 DEF small
<1>2. CASE ~(char \in 65 .. 70)
  BY <1>2
<1> QED BY <1>1, <1>2

(* Digits in small letters are read as those in capital letters are. *)
LEMMA SmallLettersToo ==
  ASSUME NEW chars, AllHex(chars), Len(LowerCase(chars)) = Len(chars)
  PROVE  from_hex(LowerCase(chars)) = from_hex(chars)
<1> DEFINE small == LowerCase(chars)
<1>1. DOMAIN small = DOMAIN chars
  BY DEF LowerCase
<1>2. ASSUME NEW i \in DOMAIN chars PROVE hex_value(small[i]) = hex_value(chars[i])
  <2>1. IsHex(chars[i])
    BY DEF AllHex
  <2>2. small[i] = IF chars[i] \in 65 .. 70 THEN chars[i] + 32 ELSE chars[i]
    BY DEF LowerCase
  <2> DEFINE char == chars[i]
  <2> HIDE DEF char
  <2>3. hex_value(IF char \in 65 .. 70 THEN char + 32 ELSE char) = hex_value(char)
    BY <2>1, SmallLetterValue DEF char
  <2> QED BY <2>2, <2>3, Zenon DEF char
<1> HIDE DEF small
<1> QED BY <1>1, <1>2 DEF from_hex, small

(* Numbers of n digits read back in both cases. *)
LEMMA BothCasesReadBack ==
  ASSUME NEW n \in Nat, NEW bits \in SUBSET (0 .. 4 * n - 1)
  PROVE  ReadsBack(bits, n)
<1> DEFINE chars == to_hex(bits, n)
<1>1. AllHex(chars) /\ from_hex(chars) = bits
  BY NumbersReadBack
<1>2. chars \in [1 .. n -> Int]
  <2>1. \A i \in 1 .. n : hex_digit(NibbleNumber(Shift(bits, -(4 * (n - i))))) \in Int
    BY NibbleNumberType DEF hex_digit
  <2> QED BY <2>1 DEF to_hex
<1> HIDE DEF chars
<1>3. LowerCase(chars) \in [1 .. n -> Int]
  BY <1>2 DEF LowerCase
<1>4. Len(chars) = n /\ Len(LowerCase(chars)) = n
  BY <1>2, <1>3, FunctionIsSeq
<1>5. from_hex(LowerCase(chars)) = from_hex(chars)
  BY <1>1, <1>4, SmallLettersToo
<1> QED BY <1>1, <1>5 DEF ReadsBack, chars

(* A checksum survives the conversion to characters and back. *)
THEOREM ChecksumsSurviveConversion == CrcSpec => []ChecksumsReadBack
<1>1. CrcIInv => ChecksumsReadBack
  <2> SUFFICES ASSUME CrcIInv, NEW c \in Checksums
               PROVE  /\ ReadsBack(c, 4) /\ ReadsBack(Low(c, 8), 2)
                      /\ ReadsBack(c \cup Shift(Xor(c, Ones), 16), 8)
    BY DEF ChecksumsReadBack
  <2>1. c \in SUBSET (0 .. 15) /\ Xor(c, Ones) \in SUBSET (0 .. 15)
    <3>1. c = Xor(Mirrored(bytes), Ones) /\ Mirrored(bytes) \in SUBSET Ones
      BY ChecksumIs
    <3> QED BY <3>1 DEF Xor, Ones
  <2>2. ReadsBack(c, 4)
    <3>1. 4 * 4 - 1 = 15
      OBVIOUS
    <3> QED BY <2>1, <3>1, BothCasesReadBack
  <2>3. ReadsBack(Low(c, 8), 2)
    <3>1. 4 * 2 - 1 = 7 /\ \A b \in c : b < 8 => b \in 0 .. 7
      BY <2>1
    <3>2. Low(c, 8) \in SUBSET (0 .. 4 * 2 - 1)
      BY <3>1 DEF Low
    <3> QED BY <3>2, BothCasesReadBack
  <2>4. ReadsBack(c \cup Shift(Xor(c, Ones), 16), 8)
    <3>1. \A b \in Xor(c, Ones) : b + 16 \in 0 .. 4 * 8 - 1
      BY <2>1
    <3>2. c \in SUBSET (0 .. 4 * 8 - 1)
      BY <2>1
    <3>3. c \cup Shift(Xor(c, Ones), 16) \in SUBSET (0 .. 4 * 8 - 1)
      BY <3>1, <3>2 DEF Shift
    <3> QED BY <3>3, BothCasesReadBack
  <2> QED BY <2>2, <2>3, <2>4
<1> QED BY <1>1, CrcInvariance, PTL

=============================================================================
