------------------------------- MODULE MainLoop -------------------------------
(***************************************************************************)
(* What the main loops of the programs have in common.  A pass of a loop   *)
(* is a sequence of steps in a Try; an exception ends the pass, and Catch  *)
(* begins the next one or ends the program.  One step, taking a message    *)
(* from the input buffer and answering it, is in all of them.  UartLoop    *)
(* adds the steps and the hardware of the microcontroller programs,        *)
(* PollLoop those of the native programs.                                  *)
(***************************************************************************)
EXTENDS AscUnpack, AscPack

CONSTANTS
  Setups,   (* what runs: a program, the bytes the host sends (script), and *)
            (* a bound on the bytes lost before the program takes them      *)
  Reply(_)  (* what register handlers and the device answer, see AscDevice  *)

VARIABLES
  setup,    (* the member of Setups that runs                               *)
  pc,       (* the step of the pass; 0 when the program has ended           *)
  in_buf,   (* content of the input buffer                                  *)
  out_buf,  (* the output buffer                                            *)
  streaming_is_on,
  line      (* the bytes that the host has not sent yet                     *)

program == setup.program

----------------------------------------------------------------------------
(* A pass of each program's loop.  A byte moves from extraInputBuffer to   *)
(* the input buffer in four steps: the test for a byte, the two halves of  *)
(* pop_front (the interrupts are masked in between), and push_back.        *)

Move == <<"test", "load", "store", "push">>

(* Mutant: a byte moves behind the step that may throw. *)
HANDLE_ASC_COMM_IN_POLLING_LOOP_MoveLast == <<"transmit", "receive">> \o Move

(* Mutant: the output comes behind the step that may throw. *)
HANDLE_ASC_COMM_IN_POLLING_LOOP_TransmitLast == Move \o <<"receive", "transmit">>

HANDLE_ASC_COMM_IN_POLLING_LOOP == <<"transmit">> \o Move \o <<"receive">>

(* Mutant: the state is saved when the message has been received. *)
AvrAdcStreaming_LateSave ==
  HANDLE_ASC_COMM_IN_POLLING_LOOP
    \o <<"save_state", "set_timer", "start_conversion", "stream">>

AvrAdcStreaming ==
  <<"save_state">> \o HANDLE_ASC_COMM_IN_POLLING_LOOP
    \o <<"set_timer", "start_conversion", "stream">>

ArmAdcStreaming ==
  <<"save_state">> \o HANDLE_ASC_COMM_IN_POLLING_LOOP
    \o <<"set_timer", "start_conversion", "stream">>

ArmPulser            == HANDLE_ASC_COMM_IN_POLLING_LOOP
Neorv32Gpio          == HANDLE_ASC_COMM_IN_POLLING_LOOP \o <<"getc">>
Neorv32PulseCounter  == HANDLE_ASC_COMM_IN_POLLING_LOOP \o <<"getc">>
AvrTestDevice        == Move \o <<"receive", "stream", "transmit">>
AvrRegisterBlock     == Move \o <<"receive", "transmit">>
AvrRegisterPointers  == Move \o <<"receive", "transmit">>
AvrLoopback          == Move \o <<"receive", "transmit">>
ArmLoopback          == Move \o <<"receive", "transmit">>
AvrPattern           == <<"stream", "transmit">>
NativeLoopback       == <<"poll", "input", "receive", "output", "set_timeout">>
NativeRawLoopback    == <<"poll", "input", "output", "set_timeout">>
NativeRegisterDevice == <<"poll", "input", "receive", "output", "set_timeout">>

Steps ==
  CASE program = "avr_adc_streaming" -> AvrAdcStreaming
    [] program \in {"arm_adc_streaming", "arm_counter_streaming"} -> ArmAdcStreaming
    [] program = "arm_pulser" -> ArmPulser
    [] program = "neorv32_gpio" -> Neorv32Gpio
    [] program = "neorv32_pulse_counter" -> Neorv32PulseCounter
    [] program = "avr_test_device" -> AvrTestDevice
    [] program = "avr_register_block" -> AvrRegisterBlock
    [] program = "avr_register_pointers" -> AvrRegisterPointers
    [] program = "avr_loopback" -> AvrLoopback
    [] program = "arm_loopback" -> ArmLoopback
    [] program = "avr_pattern" -> AvrPattern
    [] program = "native_loopback" -> NativeLoopback
    [] program = "native_raw_loopback" -> NativeRawLoopback
    [] program = "native_register_device" -> NativeRegisterDevice

(* The programs that answer a message with itself; those of them that      *)
(* ignore the checksum; those with func_nf.                                *)
LoopsBack == program \in {"avr_loopback", "arm_loopback", "native_loopback"}
IgnoresCRC == program \in {"avr_loopback", "arm_loopback"}
HandlesNf ==
  program \in {"avr_adc_streaming", "arm_adc_streaming", "arm_counter_streaming",
               "arm_pulser", "neorv32_gpio", "neorv32_pulse_counter", "avr_test_device"}

----------------------------------------------------------------------------
Ended == pc = 0
At(step) == ~Ended /\ Steps[pc] = step

(* n steps on, or into the next pass.                                      *)
Skip(n) == pc' = ((pc + n - 1) % Len(Steps)) + 1
Advance == Skip(1)

(* The native register device is the one that gives up.                    *)
Catch == pc' = IF program = "native_register_device" THEN 0 ELSE 1

After(err) ==
  \/ err = "none" /\ Advance
  \/ err = "crashed" /\ pc' = 0
  \/ err \notin {"none", "crashed"} /\ Catch

LoopInit ==
  /\ setup \in Setups
  /\ line = setup.script
  /\ pc = 1
  /\ in_buf = <<>>
  /\ out_buf = NoOutput
  /\ streaming_is_on = FALSE

(* circular_buffer_push_back on the input buffer, for each byte.           *)

(* Mutant: there is always room. *)
push_back_input_CountOn(bytes) == in_buf' = in_buf \o bytes

push_back_input(bytes) == in_buf' = KeepLast(in_buf \o bytes, MAXMESSAGELEN)

----------------------------------------------------------------------------
(* 'n', 'f' and 'z'.                                                       *)
On == 110
Off == 102
Noop == 122

(* What the message handed over by get_message is answered with, if with   *)
(* anything: a loopback program puts it back; func_nf and 'z' are silent.  *)
Answers(m) ==
  IF m.command = 0 THEN {}
  ELSE IF LoopsBack THEN {m}
  ELSE IF m.command = Noop \/ (m.command \in {On, Off} /\ HandlesNf) THEN {}
  ELSE {Reply(m)}

(* _handle_nf_messages.                                                    *)
handle_nf_messages(m) ==
  streaming_is_on' = IF HandlesNf /\ m.command \in {On, Off} THEN m.command = On
                     ELSE streaming_is_on

put(m) ==
  \E outcome \in put_message(out_buf, m) : out_buf' = outcome.buf /\ After(outcome.err)

(* ascii_serial_com_device_receive, or what the loopback programs do.      *)
Receive ==
  /\ At("receive")
  /\ \E result \in get_message_from_input_buffer(in_buf, IgnoresCRC) :
       /\ in_buf' = result.rest
       /\ handle_nf_messages(result.message)
       /\ \/ /\ result.err # "none" \/ Answers(result.message) = {}
             /\ After(result.err)
             /\ UNCHANGED out_buf
          \/ /\ result.err = "none"
             /\ \E m \in Answers(result.message) : put(m)

----------------------------------------------------------------------------
(* A message that a call of get_message would take, now or when it is      *)
(* called again, is in the input buffer.                                   *)
FrameWaits == FramesIn(in_buf) # {} /\ ~Refused(in_buf)

(* The input buffer, as long as there is room in it, holds the next bytes  *)
(* of the host's script: together with what is under way, its end.         *)
Ends(bytes, s) == Len(bytes) <= Len(s) /\ KeepLast(s, Len(bytes)) = bytes

=============================================================================
