------------------------------- MODULE UartLoop -------------------------------
(***************************************************************************)
(* The main loops of the AVR, ARM and RISC-V programs (asc_helpers.h and   *)
(* avr/, arm/, riscv/), with the UART, its receive interrupt, the timer    *)
(* and the ADC.                                                            *)
(*                                                                         *)
(* The hardware decides when the host's bytes arrive, when the UART takes  *)
(* a byte, when the timer of the samples has expired (MillisecTimer says   *)
(* what the answer of millisec_timer_is_expired_repeat is worth) and when  *)
(* a conversion is finished: each a choice of the step that asks for it.   *)
(***************************************************************************)
EXTENDS MainLoop

CONSTANTS
  ExtraSize, (* _extraInputBuffer_size_                                     *)
  Payload    (* the data of a stream message                                *)

UartPrograms ==
  {"avr_adc_streaming", "arm_adc_streaming", "arm_counter_streaming", "arm_pulser",
   "neorv32_gpio", "neorv32_pulse_counter", "avr_test_device", "avr_register_block",
   "avr_register_pointers", "avr_loopback", "arm_loopback", "avr_pattern"}

(* What is streamed consists of digits.                                    *)
ASSUME UartAssumption ==
  /\ ExtraSize \in Nat \ {0}
  /\ Payload \in Seq((0 .. 255) \ Delimiters) /\ Len(Payload) <= MAXSPAYLOADEN
  /\ \A s \in Setups :
       s.program \in UartPrograms /\ s.script \in Seq(0 .. 255) /\ s.losses \in 0 .. 1

VARIABLES
  send_stream_frame_counter,
  uart,             (* the byte in the UART's receive register, if any      *)
  extraInputBuffer, (* content of the ring that the interrupt fills         *)
  loaded,           (* what pop_front has loaded from it; then its result   *)
  lost,             (* bytes overwritten in the UART or in extraInputBuffer *)
  stream_state_before_receiving,
  adc_timer,        (* whether the timer of the samples is enabled          *)
  have_started_ADC_conversion

serial  == <<uart, extraInputBuffer, loaded, lost>>
device  == <<in_buf, out_buf, streaming_is_on>>
samples == <<send_stream_frame_counter, stream_state_before_receiving, adc_timer,
             have_started_ADC_conversion>>

vars == <<setup, pc, line, serial, device, samples>>

----------------------------------------------------------------------------
(* The UART's receiver.                                                    *)

(* The programs without an interrupt ask the UART.                         *)
Polled == program \in {"neorv32_gpio", "neorv32_pulse_counter"}

(* circular_buffer_push_back on extraInputBuffer.                          *)

(* Mutant: there is always room. *)
push_back_extra_CountOn(byte) ==
  /\ extraInputBuffer' = Append(extraInputBuffer, byte)
  /\ lost' = lost + (IF Len(extraInputBuffer) = ExtraSize THEN 1 ELSE 0)

push_back_extra(byte) ==
  /\ extraInputBuffer' = KeepLast(Append(extraInputBuffer, byte), ExtraSize)
  /\ lost' = lost + (IF Len(extraInputBuffer) = ExtraSize THEN 1 ELSE 0)

(* The host sends.  With so many bytes lost, it waits for room.            *)
SendByte ==
  /\ line # <<>> /\ uart = <<>>
  /\ lost < setup.losses \/ Len(extraInputBuffer) < ExtraSize
  /\ uart' = <<Head(line)>>
  /\ line' = Tail(line)
  /\ UNCHANGED <<setup, pc, extraInputBuffer, loaded, lost, device, samples>>

(* The byte before was not taken: this one is lost.                        *)
Overrun ==
  /\ line # <<>> /\ uart # <<>> /\ Polled /\ lost < setup.losses
  /\ line' = Tail(line)
  /\ lost' = lost + 1
  /\ UNCHANGED <<setup, pc, uart, extraInputBuffer, loaded, device, samples>>

(* Mutant: pop_front is not in an ATOMIC block. *)
interrupts_enabled_Always == TRUE

interrupts_enabled == ~At("store")

ReceiveInterrupt ==
  /\ ~Polled /\ ~Ended /\ uart # <<>> /\ interrupts_enabled
  /\ push_back_extra(Head(uart))
  /\ uart' = <<>>
  /\ UNCHANGED <<setup, pc, line, loaded, device, samples>>

(* neorv32_uart1_getc_safe, which may come too early for a byte.           *)
ReceiveByPolling ==
  /\ At("getc") /\ uart # <<>>
  /\ push_back_extra(Head(uart))
  /\ uart' = <<>>
  /\ Advance
  /\ UNCHANGED <<setup, line, loaded, device, samples>>

ReceiveNothing ==
  /\ At("getc")
  /\ Advance
  /\ UNCHANGED <<setup, line, serial, device, samples>>

----------------------------------------------------------------------------
(* From extraInputBuffer to the input buffer.                              *)

(* if (!circular_buffer_is_empty(&extraInputBuffer))                       *)
TestForByte ==
  /\ At("test")
  /\ IF extraInputBuffer = <<>> THEN Skip(Len(Move)) ELSE Advance
  /\ UNCHANGED <<setup, line, serial, device, samples>>

(* The two halves of pop_front: indices are loaded, then stored.           *)
LoadFront ==
  /\ At("load")
  /\ loaded' = extraInputBuffer
  /\ Advance
  /\ UNCHANGED <<setup, line, uart, extraInputBuffer, lost, device, samples>>

StoreFront ==
  /\ At("store")
  /\ extraInputBuffer' = Tail(loaded)
  /\ loaded' = <<Head(loaded)>>
  /\ Advance
  /\ UNCHANGED <<setup, line, uart, lost, device, samples>>

(* A '?' makes the AVR loopback program print its buffers.                 *)
Question == 63
Prints == program = "avr_loopback" /\ Where(setup.script, Question) # {}

PushByte ==
  /\ At("push")
  /\ IF program = "avr_loopback" /\ loaded = <<Question>> THEN in_buf' = in_buf
     ELSE push_back_input(loaded)
  /\ loaded' = <<>>
  /\ Advance
  /\ UNCHANGED <<setup, line, uart, extraInputBuffer, lost, out_buf, streaming_is_on, samples>>

ReceiveMessage == Receive /\ UNCHANGED <<setup, line, serial, samples>>

----------------------------------------------------------------------------
(* uart_tx_from_circ_buf: a byte goes if there is one and the UART is ready. *)

(* Mutant: the last byte is not seen. *)
has_output_ButOne == Len(out_buf.bytes) > 1

has_output == out_buf.bytes # <<>>

TransmitByte ==
  /\ At("transmit") /\ has_output
  /\ out_buf' = pop_front_n(out_buf, 1)
  /\ Advance
  /\ UNCHANGED <<setup, line, serial, in_buf, streaming_is_on, samples>>

TransmitNothing ==
  /\ At("transmit")
  /\ Advance
  /\ UNCHANGED <<setup, line, serial, device, samples>>

----------------------------------------------------------------------------
(* Streaming.                                                              *)

SaveState ==
  /\ At("save_state")
  /\ stream_state_before_receiving' = streaming_is_on
  /\ Advance
  /\ UNCHANGED <<setup, line, serial, device, send_stream_frame_counter, adc_timer,
                 have_started_ADC_conversion>>

(* Just started streaming, so start this timer.                            *)
SetTimer ==
  /\ At("set_timer")
  /\ adc_timer' = (adc_timer \/ (streaming_is_on /\ ~stream_state_before_receiving))
  /\ Advance
  /\ UNCHANGED <<setup, line, serial, device, send_stream_frame_counter,
                 stream_state_before_receiving, have_started_ADC_conversion>>

(* In the counter mode of the ARM program nothing is converted; in its     *)
(* other mode it starts a conversion whether or not one is under way.      *)
ConversionIsDue ==
  /\ streaming_is_on /\ adc_timer
  /\ program = "avr_adc_streaming" => ~have_started_ADC_conversion
  /\ program # "arm_counter_streaming"

StartConversion ==
  /\ At("start_conversion") /\ ConversionIsDue
  /\ have_started_ADC_conversion' = TRUE
  /\ Advance
  /\ UNCHANGED <<setup, line, serial, device, send_stream_frame_counter,
                 stream_state_before_receiving, adc_timer>>

StartNothing ==
  /\ At("start_conversion")
  /\ Advance
  /\ UNCHANGED <<setup, line, serial, device, samples>>

Converts == program \in {"avr_adc_streaming", "arm_adc_streaming"}

(* Mutant: the output need not be empty. *)
READY_TO_STREAM_AnyOutput == streaming_is_on \/ program = "avr_pattern"

(* READY_TO_STREAM_ASC_DEVICE_W_REGISTER_POINTERS, and what stands in for  *)
(* it; the pattern program streams all the time.                           *)
READY_TO_STREAM ==
  /\ streaming_is_on \/ program = "avr_pattern"
  /\ Len(out_buf.bytes) = 0

Stream ==
  /\ At("stream") /\ READY_TO_STREAM
  /\ Converts => have_started_ADC_conversion
  /\ \E outcome \in put_message(out_buf, StreamMessage(send_stream_frame_counter, Payload)) :
       /\ out_buf' = outcome.buf
       /\ After(outcome.err)
       /\ have_started_ADC_conversion' =
            (have_started_ADC_conversion /\ outcome.err # "none" /\ program = "avr_adc_streaming")
  /\ send_stream_frame_counter' = (send_stream_frame_counter + 1) % CounterRange
  /\ UNCHANGED <<setup, line, serial, in_buf, streaming_is_on,
                 stream_state_before_receiving, adc_timer>>

(* A conversion is not finished.                                           *)
StreamNothing ==
  /\ At("stream") /\ (Converts \/ ~READY_TO_STREAM)
  /\ Advance
  /\ UNCHANGED <<setup, line, serial, device, samples>>

----------------------------------------------------------------------------
Init ==
  /\ LoopInit
  /\ send_stream_frame_counter = 0
  /\ uart = <<>> /\ extraInputBuffer = <<>> /\ loaded = <<>> /\ lost = 0
  /\ stream_state_before_receiving = FALSE
  /\ adc_timer = FALSE
  /\ have_started_ADC_conversion = FALSE

LoopStep ==
  \/ ReceiveByPolling \/ ReceiveNothing
  \/ TestForByte \/ LoadFront \/ StoreFront \/ PushByte
  \/ ReceiveMessage
  \/ TransmitByte \/ TransmitNothing
  \/ SaveState \/ SetTimer \/ StartConversion \/ StartNothing \/ Stream \/ StreamNothing

Next == SendByte \/ Overrun \/ ReceiveInterrupt \/ LoopStep

(* The CPU runs, a pending interrupt is taken, and if asked again and      *)
(* again, the UART is ready, a timer has expired, a conversion is finished *)
(* and getc_safe finds the byte that is there.                             *)
Fairness ==
  /\ WF_vars(LoopStep)
  /\ WF_vars(ReceiveInterrupt)
  /\ SF_vars(TransmitByte)
  /\ SF_vars(StartConversion)
  /\ SF_vars(Stream)
  /\ SF_vars(ReceiveByPolling)

Spec == Init /\ [][Next]_vars /\ Fairness

----------------------------------------------------------------------------
(* Properties.                                                             *)

(* The variables have their types and the buffers their bounds. *)
TypeOK ==
  /\ setup \in Setups
  /\ pc \in 0 .. Len(Steps)
  /\ in_buf \in Seq(0 .. 255) /\ Len(in_buf) <= MAXMESSAGELEN
  /\ out_buf \in [bytes : Seq(0 .. 255), iStart : 0 .. MAXMESSAGELEN - 1]
  /\ Len(out_buf.bytes) <= MAXMESSAGELEN
  /\ Len(uart) <= 1 /\ Len(extraInputBuffer) <= ExtraSize
  /\ loaded = <<>> <=> pc = 0 \/ ~(At("store") \/ At("push"))
  /\ lost \in 0 .. setup.losses
  /\ {streaming_is_on, stream_state_before_receiving, adc_timer,
      have_started_ADC_conversion} \subseteq BOOLEAN
  /\ send_stream_frame_counter \in 0 .. CounterRange - 1

(* The bytes between the host and get_message, oldest first.               *)
UnderWay == in_buf \o (IF At("push") THEN loaded ELSE <<>>) \o extraInputBuffer
                   \o uart \o line

(* What is left of a sequence when n of its bytes are gone.                *)
Without(s, n) ==
  IF n = 0 THEN {s} ELSE {Take(s, i - 1) \o Drop(s, i) : i \in 1 .. Len(s)}

(***************************************************************************)
(* No interleaving of the receive interrupt with the test, the pop and the *)
(* push of the loop loses, doubles or swaps a byte: what is under way is   *)
(* the end of what the host sends, without the bytes that were overwritten *)
(* before the loop came for them.  The AVR loopback program takes a '?'    *)
(* out of the bytes on purpose.                                            *)
(***************************************************************************)
BytesInOrder == Prints \/ \E s \in Without(setup.script, lost) : Ends(UnderWay, s)

(***************************************************************************)
(* A stream message is never refused and never shares the output with      *)
(* another one: READY_TO_STREAM is enough for                              *)
(* STREAM_TO_HOST_ASC_DEVICE_W_REGISTER_POINTERS, whatever replies were    *)
(* put, refused half-way or transmitted before.                            *)
(***************************************************************************)
StreamsAreWhole ==
  [][Stream => out_buf'.bytes = Frame(StreamMessage(send_stream_frame_counter, Payload))]_vars

(***************************************************************************)
(* When the loop asks for an expired timer with streaming on, the timer    *)
(* has been started: no exception separates the 'n' that switches          *)
(* streaming on from the millisec_timer_set_rel that follows it.           *)
(***************************************************************************)
StreamingStartsTheTimer == At("start_conversion") /\ streaming_is_on => adc_timer

(* The programs whose output stands behind the step that may throw.        *)
TransmitsLast ==
  program \in {"avr_test_device", "avr_register_block", "avr_register_pointers",
               "avr_loopback", "arm_loopback"}

(***************************************************************************)
(* Output that is put is transmitted, though exceptions end passes: the    *)
(* one thing that stops it is a refused frame in front of the input buffer *)
(* of a program that transmits at the end of its pass.                     *)
(***************************************************************************)
TransmissionGoesOn ==
  \/ []<>(~has_output \/ Ended \/ (TransmitsLast /\ Refused(in_buf)))
  \/ []<><<TransmitByte>>_vars

(***************************************************************************)
(* Received bytes reach the input buffer, though exceptions end passes:    *)
(* what stops that is a refused frame in front of the input buffer of a    *)
(* program that polls its UART at the end of its pass.                     *)
(***************************************************************************)
ReceivedBytesAreMoved ==
  []<>(\/ uart = <<>> /\ extraInputBuffer = <<>>
       \/ Ended
       \/ Polled /\ Refused(in_buf))

(* A whole frame that gets to the input buffer does not stay there for     *)
(* ever, unless a refused one stands in front of it. *)
WholeFramesAreTaken == []<>(~FrameWaits \/ Ended)

(* The programs that have streaming switched on and stream.                *)
Streams ==
  \/ program = "avr_pattern"
  \/ streaming_is_on /\ (\E i \in 1 .. Len(Steps) : Steps[i] = "stream")

(***************************************************************************)
(* While streaming is on, messages are streamed: the flags of the          *)
(* conversion, the timer and the test for an empty output never wait for   *)
(* each other.  Only a refused frame in the input buffer stops them.       *)
(***************************************************************************)
StreamingGoesOn ==
  \/ []<>(~Streams \/ Ended \/ Refused(in_buf))
  \/ []<><<Stream>>_vars

=============================================================================
