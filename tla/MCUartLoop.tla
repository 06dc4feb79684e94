------------------------------ MODULE MCUartLoop ------------------------------
(***************************************************************************)
(* UartLoop with buffers of 20 bytes and an extraInputBuffer of 2, one     *)
(* checksum character, and scripts of at most two frames and a bad one.    *)
(***************************************************************************)
EXTENDS UartLoop

MCCrc(bytes) ==
  << 48 + (MapThenSumSet(LAMBDA i : i * bytes[i], 1 .. Len(bytes)) % 7) >>

MCReply(m) == Message(48, 48, m.command, <<48>>)
MCPayload == <<>>
MCGarbage == {<<70>>}

Request == Frame(Message(48, 48, 114, <<>>))
SwitchOn == Frame(Message(48, 48, On, <<>>))
SwitchOff == Frame(Message(48, 48, Off, <<>>))
NoPeriod == <<Gt, Nl>>
TooShort == <<Gt, Dot, Nl>>

Setup(programs, scripts, losses) ==
  {[program |-> p, script |-> s, losses |-> losses] : p \in programs, s \in scripts}

Streaming == {"avr_adc_streaming", "arm_adc_streaming", "arm_counter_streaming",
              "avr_test_device"}

MCSetups ==
  Setup(Streaming, {SwitchOn \o TooShort, SwitchOn \o SwitchOff}, 0)
    \cup Setup({"avr_adc_streaming"}, {SwitchOn \o SwitchOff \o SwitchOn}, 0)
    \cup Setup({"avr_test_device"}, {SwitchOn \o Request}, 1)
    \cup Setup({"neorv32_gpio", "neorv32_pulse_counter"}, {TooShort \o Request, NoPeriod \o SwitchOn}, 1)
    \cup Setup({"arm_pulser"}, {TooShort \o Request, NoPeriod \o Request}, 1)
    \cup Setup({"avr_register_block", "avr_register_pointers"}, {Request \o TooShort}, 1)
    \cup Setup({"avr_loopback", "arm_loopback"}, {Request \o NoPeriod \o SwitchOn}, 0)
    \cup Setup({"avr_loopback"}, {<<Question>> \o Request}, 0)
    \cup Setup({"avr_pattern"}, {<<>>}, 0)

=============================================================================
