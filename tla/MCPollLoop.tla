------------------------------ MODULE MCPollLoop ------------------------------
(***************************************************************************)
(* PollLoop with buffers of 16 bytes and one checksum character, and       *)
(* scripts of up to three frames, bad ones, an unfinished one, and one     *)
(* that does not end before it fills the buffer.                           *)
(***************************************************************************)
EXTENDS PollLoop

MCCrc(bytes) ==
  << 48 + (MapThenSumSet(LAMBDA i : i * bytes[i], 1 .. Len(bytes)) % 7) >>

MCReply(m) == Message(48, 48, m.command, <<48>>)
MCGarbage == {<<70>>}

Request == Frame(Message(48, 48, 114, <<>>))
NoPeriod == <<Gt, Nl>>
TooShort == <<Gt, Dot, Nl>>
Endless == <<Gt>> \o [i \in 1 .. MAXMESSAGELEN |-> 48]

MCSetups ==
  {[program |-> p, script |-> s] :
     p \in {"native_loopback", "native_register_device"},
     s \in {NoPeriod \o Request, TooShort \o Request, Request \o Request \o <<Gt>>}}
  \cup {[program |-> "native_loopback", script |-> NoPeriod \o Request \o Request \o Request],
        [program |-> "native_loopback", script |-> TooShort \o Request \o Request],
        [program |-> "native_loopback", script |-> Endless \o Request],
        [program |-> "native_raw_loopback", script |-> Request]}

=============================================================================
