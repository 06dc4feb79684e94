------------------------------- MODULE PollLoop -------------------------------
(***************************************************************************)
(* The main loops of the native programs, with circular_buffer_io_fd_poll. *)
(* The host is at the other ends of two pipes: it writes its bytes, closes *)
(* its end, reads what the program writes, and may go away as a reader.    *)
(* Errors of poll, read and write themselves are left out.                 *)
(***************************************************************************)
EXTENDS MainLoop

PollPrograms == {"native_loopback", "native_raw_loopback", "native_register_device"}

ASSUME PollAssumption ==
  \A s \in Setups : s.program \in PollPrograms /\ s.script \in Seq(0 .. 255)

VARIABLES
  pipe,      (* bytes that the host has written and nobody has read         *)
  closed,    (* the host has closed the pipe it writes to                   *)
  reader,    (* the host has not closed the pipe it reads from              *)
  inflags,   (* revents of the last poll, for input and output              *)
  outflags,
  timeout,   (* of the next poll, in ms; -1 is none                         *)
  caught     (* history: the last pass ended in an exception                *)

host  == <<pipe, closed, reader>>
flags == <<inflags, outflags>>
polls == <<flags, timeout, caught>>

vars == <<setup, pc, in_buf, out_buf, streaming_is_on, line, host, polls>>

----------------------------------------------------------------------------
(* The host.                                                               *)

WriteByte ==
  /\ line # <<>>
  /\ pipe' = Append(pipe, Head(line))
  /\ line' = Tail(line)
  /\ UNCHANGED <<setup, pc, in_buf, out_buf, streaming_is_on, closed, reader, polls>>

Close ==
  /\ line = <<>> /\ ~closed
  /\ closed' = TRUE
  /\ UNCHANGED <<setup, pc, in_buf, out_buf, streaming_is_on, line, pipe, reader, polls>>

StopReading ==
  /\ reader
  /\ reader' = FALSE
  /\ UNCHANGED <<setup, pc, in_buf, out_buf, streaming_is_on, line, pipe, closed, polls>>

----------------------------------------------------------------------------
(* In raw mode one ring is both buffers.                                   *)
Raw == program = "native_raw_loopback"
output == IF Raw THEN in_buf ELSE out_buf.bytes

(* What poll finds: it is asked about writing only if there is output.     *)
(* POLLHUP stands for POLLERR and POLLNVAL too, of which do_poll makes the *)
(* same; a pipe whose reader has gone sets POLLERR.                        *)
InputFlags ==
  (IF pipe # <<>> THEN {"POLLIN"} ELSE {}) \cup (IF closed THEN {"POLLHUP"} ELSE {})

(* Mutant: it is never asked about writing. *)
OutputFlags_NeverAsked == IF reader THEN {{}} ELSE {{"POLLHUP"}}

OutputFlags ==
  IF ~reader THEN {{"POLLHUP"}}
  ELSE IF output = <<>> THEN {{}} ELSE {{}, {"POLLOUT"}}

(* do_poll reports the end: the input hung up with nothing left in the     *)
(* buffers, or the output hung up.                                         *)

(* Mutant: the end of the input is not looked at. *)
HungUp_OutputOnly(in, out) == "POLLHUP" \in out

(* Mutant: the end of the input does not wait for the output. *)
HungUp_InputOnly(in, out) == ("POLLHUP" \in in /\ in_buf = <<>>) \/ "POLLHUP" \in out

HungUp(in, out) ==
  \/ "POLLHUP" \in in /\ output = <<>> /\ in_buf = <<>>
  \/ "POLLHUP" \in out

(* Without a timeout, poll waits for a flag.                               *)
do_poll ==
  /\ At("poll")
  /\ inflags' = InputFlags
  /\ outflags' \in OutputFlags
  /\ timeout = -1 => inflags' # {} \/ outflags' # {}
  /\ IF HungUp(inflags', outflags') THEN pc' = 0 ELSE Advance
  /\ UNCHANGED <<setup, in_buf, out_buf, streaming_is_on, line, host, timeout, caught>>

(* How many bytes read() may be offered room for: into a full ring it      *)
(* reads over the oldest.                                                  *)
Room == IF Len(in_buf) < MAXMESSAGELEN THEN MAXMESSAGELEN - Len(in_buf) ELSE MAXMESSAGELEN

do_input ==
  /\ At("input")
  /\ \/ /\ "POLLIN" \in inflags
        /\ \E n \in 1 .. Len(pipe) :
             /\ n <= Room
             /\ push_back_input(Take(pipe, n))
             /\ pipe' = Drop(pipe, n)
     \/ "POLLIN" \notin inflags /\ UNCHANGED <<in_buf, pipe>>
  /\ Advance
  /\ UNCHANGED <<setup, out_buf, streaming_is_on, line, closed, reader, polls>>

ReceiveMessage ==
  /\ Receive
  /\ caught' = (pc' = 1)
  /\ UNCHANGED <<setup, line, host, flags, timeout>>

(* write() takes some of the bytes that lie in one piece of memory; an     *)
(* emptied ring starts again at the start of its memory.                   *)
Write(n) ==
  IF Raw THEN in_buf' = Drop(in_buf, n) /\ UNCHANGED out_buf
  ELSE /\ out_buf.iStart + n <= MAXMESSAGELEN
       /\ out_buf' = IF n = Len(output) THEN NoOutput ELSE pop_front_n(out_buf, n)
       /\ UNCHANGED in_buf

(* The writer would be killed by a signal if the reader had gone.          *)
do_output ==
  /\ At("output")
  /\ \/ /\ "POLLOUT" \in outflags
        /\ IF reader THEN (\E n \in 1 .. Len(output) : Write(n)) /\ Advance
           ELSE pc' = 0 /\ UNCHANGED <<in_buf, out_buf>>
     \/ "POLLOUT" \notin outflags /\ Advance /\ UNCHANGED <<in_buf, out_buf>>
  /\ UNCHANGED <<setup, streaming_is_on, line, host, polls>>

(* Is there data to process in the input buffer?                           *)

(* Mutant: the timeout is never short. *)
next_timeout_Never == -1

next_timeout == IF ~Raw /\ in_buf # <<>> THEN 5 ELSE -1

SetTimeout ==
  /\ At("set_timeout")
  /\ timeout' = next_timeout
  /\ caught' = FALSE
  /\ Advance
  /\ UNCHANGED <<setup, in_buf, out_buf, streaming_is_on, line, host, flags>>

----------------------------------------------------------------------------
Init ==
  /\ LoopInit
  /\ pipe = <<>> /\ closed = FALSE /\ reader = TRUE
  /\ inflags = {} /\ outflags = {}
  /\ timeout = -1
  /\ caught = FALSE

LoopStep == do_poll \/ do_input \/ ReceiveMessage \/ do_output \/ SetTimeout

Next == WriteByte \/ Close \/ StopReading \/ LoopStep

(* The program is scheduled, poll returns when something is ready, and a   *)
(* reader who stays reads again and again.  Nothing is assumed of what the *)
(* host writes, or that it closes anything.                                *)
Fairness ==
  /\ WF_vars(LoopStep)
  /\ SF_vars(do_poll /\ "POLLOUT" \in outflags')

Spec == Init /\ [][Next]_vars /\ Fairness

----------------------------------------------------------------------------
(* Properties.                                                             *)

(* The variables have their types and the buffers their bounds. *)
TypeOK ==
  /\ setup \in Setups
  /\ pc \in 0 .. Len(Steps)
  /\ in_buf \in Seq(0 .. 255) /\ Len(in_buf) <= MAXMESSAGELEN
  /\ out_buf \in [bytes : Seq(0 .. 255), iStart : 0 .. MAXMESSAGELEN - 1]
  /\ Len(out_buf.bytes) <= MAXMESSAGELEN
  /\ inflags \subseteq {"POLLIN", "POLLHUP"} /\ outflags \subseteq {"POLLOUT", "POLLHUP"}
  /\ timeout \in {-1, 5}
  /\ {closed, reader, caught, streaming_is_on} \subseteq BOOLEAN

(***************************************************************************)
(* A read() overwrites no whole frame, although it is offered the memory   *)
(* of the oldest bytes when the input buffer is full: each pass takes a    *)
(* frame, or drops a bad one, before the next read.  A refused frame is    *)
(* the exception; the bytes read then push it out.                         *)
(***************************************************************************)
ReadsKeepFrames ==
  [][do_input /\ ~Raw /\ ~Refused(in_buf)
       => LET n == Len(pipe) - Len(pipe')
          IN  \A f \in FramesIn(in_buf) : <<f[1] + n, f[2] + n>> \in FramesIn(in_buf')]_vars

(***************************************************************************)
(* "Do we need to process data in the input buffer?  If so, poll with      *)
(* short timeout": the program does not wait for ever for the host while   *)
(* it has a whole frame to process.                                        *)
(***************************************************************************)
WholeFramesAreTaken == Raw \/ []<>(~FrameWaits \/ Ended)

(***************************************************************************)
(* Whole frames are taken unless the last pass ended in an exception,      *)
(* which skips setting the timeout: the next poll has that of an earlier   *)
(* pass.                                                                   *)
(***************************************************************************)
WholeFramesAreTakenWithoutException ==
  Raw \/ []<>(~FrameWaits \/ Ended \/ (caught /\ timeout = -1))

(***************************************************************************)
(* Output is written while the host reads it, though poll may be waiting   *)
(* without a timeout, and though exceptions end passes; what stops it is a *)
(* refused frame, since the pass then always ends before do_output.        *)
(***************************************************************************)
OutputIsWritten ==
  \/ []<>(output = <<>> \/ Ended \/ Refused(in_buf))
  \/ []<><<do_output /\ Len(output') < Len(output)>>_vars

(***************************************************************************)
(* When the host has closed its end the program ends, after whatever       *)
(* exceptions and with whatever timeout.  Two things keep it going: a      *)
(* refused frame, which ends every pass before do_output, and bytes that   *)
(* are part of no whole frame, when there is nothing else left; the        *)
(* program then polls for ever, and poll returns at once.                  *)
(***************************************************************************)
OnlyUnfinishedBytes == in_buf # <<>> /\ FramesIn(in_buf) = {} /\ output = <<>>

HangUpEndsTheProgram ==
  []<>(~closed \/ Ended \/ Refused(in_buf) \/ OnlyUnfinishedBytes)

(***************************************************************************)
(* While the host still reads, the program ends (but for an exception that *)
(* it does not survive) only when the host has closed its end, and not     *)
(* before it has written all of its output and taken all of the input in   *)
(* its buffer.  What is in the pipe and not yet read is not promised.      *)
(***************************************************************************)
HangUpLeavesEmptyBuffers ==
  [][~Ended /\ pc' = 0 /\ ~At("receive") /\ reader
       => closed /\ output = <<>> /\ in_buf = <<>>]_vars

=============================================================================
