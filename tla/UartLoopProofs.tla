--------------------------- MODULE UartLoopProofs ---------------------------
(***************************************************************************)
(* The microcontroller programs lose no byte that has room, keep the order *)
(* of the bytes, start the timer of the samples and stream whole messages: *)
(* for every set of scripts, all sizes of the buffers, and whatever the    *)
(* register handlers answer.                                               *)
(***************************************************************************)
EXTENDS UartLoop, ByteQueueLemmas

(* What is proved of get_message_from_input_buffer and of                  *)
(* put_message_in_output_buffer, of which the loops make use.              *)
In == INSTANCE AscInputProofs
        WITH Messages <- {}, NoiseBytes <- {}, MaxErrors <- 0,
             ignoreCRCMismatch <- IgnoresCRC, got <- NoMessage, errors <- 0

Out == INSTANCE AscOutputProofs
        WITH Puts <- {}, Payloads <- {}, Errors <- {}, err <- "none"

(* convert_uint16_to_hex writes four characters; answers are of bytes.     *)
CrcYieldsDigits == Out!CrcYieldsDigits
RepliesAreMessages == \A m : Out!IsMessage(m) => Out!IsMessage(Reply(m))

(* The loops call the functions of which the two modules prove something:  *)
(* get_message_from_input_buffer.                                          *)
LEMMA SameGet ==
  ASSUME NEW buf, NEW ignore
  PROVE  In!get_message_from_input_buffer(buf, ignore)
           = get_message_from_input_buffer(buf, ignore)
  BY DEF In!get_message_from_input_buffer, get_message_from_input_buffer,
     In!get_message, get_message, In!synchronised, synchronised,
     In!remove_front_unfinished_frames, remove_front_unfinished_frames,
     In!FrontFrame, FrontFrame, In!Completes, Completes, In!Opens, Opens,
     In!unpack, unpack, In!frame_ends, frame_ends, In!input_checksum, input_checksum,
     In!pop_bad_frame, pop_bad_frame, In!remove_front_to, remove_front_to,
     In!checksum_error, checksum_error, In!find_first, find_first,
     In!Take, Take, In!Drop, Drop, In!Where, Where, In!Min, Min, In!Max, Max,
     In!Nothing, Nothing, In!Throws, Throws, In!NoMessage, NoMessage,
     In!Message, Message, In!Gt, Gt, In!Nl, Nl, In!Dot, Dot

(* put_message_in_output_buffer. *)
LEMMA SamePut ==
  ASSUME NEW buf, NEW m
  PROVE  Out!put_message(buf, m) = put_message(buf, m)
  BY DEF Out!put_message, put_message, Out!Outcome, Outcome,
     Out!push_all, push_all, Out!KeepLast, KeepLast, Out!Drop, Drop,
     Out!checksum_error, checksum_error, Out!output_checksums, output_checksums,
     Out!RunsOut, RunsOut, Out!StartOf, StartOf, Out!StopOf, StopOf,
     Out!find_last, find_last, Out!Where, Where, Out!Max, Max,
     Out!Body, Body, Out!Gt, Gt, Out!Dot, Dot, Out!Nl, Nl

(* The sizes are naturals. *)
LEMMA Sizes ==
  /\ MAXMESSAGELEN \in Nat /\ MAXMESSAGELEN > 0
  /\ ExtraSize \in Nat /\ ExtraSize > 0
  /\ CounterRange \in Nat /\ CounterRange > 0 /\ CounterRange <= 256
  BY SizesAssumption, UartAssumption, OutputAssumption

----------------------------------------------------------------------------
(* The passes of the loops.                                                *)

StepNames ==
  {"transmit", "test", "load", "store", "push", "receive", "getc", "save_state",
   "set_timer", "start_conversion", "stream"}

(* c is a with b behind it, element by element.                            *)
IsJoin(a, b, c) ==
  /\ a \in Seq(StepNames) /\ b \in Seq(StepNames) /\ c \in Seq(StepNames)
  /\ Len(c) = Len(a) + Len(b)
  /\ \A i \in 1 .. Len(a) : c[i] = a[i]
  /\ \A i \in 1 .. Len(b) : c[Len(a) + i] = b[i]

(* Then it is their concatenation. *)
LEMMA Joined ==
  ASSUME NEW a, NEW b, NEW c, IsJoin(a, b, c)
  PROVE  a \o b = c
<1> DEFINE d == a \o b
<1>1. a \in Seq(StepNames) /\ b \in Seq(StepNames) /\ c \in Seq(StepNames)
  BY DEF IsJoin
<1>2. /\ d \in Seq(StepNames) /\ Len(d) = Len(a) + Len(b)
      /\ \A i \in 1 .. Len(a) + Len(b) :
            d[i] = IF i <= Len(a) THEN a[i] ELSE b[i - Len(a)]
  BY <1>1, ConcatProperties
<1> HIDE DEF d
<1>3. ASSUME NEW i \in 1 .. Len(d) PROVE d[i] = c[i]
  <2>1. Len(a) \in Nat /\ Len(b) \in Nat /\ i \in 1 .. Len(a) + Len(b)
    BY <1>1, <1>2, LenProperties
  <2>2. d[i] = IF i <= Len(a) THEN a[i] ELSE b[i - Len(a)]
    BY <1>2, <2>1
  <2>3. CASE i <= Len(a)
    BY <2>1, <2>2, <2>3 DEF IsJoin
  <2>4. CASE ~(i <= Len(a))
    <3>1. i - Len(a) \in 1 .. Len(b) /\ Len(a) + (i - Len(a)) = i
      BY <2>1, <2>4
    <3>2. c[Len(a) + (i - Len(a))] = b[i - Len(a)]
      BY <3>1 DEF IsJoin
    <3> QED BY <2>2, <2>4, <3>1, <3>2
  <2> QED BY <2>3, <2>4
<1>4. d = c
  <2>1. Len(c) = Len(d)
    BY <1>2 DEF IsJoin
  <2> QED BY <1>1, <1>2, <1>3, <2>1, SeqEqual
<1> QED BY <1>4 DEF d

PollPass == <<"transmit", "test", "load", "store", "push", "receive">>
AdcPass == <<"save_state", "transmit", "test", "load", "store", "push", "receive",
             "set_timer", "start_conversion", "stream">>
GetcPass == <<"transmit", "test", "load", "store", "push", "receive", "getc">>
TestDevicePass == <<"test", "load", "store", "push", "receive", "stream", "transmit">>
AnswerPass == <<"test", "load", "store", "push", "receive", "transmit">>
PatternPass == <<"stream", "transmit">>

OtherPasses == {PollPass, GetcPass, TestDevicePass, AnswerPass, PatternPass}
Passes == {AdcPass} \cup OtherPasses

AdcPrograms == {"avr_adc_streaming", "arm_adc_streaming", "arm_counter_streaming"}

(* Each program's pass, step by step. *)
LEMMA PassOfProgram ==
  ASSUME program \in UartPrograms
  PROVE  /\ Steps \in Passes
         /\ program \in AdcPrograms => Steps = AdcPass
         /\ program \notin AdcPrograms => Steps \in OtherPasses
<1> DEFINE x == <<"transmit", "test", "load", "store", "push">>
           y == <<"save_state", "transmit", "test", "load", "store", "push", "receive">>
           z == <<"set_timer", "start_conversion", "stream">>
<1>1. /\ IsJoin(<<"transmit">>, Move, x) /\ IsJoin(x, <<"receive">>, PollPass)
      /\ IsJoin(<<"save_state">>, PollPass, y) /\ IsJoin(y, z, AdcPass)
      /\ IsJoin(PollPass, <<"getc">>, GetcPass)
      /\ IsJoin(Move, <<"receive", "stream", "transmit">>, TestDevicePass)
      /\ IsJoin(Move, <<"receive", "transmit">>, AnswerPass)
  BY DEF IsJoin, StepNames, Move, PollPass, AdcPass, GetcPass, TestDevicePass, AnswerPass
<1> HIDE DEF x, y
<1>2. /\ <<"transmit">> \o Move = x /\ x \o <<"receive">> = PollPass
      /\ <<"save_state">> \o PollPass = y /\ y \o z = AdcPass
      /\ PollPass \o <<"getc">> = GetcPass
      /\ Move \o <<"receive", "stream", "transmit">> = TestDevicePass
      /\ Move \o <<"receive", "transmit">> = AnswerPass
  BY <1>1, Joined
<1>3. HANDLE_ASC_COMM_IN_POLLING_LOOP = PollPass
  BY <1>2, Zenon DEF HANDLE_ASC_COMM_IN_POLLING_LOOP
<1>4. /\ AvrAdcStreaming = AdcPass /\ ArmAdcStreaming = AdcPass
      /\ ArmPulser = PollPass
      /\ Neorv32Gpio = GetcPass /\ Neorv32PulseCounter = GetcPass
      /\ AvrTestDevice = TestDevicePass
      /\ AvrRegisterBlock = AnswerPass /\ AvrRegisterPointers = AnswerPass
      /\ AvrLoopback = AnswerPass /\ ArmLoopback = AnswerPass
      /\ AvrPattern = PatternPass
  BY <1>2, <1>3, Zenon DEF AvrAdcStreaming, ArmAdcStreaming, ArmPulser, Neorv32Gpio,
     Neorv32PulseCounter, AvrTestDevice, AvrRegisterBlock, AvrRegisterPointers,
     AvrLoopback, ArmLoopback, AvrPattern, PatternPass
<1>5. program \in AdcPrograms => Steps = AdcPass
  BY <1>4 DEF Steps, AdcPrograms
<1>6. program \in UartPrograms \ AdcPrograms => Steps \in OtherPasses
  BY <1>4 DEF Steps, UartPrograms, AdcPrograms, OtherPasses
<1> QED BY <1>5, <1>6 DEF Passes

(***************************************************************************)
(* What comes after a step: the four steps of a move follow each other,    *)
(* and nothing else leads into them.                                       *)
(***************************************************************************)
Follows(a, b) ==
  /\ b \in StepNames
  /\ a = "test" => b = "load"
  /\ a = "load" => b = "store"
  /\ a = "store" => b = "push"
  /\ a = "push" => b = "receive"
  /\ a \notin {"test", "load", "store"} => b \notin {"load", "store", "push"}
  /\ a \notin {"push", "receive"} => b \notin {"receive", "getc"}

(* It is so in each pass. *)
LEMMA InEachPass ==
  ASSUME NEW s \in Passes, NEW i \in 1 .. Len(s)
  PROVE  /\ Len(s) \in Nat /\ Len(s) > 0
         /\ s[i] \in StepNames
         /\ ((i + 1 - 1) % Len(s)) + 1 \in 1 .. Len(s)
         /\ Follows(s[i], s[((i + 1 - 1) % Len(s)) + 1])
         /\ s[i] = "test" => /\ ((i + 4 - 1) % Len(s)) + 1 \in 1 .. Len(s)
                             /\ s[((i + 4 - 1) % Len(s)) + 1] = "receive"
         /\ s = AdcPass => (s[i] = "receive" <=> s[((i + 1 - 1) % Len(s)) + 1] = "set_timer")
<1>1. CASE s = PollPass
  <2>1. i \in 1 .. 6
    BY <1>1 DEF PollPass
  <2> QED BY <1>1, <2>1 DEF PollPass, AdcPass, Follows, StepNames
<1>2. CASE s = AdcPass
  <2>1. i \in 1 .. 10
    BY <1>2 DEF AdcPass
  <2> QED BY <1>2, <2>1 DEF AdcPass, Follows, StepNames
<1>3. CASE s = GetcPass
  <2>1. i \in 1 .. 7
    BY <1>3 DEF GetcPass
  <2> QED BY <1>3, <2>1 DEF GetcPass, AdcPass, Follows, StepNames
<1>4. CASE s = TestDevicePass
  <2>1. i \in 1 .. 7
    BY <1>4 DEF TestDevicePass
  <2> QED BY <1>4, <2>1 DEF TestDevicePass, AdcPass, Follows, StepNames
<1>5. CASE s = AnswerPass
  <2>1. i \in 1 .. 6
    BY <1>5 DEF AnswerPass
  <2> QED BY <1>5, <2>1 DEF AnswerPass, AdcPass, Follows, StepNames
<1>6. CASE s = PatternPass
  <2>1. i \in 1 .. 2
    BY <1>6 DEF PatternPass
  <2> QED BY <1>6, <2>1 DEF PatternPass, AdcPass, Follows, StepNames
<1> QED BY <1>1, <1>2, <1>3, <1>4, <1>5, <1>6 DEF Passes, OtherPasses

----------------------------------------------------------------------------
(* The step that is next.                                                  *)
Now == IF Ended THEN "ended" ELSE Steps[pc]

(* At says the same, now and after a step. *)
LEMMA AtNow ==
  ASSUME NEW x \in StepNames
  PROVE  /\ At(x) <=> Now = x
         /\ At(x)' <=> Now' = x
<1>1. x # "ended"
  BY DEF StepNames
<1> QED BY <1>1 DEF At, Now

(* What runs is one of the programs, with a bound of at most one byte. *)
LEMMA SetupType ==
  ASSUME setup \in Setups
  PROVE  /\ program \in UartPrograms /\ setup.script \in Seq(0 .. 255)
         /\ setup.losses \in 0 .. 1
  BY UartAssumption DEF program

(* No step changes the pass. *)
LEMMA SamePass ==
  ASSUME setup' = setup
  PROVE  Steps' = Steps /\ program' = program
<1>1. program' = program
  BY DEF program
<1> QED BY <1>1 DEF Steps

(***************************************************************************)
(* Where the steps of the loop lead.                                       *)
(***************************************************************************)
IsCaught(a) == a \in StepNames \ {"load", "store", "push", "receive", "getc", "set_timer"}

(* A step leads on in its pass, behind the move of a byte, or out of the pass. *)
LEMMA Moves ==
  ASSUME setup \in Setups, setup' = setup, pc \in 1 .. Len(Steps)
  PROVE  /\ Now \in StepNames /\ ~Ended
         /\ Advance => /\ pc' \in 1 .. Len(Steps)
                       /\ Follows(Now, Now')
                       /\ program \in AdcPrograms => (Now = "receive" <=> Now' = "set_timer")
         /\ At("test") /\ Skip(Len(Move)) => pc' \in 1 .. Len(Steps) /\ Now' = "receive"
         /\ Catch => pc' \in 1 .. Len(Steps) /\ IsCaught(Now')
         /\ pc' = 0 => Now' = "ended"
         /\ pc' = pc => Now' = Now
<1> DEFINE s == Steps
           j == ((pc + 1 - 1) % Len(s)) + 1
           k == ((pc + 4 - 1) % Len(s)) + 1
<1>1. program \in UartPrograms
  BY SetupType
<1>2. s \in Passes /\ (program \in AdcPrograms => s = AdcPass)
  BY <1>1, PassOfProgram
<1>3. Steps' = s
  BY SamePass
<1>4. pc \in 1 .. Len(s) /\ pc # 0
  OBVIOUS
<1> HIDE DEF s
<1>5. /\ Len(s) \in Nat /\ Len(s) > 0
      /\ s[pc] \in StepNames
      /\ j \in 1 .. Len(s)
      /\ Follows(s[pc], s[j])
      /\ s[pc] = "test" => k \in 1 .. Len(s) /\ s[k] = "receive"
      /\ s = AdcPass => (s[pc] = "receive" <=> s[j] = "set_timer")
  BY <1>2, <1>4, InEachPass
<1>6. IsCaught(s[1])
  BY <1>2 DEF Passes, OtherPasses, IsCaught, StepNames, PollPass, AdcPass, GetcPass, TestDevicePass,
     AnswerPass, PatternPass
<1>7. Now = s[pc] /\ ~Ended
  BY <1>4 DEF Now, Ended, s
<1>8. ASSUME NEW n \in 1 .. Len(s), pc' = n PROVE Now' = s[n]
  BY <1>3, <1>5, <1>8 DEF Now, Ended
<1>9. Now \in StepNames
  BY <1>5, <1>7
<1>10. Advance => /\ pc' \in 1 .. Len(s)
                  /\ Follows(Now, Now')
                  /\ program \in AdcPrograms => (Now = "receive" <=> Now' = "set_timer")
  <2>1. Advance => pc' = j
    BY Zenon DEF Advance, Skip, s
  <2> HIDE DEF j
  <2> QED BY <1>2, <1>5, <1>7, <1>8, <2>1
<1>11. At("test") /\ Skip(Len(Move)) => pc' \in 1 .. Len(s) /\ Now' = "receive"
  <2>1. Len(Move) = 4
    BY DEF Move
  <2>2. Skip(Len(Move)) => pc' = k
    BY <2>1, Zenon DEF Skip, s
  <2>3. At("test") => s[pc] = "test"
    BY DEF At, s
  <2> HIDE DEF k
  <2> QED BY <1>5, <1>8, <2>2, <2>3
<1>12. Catch => pc' \in 1 .. Len(s) /\ IsCaught(Now')
  <2>1. Catch => pc' = 1
    BY <1>1 DEF Catch, UartPrograms
  <2>2. 1 \in 1 .. Len(s)
    BY <1>5
  <2> QED BY <1>6, <1>8, <2>1, <2>2
<1>13. pc' = 0 => Now' = "ended"
  BY DEF Now, Ended
<1>14. pc' = pc => Now' = Now
  BY <1>4, <1>7, <1>8
<1> QED BY <1>7, <1>9, <1>10, <1>11, <1>12, <1>13, <1>14 DEF s

----------------------------------------------------------------------------
(* The bytes under way.                                                    *)

(* What it is to be the end of a sequence, byte by byte. *)
LEMMA EndsMeans ==
  ASSUME NEW S, NEW b \in Seq(S), NEW s \in Seq(S)
  PROVE  Ends(b, s) <=> /\ Len(b) <= Len(s)
                        /\ \A i \in 1 .. Len(b) : b[i] = s[Len(s) - Len(b) + i]
<1> DEFINE k == KeepLast(s, Len(b))
<1>1. Len(b) \in Nat /\ Len(s) \in Nat
  BY LenProperties
<1>2. /\ k \in Seq(S)
      /\ Len(k) = IF Len(s) > Len(b) THEN Len(b) ELSE Len(s)
      /\ \A i \in 1 .. Len(k) : k[i] = s[Len(s) - Len(k) + i]
  BY <1>1, Keeping
<1>3. Ends(b, s) <=> Len(b) <= Len(s) /\ k = b
  BY DEF Ends
<1> HIDE DEF k
<1>4. ASSUME Len(b) <= Len(s) PROVE Len(k) = Len(b)
  BY <1>1, <1>2, <1>4
<1>5. ASSUME Len(b) <= Len(s), k = b
      PROVE  \A i \in 1 .. Len(b) : b[i] = s[Len(s) - Len(b) + i]
  BY <1>2, <1>4, <1>5
<1>6. ASSUME Len(b) <= Len(s), \A i \in 1 .. Len(b) : b[i] = s[Len(s) - Len(b) + i]
      PROVE  k = b
  <2>1. Len(k) = Len(b)
    BY <1>4, <1>6
  <2>2. \A i \in 1 .. Len(k) : k[i] = b[i]
    BY <1>2, <1>6, <2>1
  <2> QED BY <1>2, <2>1, <2>2, SeqEqual
<1> QED BY <1>3, <1>5, <1>6

(* The end of an end. *)
LEMMA FewerEnd ==
  ASSUME NEW S, NEW x \in Seq(S), NEW y \in Seq(S), NEW s \in Seq(S), Ends(x \o y, s)
  PROVE  Ends(y, s)
<1> DEFINE b == x \o y
<1>1. /\ Len(x) \in Nat /\ Len(y) \in Nat /\ Len(s) \in Nat
  BY LenProperties
<1>2. /\ b \in Seq(S) /\ Len(b) = Len(x) + Len(y)
      /\ \A i \in 1 .. Len(x) + Len(y) : b[i] = IF i <= Len(x) THEN x[i] ELSE y[i - Len(x)]
  BY ConcatProperties
<1>3. Ends(b, s)
  OBVIOUS
<1> HIDE DEF b
<1>4. Len(b) <= Len(s) /\ \A i \in 1 .. Len(b) : b[i] = s[Len(s) - Len(b) + i]
  BY <1>2, <1>3, EndsMeans
<1>5. ASSUME NEW i \in 1 .. Len(y) PROVE y[i] = s[Len(s) - Len(y) + i]
  <2> DEFINE j == Len(x) + i
  <2>1. j \in 1 .. Len(b) /\ ~(j <= Len(x)) /\ j - Len(x) = i
    BY <1>1, <1>2
  <2>2. Len(s) - Len(b) + j = Len(s) - Len(y) + i
    BY <1>1, <1>2
  <2> HIDE DEF j
  <2>3. b[j] = y[i]
    BY <1>2, <2>1
  <2>4. b[j] = s[Len(s) - Len(b) + j]
    BY <1>4, <2>1
  <2> QED BY <2>2, <2>3, <2>4
<1>6. Len(y) <= Len(s)
  BY <1>1, <1>2, <1>4
<1> QED BY <1>5, <1>6, EndsMeans

(* x, c and y are an end of s. *)
EndsInThree(x, c, y, s) == Ends(x \o (<<c>> \o y), s)

(* An end with a byte taken out is an end of the sequence without that byte. *)
LEMMA OneLost ==
  ASSUME NEW S, NEW x \in Seq(S), NEW c \in S, NEW y \in Seq(S), NEW s \in Seq(S),
         EndsInThree(x, c, y, s)
  PROVE  \E i \in 1 .. Len(s) : Ends(x \o y, Take(s, i - 1) \o Drop(s, i))
<1> DEFINE z == <<c>> \o y
           b == x \o z
           d == x \o y
           i == Len(s) - Len(y)
           p == Take(s, i - 1)
           q == Drop(s, i)
           t == p \o q
           o == Len(s) - Len(b)
<1>1. Len(x) \in Nat /\ Len(y) \in Nat /\ Len(s) \in Nat
  BY LenProperties
<1>2. /\ z \in Seq(S) /\ Len(z) = Len(y) + 1
      /\ \A j \in 1 .. Len(y) : z[j + 1] = y[j]
  <2>1. <<c>> \in Seq(S) /\ Len(<<c>>) = 1
    OBVIOUS
  <2>2. /\ z \in Seq(S) /\ Len(z) = 1 + Len(y)
        /\ \A j \in 1 .. 1 + Len(y) : z[j] = IF j <= 1 THEN <<c>>[j] ELSE y[j - 1]
    BY <2>1, ConcatProperties
  <2> HIDE DEF z
  <2>3. ASSUME NEW j \in 1 .. Len(y) PROVE z[j + 1] = y[j]
    <3>1. j + 1 \in 1 .. 1 + Len(y) /\ ~(j + 1 <= 1) /\ j + 1 - 1 = j
      BY <1>1
    <3>2. z[j + 1] = y[j + 1 - 1]
      BY <2>2, <3>1
    <3> QED BY <3>1, <3>2
  <2> QED BY <1>1, <2>2, <2>3
<1> HIDE DEF z
<1>3. /\ b \in Seq(S) /\ Len(b) = Len(x) + Len(z)
      /\ \A j \in 1 .. Len(x) + Len(z) : b[j] = IF j <= Len(x) THEN x[j] ELSE z[j - Len(x)]
  BY <1>2, ConcatProperties
<1>4. /\ d \in Seq(S) /\ Len(d) = Len(x) + Len(y)
      /\ \A j \in 1 .. Len(x) + Len(y) : d[j] = IF j <= Len(x) THEN x[j] ELSE y[j - Len(x)]
  BY ConcatProperties
<1>5. Ends(b, s)
  BY DEF z, EndsInThree
<1> HIDE DEF b, d
<1>6. Len(b) <= Len(s) /\ \A j \in 1 .. Len(b) : b[j] = s[o + j]
  BY <1>3, <1>5, EndsMeans
<1>7. i \in 1 .. Len(s) /\ i - 1 \in 0 .. Len(s) /\ i \in 0 .. Len(s)
      /\ o \in Nat /\ o + Len(x) = i - 1
  BY <1>1, <1>2, <1>3, <1>6
<1>8. /\ p \in Seq(S) /\ Len(p) = i - 1 /\ \A j \in 1 .. i - 1 : p[j] = s[j]
  BY <1>7, Taking
<1>9. /\ q \in Seq(S) /\ Len(q) = Len(s) - i /\ \A j \in 1 .. Len(s) - i : q[j] = s[i + j]
  BY <1>7, Dropping
<1> HIDE DEF p, q, i, o
<1>10. /\ t \in Seq(S) /\ Len(t) = Len(p) + Len(q)
       /\ \A j \in 1 .. Len(p) + Len(q) : t[j] = IF j <= Len(p) THEN p[j] ELSE q[j - Len(p)]
  BY <1>8, <1>9, ConcatProperties
<1> HIDE DEF t
<1>11. Len(t) = Len(s) - 1 /\ Len(d) = Len(b) - 1 /\ Len(d) <= Len(t)
       /\ Len(t) - Len(d) = o
  BY <1>1, <1>2, <1>3, <1>4, <1>6, <1>7, <1>8, <1>9, <1>10 DEF o
<1>12. ASSUME NEW j \in 1 .. Len(d) PROVE d[j] = t[o + j]
  <2>1. CASE j <= Len(x)
    <3>1. o + j \in 1 .. i - 1 /\ j \in 1 .. Len(b)
      <4>1. o \in Nat /\ i \in Nat /\ o + Len(x) = i - 1
        BY <1>7
      <4>2. Len(x) \in Nat /\ Len(z) \in Nat /\ Len(b) = Len(x) + Len(z)
        BY <1>1, <1>2, <1>3
      <4>3. j \in Nat /\ 1 <= j
        <5>1. j \in 1 .. Len(x) + Len(y)
          BY <1>4
        <5> QED BY <1>1, <5>1
      <4> QED BY <2>1, <4>1, <4>2, <4>3
    <3>2. d[j] = x[j] /\ b[j] = x[j]
      BY <1>1, <1>2, <1>3, <1>4, <2>1
    <3>3. t[o + j] = s[o + j]
      <4>1. o + j \in 1 .. Len(p) + Len(q) /\ o + j <= Len(p)
        BY <1>7, <1>8, <1>9, <3>1
      <4>2. t[o + j] = p[o + j]
        BY <1>10, <4>1
      <4> QED BY <1>8, <3>1, <4>2
    <3> QED BY <1>6, <3>1, <3>2, <3>3
  <2>2. CASE ~(j <= Len(x))
    <3> DEFINE k == j - Len(x)
               l == o + j - (i - 1)
    <3>1. /\ k \in 1 .. Len(y) /\ j + 1 \in 1 .. Len(b)
          /\ ~(j + 1 <= Len(x)) /\ j + 1 - Len(x) = k + 1
      BY <1>1, <1>2, <1>3, <1>4, <2>2
    <3>2. /\ l \in 1 .. Len(s) - i /\ i + l = o + (j + 1)
          /\ o + j \in 1 .. Len(p) + Len(q) /\ ~(o + j <= Len(p)) /\ o + j - Len(p) = l
      <4>1. /\ Len(s) \in Nat /\ Len(x) \in Nat /\ Len(y) \in Nat /\ o \in Nat /\ i \in Nat
            /\ i <= Len(s) /\ o + Len(x) = i - 1
            /\ Len(p) = i - 1 /\ Len(q) = Len(s) - i /\ i = Len(s) - Len(y)
        BY <1>1, <1>7, <1>8, <1>9 DEF i
      <4>2. o + Len(x) + Len(y) = Len(s) - 1
        BY <4>1
      <4>3. j \in Nat /\ j > Len(x) /\ j <= Len(x) + Len(y)
        <5>1. j \in 1 .. Len(x) + Len(y)
          BY <1>4
        <5> QED BY <2>2, <4>1, <5>1
      <4>4. l \in Int /\ l >= 1 /\ i + l = o + (j + 1)
        BY <4>1, <4>3
      <4>5. l <= Len(s) - i
        BY <4>1, <4>2, <4>3
      <4>6. o + j - Len(p) = l /\ o + j >= 1 /\ o + j <= Len(p) + Len(q) /\ ~(o + j <= Len(p))
        BY <4>1, <4>2, <4>3
      <4> HIDE DEF l
      <4> QED BY <4>1, <4>3, <4>4, <4>5, <4>6
    <3> HIDE DEF l
    <3>3. d[j] = y[k] /\ z[k + 1] = y[k]
      <4>1. j \in 1 .. Len(x) + Len(y)
        BY <1>4
      <4>2. d[j] = y[k]
        BY <1>4, <2>2, <4>1
      <4> HIDE DEF k
      <4> QED BY <1>2, <3>1, <4>2
    <3>4. b[j + 1] = z[k + 1]
      BY <1>3, <3>1
    <3>5. t[o + j] = s[i + l]
      <4>1. PICK v \in 1 .. Len(p) + Len(q) : v = o + j
        BY <3>2
      <4>2. ~(v <= Len(p)) /\ v - Len(p) = l
        BY <1>7, <1>8, <3>2, <4>1
      <4>3. t[v] = q[v - Len(p)]
        BY <1>10, <4>2
      <4>4. q[l] = s[i + l]
        BY <1>9, <3>2
      <4> QED BY <4>1, <4>2, <4>3, <4>4
    <3> QED BY <1>6, <3>1, <3>2, <3>3, <3>4, <3>5
  <2> QED BY <2>1, <2>2
<1>13. Ends(d, t)
  BY <1>4, <1>10, <1>11, <1>12, EndsMeans
<1> QED BY <1>7, <1>13 DEF d, t, p, q, i

(* The end of a sequence without n of its bytes. *)
EndsWithout(b, s, n) == \E t \in Without(s, n) : Ends(b, t)

(* Such a sequence has no other bytes. *)
LEMMA WithoutType ==
  ASSUME NEW S, NEW s \in Seq(S), NEW n \in 0 .. 1, NEW t \in Without(s, n)
  PROVE  t \in Seq(S) /\ \A i \in 1 .. Len(t) : \E j \in 1 .. Len(s) : t[i] = s[j]
<1>1. CASE n = 0
  BY <1>1 DEF Without
<1>2. CASE n = 1
  <2>1. PICK k \in 1 .. Len(s) : t = Take(s, k - 1) \o Drop(s, k)
    BY <1>2 DEF Without
  <2> DEFINE p == Take(s, k - 1)
             q == Drop(s, k)
  <2>2. Len(s) \in Nat /\ k - 1 \in 0 .. Len(s) /\ k \in 0 .. Len(s)
    BY LenProperties
  <2>3. p \in Seq(S) /\ Len(p) = k - 1 /\ \A i \in 1 .. k - 1 : p[i] = s[i]
    BY <2>2, Taking
  <2>4. q \in Seq(S) /\ Len(q) = Len(s) - k /\ \A i \in 1 .. Len(s) - k : q[i] = s[k + i]
    BY <2>2, Dropping
  <2> HIDE DEF p, q
  <2>5. /\ t \in Seq(S) /\ Len(t) = Len(p) + Len(q)
        /\ \A i \in 1 .. Len(p) + Len(q) : t[i] = IF i <= Len(p) THEN p[i] ELSE q[i - Len(p)]
    <3>1. t = p \o q
      BY <2>1 DEF p, q
    <3> QED BY <2>3, <2>4, <3>1, ConcatProperties
  <2>6. ASSUME NEW i \in 1 .. Len(t) PROVE \E j \in 1 .. Len(s) : t[i] = s[j]
    <3>1. CASE i <= Len(p)
      <4>1. t[i] = p[i] /\ i \in 1 .. k - 1 /\ i \in 1 .. Len(s)
        BY <2>2, <2>3, <2>4, <2>5, <3>1
      <4> QED BY <2>3, <4>1
    <3>2. CASE ~(i <= Len(p))
      <4>1. PICK l \in 1 .. Len(s) - k : l = i - Len(p)
        BY <2>2, <2>3, <2>4, <2>5, <3>2
      <4>2. t[i] = q[l] /\ q[l] = s[k + l] /\ k + l \in 1 .. Len(s)
        BY <2>2, <2>3, <2>4, <2>5, <3>2, <4>1
      <4> QED BY <4>2
    <3> QED BY <3>1, <3>2
  <2> QED BY <2>5, <2>6
<1> QED BY <1>1, <1>2

(* Bytes in front may go. *)
LEMMA FewerWithout ==
  ASSUME NEW S, NEW s \in Seq(S), NEW n \in 0 .. 1, NEW x \in Seq(S), NEW y \in Seq(S),
         EndsWithout(x \o y, s, n)
  PROVE  EndsWithout(y, s, n)
<1>1. PICK t \in Without(s, n) : Ends(x \o y, t)
  BY DEF EndsWithout
<1>2. t \in Seq(S)
  BY WithoutType
<1>3. Ends(y, t)
  BY <1>1, <1>2, FewerEnd
<1> QED BY <1>3 DEF EndsWithout

(* One byte may go where it is, if none has gone yet. *)
LEMMA LostWithout ==
  ASSUME NEW S, NEW s \in Seq(S), NEW x \in Seq(S), NEW c \in S, NEW y \in Seq(S),
         EndsWithout(x \o (<<c>> \o y), s, 0)
  PROVE  EndsWithout(x \o y, s, 1)
<1>1. Ends(x \o (<<c>> \o y), s)
  BY DEF EndsWithout, Without
<1>2. PICK i \in 1 .. Len(s) : Ends(x \o y, Take(s, i - 1) \o Drop(s, i))
  <2>1. EndsInThree(x, c, y, s)
    BY <1>1 DEF EndsInThree
  <2> QED BY <2>1, OneLost
<1>3. Take(s, i - 1) \o Drop(s, i) \in Without(s, 1)
  <2>1. 1 # 0
    OBVIOUS
  <2>2. Without(s, 1) = {Take(s, j - 1) \o Drop(s, j) : j \in 1 .. Len(s)}
    BY <2>1, Zenon DEF Without
  <2> QED BY <2>2, Zenon
<1> QED BY <1>2, <1>3 DEF EndsWithout

(* A byte that is there is one of the sequence. *)
LEMMA WithoutContains ==
  ASSUME NEW S, NEW s \in Seq(S), NEW n \in 0 .. 1,
         NEW x \in Seq(S), NEW c \in S, NEW y \in Seq(S),
         EndsWithout(x \o (<<c>> \o y), s, n)
  PROVE  Where(s, c) # {}
<1> DEFINE z == <<c>> \o y
<1>1. <<c>> \in Seq(S) /\ Len(<<c>>) = 1 /\ <<c>>[1] = c
  OBVIOUS
<1>2. z \in Seq(S) /\ Len(z) = 1 + Len(y) /\ z[1] = c
  <2>1. /\ z \in Seq(S) /\ Len(z) = 1 + Len(y)
        /\ \A j \in 1 .. 1 + Len(y) : z[j] = IF j <= 1 THEN <<c>>[j] ELSE y[j - 1]
    BY <1>1, ConcatProperties
  <2>2. Len(y) \in Nat
    BY LenProperties
  <2> QED BY <1>1, <2>1, <2>2
<1>3. EndsWithout(z, s, n)
  <2>1. EndsWithout(x \o z, s, n)
    OBVIOUS
  <2> HIDE DEF z
  <2> QED BY <1>2, <2>1, FewerWithout
<1> HIDE DEF z
<1>4. PICK t \in Without(s, n) : Ends(z, t)
  BY <1>3 DEF EndsWithout
<1>5. t \in Seq(S) /\ \A i \in 1 .. Len(t) : \E j \in 1 .. Len(s) : t[i] = s[j]
  BY WithoutType
<1>6. Len(z) <= Len(t) /\ \A i \in 1 .. Len(z) : z[i] = t[Len(t) - Len(z) + i]
  BY <1>2, <1>4, <1>5, EndsMeans
<1>7. Len(y) \in Nat /\ Len(t) \in Nat
  BY <1>5, LenProperties
<1>8. PICK k \in 1 .. Len(t) : k = Len(t) - Len(z) + 1
  BY <1>2, <1>6, <1>7
<1>9. t[k] = c
  <2>1. 1 \in 1 .. Len(z)
    BY <1>2, <1>7
  <2>2. z[1] = t[Len(t) - Len(z) + 1]
    BY <1>6, <2>1
  <2> QED BY <1>2, <1>8, <2>2
<1> QED BY <1>5, <1>9 DEF Where

(* A byte may be seen as the last of what is in front of it. *)
LEMMA ByteFurther ==
  ASSUME NEW S, NEW a \in Seq(S), NEW c \in S, NEW b \in Seq(S)
  PROVE  a \o (<<c>> \o b) = Append(a, c) \o b
<1>1. <<c>> \in Seq(S)
  OBVIOUS
<1>2. Append(a, c) = a \o <<c>>
  BY AppendIsConcat
<1>3. (a \o <<c>>) \o b = a \o (<<c>> \o b)
  BY <1>1, ConcatAssociative
<1> QED BY <1>2, <1>3

(* A sequence is its first element and the others. *)
LEMMA HeadThenTail ==
  ASSUME NEW S, NEW s \in Seq(S), s # <<>>
  PROVE  /\ Head(s) \in S /\ Tail(s) \in Seq(S) /\ Len(Tail(s)) = Len(s) - 1
         /\ <<Head(s)>> \o Tail(s) = s
<1> DEFINE h == Head(s)
           t == Tail(s)
           u == <<h>> \o t
<1>1. /\ h \in S /\ t \in Seq(S) /\ Len(t) = Len(s) - 1
      /\ \A i \in 1 .. Len(t) : t[i] = s[i + 1]
  BY HeadTailProperties
<1>2. Len(s) \in Nat /\ Len(s) > 0 /\ h = s[1]
  BY EmptySeq, LenProperties
<1> HIDE DEF h, t
<1>3. <<h>> \in Seq(S) /\ Len(<<h>>) = 1 /\ <<h>>[1] = h
  BY <1>1
<1>4. /\ u \in Seq(S) /\ Len(u) = 1 + Len(t)
      /\ \A i \in 1 .. 1 + Len(t) : u[i] = IF i <= 1 THEN <<h>>[i] ELSE t[i - 1]
  BY <1>1, <1>3, ConcatProperties
<1> HIDE DEF u
<1>5. ASSUME NEW i \in 1 .. Len(u) PROVE u[i] = s[i]
  <2>1. CASE i = 1
    BY <1>1, <1>2, <1>3, <1>4, <2>1
  <2>2. CASE i # 1
    <3>1. PICK j \in 1 .. Len(t) : i = j + 1
      BY <1>1, <1>2, <1>4, <2>2
    <3>2. u[i] = t[j]
      BY <1>1, <1>2, <1>4, <3>1
    <3> QED BY <1>1, <3>1, <3>2
  <2> QED BY <2>1, <2>2
<1>6. u = s
  BY <1>1, <1>2, <1>4, <1>5, SeqEqual
<1> QED BY <1>1, <1>6 DEF h, t, u

(* Concatenation is associative. *)
Associate(a, b, c) == (a \o b) \o c = a \o (b \o c)

(* Either way to put three sequences together is the same. *)
LEMMA Associative ==
  ASSUME NEW S, NEW a \in Seq(S), NEW b \in Seq(S), NEW c \in Seq(S)
  PROVE  Associate(a, b, c)
  BY ConcatAssociative DEF Associate

(* Five sequences one behind the other. *)
Five(a, b, c, d, e) == a \o (b \o (c \o (d \o e)))

(* The ways to see them as two. *)
IsRow(S, a, b, c, d, e) ==
  /\ a \o b \o c \o d \o e = Five(a, b, c, d, e)
  /\ d \o e \in Seq(S) /\ c \o (d \o e) \in Seq(S) /\ b \o (c \o (d \o e)) \in Seq(S)
  /\ (a \o b) \o (c \o (d \o e)) = Five(a, b, c, d, e)
  /\ ((a \o b) \o c) \o (d \o e) = Five(a, b, c, d, e)
  /\ (((a \o b) \o c) \o d) \o e = Five(a, b, c, d, e)
  /\ a \o b \in Seq(S) /\ (a \o b) \o c \in Seq(S) /\ ((a \o b) \o c) \o d \in Seq(S)

(* However five sequences are put together, it is the same row. *)
LEMMA FiveInARow ==
  ASSUME NEW S, NEW a \in Seq(S), NEW b \in Seq(S), NEW c \in Seq(S),
         NEW d \in Seq(S), NEW e \in Seq(S)
  PROVE  IsRow(S, a, b, c, d, e)
<1>1. /\ a \o b \in Seq(S) /\ (a \o b) \o c \in Seq(S) /\ ((a \o b) \o c) \o d \in Seq(S)
      /\ d \o e \in Seq(S) /\ c \o (d \o e) \in Seq(S) /\ b \o (c \o (d \o e)) \in Seq(S)
  BY ConcatProperties
<1> DEFINE x == a \o b
           y == x \o c
           w == d \o e
           z == c \o w
<1>2. /\ x \in Seq(S) /\ y \in Seq(S) /\ w \in Seq(S) /\ z \in Seq(S)
  BY <1>1
<1>3. Associate(a, b, z) /\ Associate(x, c, w) /\ Associate(y, d, e)
  <2> HIDE DEF x, y, w, z
  <2> QED BY <1>2, Associative
<1> QED BY <1>1, <1>3, Zenon DEF Five, Associate, IsRow

(* What is removed from the front of the first one is in front of it all. *)
LEMMA RestWithout ==
  ASSUME NEW S, NEW s \in Seq(S), NEW n \in 0 .. 1, NEW a \in Seq(S), NEW z \in Seq(S),
         NEW r, In!IsRest(r, a), EndsWithout(a \o z, s, n)
  PROVE  r \in Seq(S) /\ Len(r) <= Len(a) /\ EndsWithout(r \o z, s, n)
<1>1. PICK k \in 0 .. Len(a) : r = Drop(a, k)
  BY DEF In!IsRest, In!Drop, Drop
<1>2. Take(a, k) \in Seq(S) /\ r \in Seq(S) /\ Len(r) = Len(a) - k
  BY <1>1, Taking, Dropping
<1>3. Take(a, k) \o r = a
  BY <1>1, TakeThenDrop
<1> DEFINE t == Take(a, k)
<1>4. r \o z \in Seq(S)
  BY <1>2, ConcatProperties
<1>5. EndsWithout(t \o (r \o z), s, n)
  <2>1. t \in Seq(S) /\ t \o r = a
    BY <1>2, <1>3
  <2> HIDE DEF t
  <2>2. Associate(t, r, z)
    BY <1>2, <2>1, Associative
  <2> QED BY <2>1, <2>2, Zenon DEF Associate
<1>6. EndsWithout(r \o z, s, n)
  BY <1>2, <1>4, <1>5, FewerWithout
<1>7. Len(r) <= Len(a)
  BY <1>2, LenProperties
<1> QED BY <1>2, <1>6, <1>7

(* What the input buffer keeps is such a rest. *)
LEMMA KeepLastIsRest ==
  ASSUME NEW S, NEW a \in Seq(S), NEW n \in Nat
  PROVE  In!IsRest(KeepLast(a, n), a) /\ Len(KeepLast(a, n)) <= n
<1>1. Len(a) \in Nat
  BY LenProperties
<1>2. CASE Len(a) > n
  <2>1. KeepLast(a, n) = Drop(a, Len(a) - n) /\ Len(a) - n \in 0 .. Len(a)
    BY <1>1, <1>2 DEF KeepLast
  <2>2. Len(KeepLast(a, n)) = n
    BY <1>2, Keeping
  <2>3. \E k \in 0 .. Len(a) : KeepLast(a, n) = In!Drop(a, k)
    <3>1. In!Drop(a, Len(a) - n) = Drop(a, Len(a) - n)
      BY Zenon DEF In!Drop, Drop
    <3> QED BY <2>1, <3>1, Zenon
  <2> QED BY <1>1, <2>2, <2>3 DEF In!IsRest
<1>3. CASE ~(Len(a) > n)
  <2>1. KeepLast(a, n) = a
    BY <1>3 DEF KeepLast
  <2>2. In!IsRest(a, a)
    BY In!AllAndNothingAreRests, SizesAssumption
  <2> QED BY <1>1, <1>3, <2>1, <2>2
<1> QED BY <1>2, <1>3

----------------------------------------------------------------------------
(* The bytes between the UART and the input buffer.                        *)

(* circular_buffer_push_back on extraInputBuffer appends, and drops the    *)
(* front of a full buffer. *)
LEMMA PushExtra ==
  ASSUME extraInputBuffer \in Seq(0 .. 255), Len(extraInputBuffer) <= ExtraSize,
         lost \in Nat, NEW c \in 0 .. 255, push_back_extra(c)
  PROVE  /\ extraInputBuffer' \in Seq(0 .. 255) /\ Len(extraInputBuffer') <= ExtraSize
         /\ extraInputBuffer' # <<>>
         /\ Len(extraInputBuffer) < ExtraSize =>
              /\ extraInputBuffer' = Append(extraInputBuffer, c)
              /\ Len(extraInputBuffer') = Len(extraInputBuffer) + 1
              /\ lost' = lost
         /\ Len(extraInputBuffer) = ExtraSize =>
              /\ extraInputBuffer # <<>>
              /\ extraInputBuffer' = Append(Tail(extraInputBuffer), c)
              /\ lost' = lost + 1
<1> DEFINE x == extraInputBuffer
           a == Append(x, c)
           t == Append(Tail(x), c)
           k == KeepLast(a, ExtraSize)
<1>1. Len(x) \in Nat /\ ExtraSize \in Nat /\ ExtraSize > 0
  BY Sizes, LenProperties
<1>2. /\ a \in Seq(0 .. 255) /\ Len(a) = Len(x) + 1
      /\ \A i \in 1 .. Len(x) : a[i] = x[i]
      /\ a[Len(x) + 1] = c
  BY AppendProperties
<1> HIDE DEF a
<1>3. /\ k \in Seq(0 .. 255) /\ Len(k) = IF Len(a) > ExtraSize THEN ExtraSize ELSE Len(a)
      /\ \A i \in 1 .. Len(k) : k[i] = a[Len(a) - Len(k) + i]
  BY <1>1, <1>2, Keeping
<1>4. extraInputBuffer' = k
  BY DEF push_back_extra, a
<1>5. Len(x) < ExtraSize => k = a /\ Len(k) = Len(x) + 1 /\ lost' = lost
  BY <1>1, <1>2 DEF KeepLast, push_back_extra
<1> HIDE DEF k
<1>6. Len(k) > 0 /\ Len(k) <= ExtraSize
  BY <1>1, <1>2, <1>3
<1>7. k # <<>>
  BY <1>6, EmptySeq
<1>8. Len(x) = ExtraSize => x # <<>> /\ k = t /\ lost' = lost + 1
  <2> SUFFICES ASSUME Len(x) = ExtraSize PROVE x # <<>> /\ k = t /\ lost' = lost + 1
    OBVIOUS
  <2>1. x # <<>> /\ x \in Seq(0 .. 255)
    BY <1>1, EmptySeq
  <2> DEFINE r == Tail(x)
  <2>2. r \in Seq(0 .. 255) /\ Len(r) = Len(x) - 1 /\ \A i \in 1 .. Len(r) : r[i] = x[i + 1]
    BY <2>1, HeadTailProperties
  <2> HIDE DEF r
  <2>3. /\ t \in Seq(0 .. 255) /\ Len(t) = Len(r) + 1
        /\ \A i \in 1 .. Len(r) : t[i] = r[i]
        /\ t[Len(r) + 1] = c
    BY <2>2, AppendProperties DEF r
  <2> HIDE DEF t
  <2>4. Len(k) = Len(t) /\ Len(a) - Len(k) = 1
    BY <1>1, <1>2, <1>3, <2>2, <2>3
  <2>5. ASSUME NEW i \in 1 .. Len(k) PROVE k[i] = t[i]
    <3>1. k[i] = a[i + 1] /\ i \in Nat
      BY <1>3, <2>4
    <3>2. CASE i <= Len(r)
      <4>1. i \in 1 .. Len(r) /\ i + 1 \in 1 .. Len(x)
        BY <1>1, <2>2, <3>1, <3>2
      <4> QED BY <1>2, <2>2, <2>3, <3>1, <4>1
    <3>3. CASE ~(i <= Len(r))
      <4>1. i = Len(r) + 1 /\ i + 1 = Len(x) + 1
        BY <1>1, <2>2, <2>3, <2>4, <3>1, <3>3
      <4> QED BY <1>2, <2>3, <3>1, <4>1
    <3> QED BY <3>2, <3>3
  <2>6. k = t
    BY <1>3, <2>3, <2>4, <2>5, SeqEqual
  <2>7. lost' = lost + 1
    BY DEF push_back_extra
  <2> QED BY <2>1, <2>6, <2>7
<1> QED BY <1>3, <1>4, <1>5, <1>6, <1>7, <1>8 DEF a, t

(* The types of the variables, in groups. *)
ControlType == setup \in Setups /\ pc \in 0 .. Len(Steps)

SerialType ==
  /\ uart \in Seq(0 .. 255) /\ Len(uart) <= 1
  /\ extraInputBuffer \in Seq(0 .. 255) /\ Len(extraInputBuffer) <= ExtraSize
  /\ loaded \in Seq(0 .. 255) /\ (loaded = <<>> <=> Now \notin {"store", "push"})
  /\ line \in Seq(0 .. 255)
  /\ lost \in 0 .. setup.losses

InputType == in_buf \in Seq(0 .. 255) /\ Len(in_buf) <= MAXMESSAGELEN

(***************************************************************************)
(* The interrupt never comes between the test and the pop, or between the  *)
(* two halves of the pop, in a way that matters: there still is a byte,    *)
(* and what was loaded still is what is there.                             *)
(***************************************************************************)
PopIsAtomic ==
  /\ Now = "load" => extraInputBuffer # <<>>
  /\ Now = "store" => loaded = extraInputBuffer
  /\ Now = "push" => Len(loaded) = 1

(***************************************************************************)
(* The byte in the UART has room, or may be lost; a program that polls its *)
(* UART does so with an empty extraInputBuffer.                            *)
(***************************************************************************)
RoomIsKept ==
  IF Polled
  THEN /\ Len(extraInputBuffer) <= 1
       /\ Now \in {"push", "receive", "getc"} => extraInputBuffer = <<>>
  ELSE uart # <<>> => lost < setup.losses \/ Len(extraInputBuffer) < ExtraSize

SerialInv == SerialType /\ PopIsAtomic /\ RoomIsKept

(* Steps that have to do with neither of them. *)
LEMMA ElsewhereKeepsSerial ==
  ASSUME ControlType, SerialInv, UNCHANGED <<setup, serial, line>>,
         Now \notin {"load", "store", "push"},
         Now' \notin {"load", "store", "push"},
         Now' \in {"receive", "getc"} => Now = "receive"
  PROVE  SerialInv'
<1>1. Polled' = Polled /\ setup' = setup
  BY DEF Polled, program
<1>2. UNCHANGED <<uart, extraInputBuffer, loaded, lost, line>>
  BY DEF serial
<1>3. SerialType'
  BY <1>1, <1>2 DEF SerialInv, SerialType
<1>4. PopIsAtomic' /\ RoomIsKept'
  BY <1>1, <1>2 DEF SerialInv, PopIsAtomic, RoomIsKept
<1> QED BY <1>3, <1>4 DEF SerialInv

(* A byte comes, or is lost in the UART. *)
LEMMA LineKeepsSerial ==
  ASSUME ControlType, SerialInv, SendByte \/ Overrun
  PROVE  SerialInv' /\ Now' = Now
<1>1. UNCHANGED <<setup, pc, extraInputBuffer, loaded>> /\ line # <<>>
  BY DEF SendByte, Overrun
<1>2. Polled' = Polled /\ Now' = Now
  BY <1>1, SamePass DEF Polled, program, Now, Ended
<1>3. Head(line) \in 0 .. 255 /\ Tail(line) \in Seq(0 .. 255) /\ line' = Tail(line)
  BY <1>1, HeadTailProperties DEF SerialInv, SerialType, SendByte, Overrun
<1>4. uart' \in Seq(0 .. 255) /\ Len(uart') <= 1
  <2>1. CASE SendByte
    <3>1. PICK h \in 0 .. 255 : uart' = <<h>>
      BY <1>3, <2>1 DEF SendByte
    <3> QED BY <3>1
  <2>2. CASE Overrun
    BY <2>2 DEF SerialInv, SerialType, Overrun
  <2> QED BY <2>1, <2>2
<1>5. lost' \in 0 .. setup.losses
  BY SetupType DEF SerialInv, SerialType, SendByte, Overrun, ControlType
<1>6. SerialType'
  BY <1>1, <1>2, <1>3, <1>4, <1>5 DEF SerialInv, SerialType
<1>7. PopIsAtomic'
  BY <1>1, <1>2 DEF SerialInv, PopIsAtomic
<1>8. RoomIsKept'
  BY <1>1, <1>2 DEF SerialInv, RoomIsKept, SendByte, Overrun
<1> QED BY <1>2, <1>6, <1>7, <1>8 DEF SerialInv

(* The byte in the UART is one byte. *)
LEMMA ByteInUart ==
  ASSUME SerialType, uart # <<>>
  PROVE  Head(uart) \in 0 .. 255 /\ uart = <<Head(uart)>>
<1>1. Head(uart) \in 0 .. 255 /\ Tail(uart) \in Seq(0 .. 255) /\ Len(Tail(uart)) = Len(uart) - 1
      /\ <<Head(uart)>> \o Tail(uart) = uart
  BY HeadThenTail DEF SerialType
<1>2. Tail(uart) = <<>>
  BY <1>1, EmptySeq DEF SerialType
<1>3. <<Head(uart)>> \o <<>> = <<Head(uart)>>
  <2>1. <<Head(uart)>> \in Seq(0 .. 255)
    BY <1>1
  <2> QED BY <2>1, ConcatEmptySeq
<1> QED BY <1>1, <1>2, <1>3

(* The interrupt moves it. *)
LEMMA InterruptKeepsSerial ==
  ASSUME ControlType, SerialInv, ReceiveInterrupt
  PROVE  SerialInv' /\ Now' = Now
<1>1. UNCHANGED <<setup, pc, line, loaded>> /\ ~Polled /\ uart # <<>> /\ uart' = <<>>
      /\ push_back_extra(Head(uart)) /\ Now # "store"
  <2>1. At("store") <=> Now = "store"
    BY AtNow DEF StepNames
  <2> QED BY <2>1 DEF ReceiveInterrupt, interrupts_enabled
<1>2. Polled' = Polled /\ Now' = Now
  BY <1>1, SamePass DEF Polled, program, Now, Ended
<1>3. setup.losses \in 0 .. 1 /\ lost \in Nat
  BY SetupType DEF ControlType, SerialInv, SerialType
<1>4. /\ extraInputBuffer' \in Seq(0 .. 255) /\ Len(extraInputBuffer') <= ExtraSize
      /\ extraInputBuffer' # <<>>
      /\ Len(extraInputBuffer) < ExtraSize => lost' = lost
      /\ Len(extraInputBuffer) = ExtraSize => lost' = lost + 1
  BY <1>1, <1>3, ByteInUart, PushExtra DEF SerialInv, SerialType
<1>5. lost' \in 0 .. setup.losses
  <2>1. lost < setup.losses \/ Len(extraInputBuffer) < ExtraSize
    BY <1>1 DEF SerialInv, RoomIsKept
  <2>2. Len(extraInputBuffer) \in Nat /\ Len(extraInputBuffer) <= ExtraSize
        /\ lost \in 0 .. setup.losses
    BY LenProperties DEF SerialInv, SerialType
  <2> QED BY <1>3, <1>4, <2>1, <2>2, Sizes
<1>6. SerialType'
  <2>1. <<>> \in Seq(0 .. 255) /\ Len(<<>>) = 0
    BY EmptySeq
  <2> QED BY <1>1, <1>2, <1>4, <1>5, <2>1 DEF SerialInv, SerialType
<1>7. PopIsAtomic' /\ RoomIsKept'
  BY <1>1, <1>2, <1>4 DEF SerialInv, PopIsAtomic, RoomIsKept
<1> QED BY <1>2, <1>6, <1>7 DEF SerialInv

----------------------------------------------------------------------------
(* The steps that move a byte.                                             *)

(* The loop takes its next step. *)
LEMMA Advancing ==
  ASSUME ControlType, setup' = setup, NEW x \in StepNames, At(x)
  PROVE  /\ pc \in 1 .. Len(Steps) /\ Now = x
         /\ Advance => /\ ControlType' /\ Follows(x, Now')
                       /\ program \in AdcPrograms => (x = "receive" <=> Now' = "set_timer")
<1>1. Now = x /\ pc # 0
  BY AtNow DEF At, Ended
<1>2. pc \in 1 .. Len(Steps) /\ setup \in Setups
  BY <1>1 DEF ControlType
<1>3. Advance => /\ pc' \in 1 .. Len(Steps)
                 /\ Follows(x, Now')
                 /\ program \in AdcPrograms => (x = "receive" <=> Now' = "set_timer")
  BY <1>1, <1>2, Moves
<1>4. Steps' = Steps
  BY SamePass
<1>5. Advance => ControlType'
  BY <1>2, <1>3, <1>4 DEF ControlType
<1> QED BY <1>1, <1>2, <1>3, <1>5

(* getc_safe. *)
LEMMA PollingKeepsSerial ==
  ASSUME ControlType, SerialInv, ReceiveByPolling \/ ReceiveNothing
  PROVE  SerialInv' /\ ControlType' /\ Now = "getc" /\ Follows(Now, Now')
<1>1. At("getc") /\ Advance /\ setup' = setup /\ line' = line /\ loaded' = loaded
  BY DEF ReceiveByPolling, ReceiveNothing, serial
<1>2. Now = "getc" /\ ControlType' /\ Follows(Now, Now')
  BY <1>1, Advancing DEF StepNames
<1>3. Now' \notin {"load", "store", "push", "receive", "getc"}
  BY <1>2 DEF Follows
<1>4. CASE ReceiveNothing
  BY <1>1, <1>2, <1>3, <1>4, ElsewhereKeepsSerial DEF ReceiveNothing
<1>5. CASE ReceiveByPolling
  <2>1. uart # <<>> /\ uart' = <<>> /\ push_back_extra(Head(uart))
    BY <1>5 DEF ReceiveByPolling
  <2>2. Polled' = Polled /\ (Polled => extraInputBuffer = <<>>)
    BY <1>1, <1>2 DEF Polled, program, SerialInv, RoomIsKept
  <2>3. setup.losses \in 0 .. 1 /\ lost \in Nat /\ lost \in 0 .. setup.losses
    BY SetupType DEF ControlType, SerialInv, SerialType
  <2>4. /\ extraInputBuffer' \in Seq(0 .. 255) /\ Len(extraInputBuffer') <= ExtraSize
        /\ Len(extraInputBuffer) < ExtraSize =>
             /\ Len(extraInputBuffer') = Len(extraInputBuffer) + 1
             /\ lost' = lost
        /\ Len(extraInputBuffer) = ExtraSize => lost' = lost + 1
    BY <2>1, <2>3, ByteInUart, PushExtra DEF SerialInv, SerialType
  <2>5. Len(extraInputBuffer) \in Nat /\ Len(extraInputBuffer) <= ExtraSize
        /\ (extraInputBuffer = <<>> => Len(extraInputBuffer) = 0)
    BY LenProperties, EmptySeq DEF SerialInv, SerialType
  <2>6. lost' \in 0 .. setup.losses
    <3>1. lost < setup.losses \/ Len(extraInputBuffer) < ExtraSize
      BY <2>1, <2>2, <2>5, Sizes DEF SerialInv, RoomIsKept
    <3> QED BY <2>3, <2>4, <2>5, <3>1, Sizes
  <2>7. SerialType'
    <3>1. <<>> \in Seq(0 .. 255) /\ Len(<<>>) = 0
      BY EmptySeq
    <3>2. loaded' = <<>>
      BY <1>1, <1>2 DEF SerialInv, SerialType
    <3> QED BY <1>1, <1>3, <2>1, <2>4, <2>6, <3>1, <3>2 DEF SerialInv, SerialType
  <2>8. PopIsAtomic'
    BY <1>3 DEF PopIsAtomic
  <2>9. RoomIsKept'
    <3>1. extraInputBuffer = <<>> => Len(extraInputBuffer') <= 1
      <4> SUFFICES ASSUME extraInputBuffer = <<>> PROVE Len(extraInputBuffer') <= 1
        OBVIOUS
      <4>1. Len(extraInputBuffer) = 0
        BY <2>5
      <4>2. Len(extraInputBuffer) < ExtraSize
        BY <4>1, Sizes
      <4>3. Len(extraInputBuffer') = Len(extraInputBuffer) + 1
        BY <2>4, <4>2
      <4> QED BY <4>1, <4>3
    <3> QED BY <1>3, <2>1, <2>2, <3>1 DEF RoomIsKept, Polled
  <2> QED BY <1>2, <2>7, <2>8, <2>9 DEF SerialInv
<1> QED BY <1>1, <1>2, <1>4, <1>5, Zenon

(* The test for a byte. *)
LEMMA TestKeepsSerial ==
  ASSUME ControlType, SerialInv, TestForByte
  PROVE  /\ SerialInv' /\ ControlType' /\ Now = "test"
         /\ Now' = IF extraInputBuffer = <<>> THEN "receive" ELSE "load"
<1>1. At("test") /\ UNCHANGED <<setup, line, serial>>
  BY DEF TestForByte
<1>2. Now = "test" /\ pc \in 1 .. Len(Steps) /\ setup \in Setups
  BY <1>1, Advancing DEF StepNames, ControlType
<1>3. CASE extraInputBuffer = <<>>
  <2>1. Skip(Len(Move))
    BY <1>3 DEF TestForByte
  <2>2. pc' \in 1 .. Len(Steps) /\ Now' = "receive"
    BY <1>1, <1>2, <2>1, Moves
  <2>3. ControlType'
    BY <1>1, <1>2, <2>2, SamePass DEF ControlType
  <2> QED BY <1>1, <1>2, <1>3, <2>2, <2>3
       DEF SerialInv, SerialType, PopIsAtomic, RoomIsKept, serial, Polled, program
<1>4. CASE extraInputBuffer # <<>>
  <2>1. Advance
    BY <1>4 DEF TestForByte
  <2>2. ControlType' /\ Now' = "load"
    BY <1>1, <2>1, Advancing DEF StepNames, Follows
  <2> QED BY <1>1, <1>2, <1>4, <2>2
       DEF SerialInv, SerialType, PopIsAtomic, RoomIsKept, serial, Polled, program
<1> QED BY <1>3, <1>4

(* The front is loaded. *)
LEMMA LoadKeepsSerial ==
  ASSUME ControlType, SerialInv, LoadFront
  PROVE  SerialInv' /\ ControlType' /\ Now = "load" /\ Now' = "store"
<1>1. /\ At("load") /\ Advance
      /\ UNCHANGED <<setup, line, uart, extraInputBuffer, lost>>
      /\ loaded' = extraInputBuffer
  BY DEF LoadFront
<1>2. Now = "load" /\ ControlType' /\ Now' = "store"
  BY <1>1, Advancing DEF StepNames, Follows
<1>3. extraInputBuffer # <<>>
  BY <1>2 DEF SerialInv, PopIsAtomic
<1>4. SerialType' /\ PopIsAtomic'
  BY <1>1, <1>2, <1>3 DEF SerialInv, SerialType, PopIsAtomic
<1>5. RoomIsKept'
  BY <1>1, <1>2 DEF SerialInv, RoomIsKept, Polled, program
<1> QED BY <1>2, <1>4, <1>5 DEF SerialInv

(* It is popped. *)
LEMMA StoreKeepsSerial ==
  ASSUME ControlType, SerialInv, StoreFront
  PROVE  /\ SerialInv' /\ ControlType' /\ Now = "store" /\ Now' = "push"
         /\ extraInputBuffer # <<>>
         /\ loaded' = <<Head(extraInputBuffer)>>
         /\ extraInputBuffer' = Tail(extraInputBuffer)
         /\ UNCHANGED <<setup, line, uart, lost>>
<1>1. /\ At("store") /\ Advance
      /\ UNCHANGED <<setup, line, uart, lost>>
      /\ extraInputBuffer' = Tail(loaded) /\ loaded' = <<Head(loaded)>>
  BY DEF StoreFront
<1>2. Now = "store" /\ ControlType' /\ Now' = "push"
  BY <1>1, Advancing DEF StepNames, Follows
<1>3. loaded = extraInputBuffer /\ loaded # <<>>
  BY <1>2 DEF SerialInv, SerialType, PopIsAtomic
<1>4. /\ Head(loaded) \in 0 .. 255 /\ Tail(loaded) \in Seq(0 .. 255)
      /\ Len(Tail(loaded)) = Len(loaded) - 1 /\ Len(loaded) \in Nat
  BY <1>3, HeadTailProperties, LenProperties DEF SerialInv, SerialType
<1>5. PICK h \in 0 .. 255 : loaded' = <<h>>
  BY <1>1, <1>4
<1>6. loaded' \in Seq(0 .. 255) /\ Len(loaded') = 1 /\ loaded' # <<>>
  BY <1>5
<1>7. PICK t \in Seq(0 .. 255) : extraInputBuffer' = t /\ Len(t) = Len(extraInputBuffer) - 1
  BY <1>1, <1>3, <1>4
<1>8. Len(extraInputBuffer') \in Nat /\ Len(extraInputBuffer') < Len(extraInputBuffer)
      /\ Len(extraInputBuffer) \in Nat
  BY <1>3, <1>4, <1>7, LenProperties
<1>9. Len(extraInputBuffer') <= ExtraSize
  BY <1>8, Sizes DEF SerialInv, SerialType
<1>10. SerialType'
  BY <1>1, <1>2, <1>6, <1>7, <1>9 DEF SerialInv, SerialType
<1>11. PopIsAtomic'
  BY <1>2, <1>6 DEF PopIsAtomic
<1>12. RoomIsKept'
  <2>1. CASE Polled
    <3>1. Len(extraInputBuffer) <= 1
      BY <2>1 DEF SerialInv, RoomIsKept
    <3>2. Len(t) = 0
      BY <1>7, <1>8, <3>1
    <3>3. extraInputBuffer' = <<>>
      BY <1>7, <3>2, EmptySeq
    <3>4. Len(extraInputBuffer') <= 1
      BY <1>8, <3>1
    <3> QED BY <1>1, <2>1, <3>3, <3>4 DEF RoomIsKept, Polled, program
  <2>2. CASE ~Polled
    <3>1. uart # <<>> => lost < setup.losses \/ Len(extraInputBuffer) < ExtraSize
      BY <2>2 DEF SerialInv, RoomIsKept
    <3>2. uart' # <<>> => lost' < setup'.losses \/ Len(extraInputBuffer') < ExtraSize
      BY <1>1, <1>8, <3>1, Sizes
    <3> QED BY <1>1, <2>2, <3>2 DEF RoomIsKept, Polled, program
  <2> QED BY <2>1, <2>2
<1> QED BY <1>1, <1>2, <1>3, <1>10, <1>11, <1>12 DEF SerialInv

(* It goes to the input buffer. *)
LEMMA PushKeepsSerial ==
  ASSUME ControlType, SerialInv, PushByte
  PROVE  /\ SerialInv' /\ ControlType' /\ Now = "push" /\ Now' = "receive"
         /\ UNCHANGED <<setup, line, uart, extraInputBuffer, lost>>
<1>1. /\ At("push") /\ Advance
      /\ UNCHANGED <<setup, line, uart, extraInputBuffer, lost>>
      /\ loaded' = <<>>
  BY DEF PushByte
<1>2. Now = "push" /\ ControlType' /\ Now' = "receive"
  BY <1>1, Advancing DEF StepNames, Follows
<1>3. SerialType'
  <2>1. <<>> \in Seq(0 .. 255)
    BY EmptySeq
  <2> QED BY <1>1, <1>2, <2>1 DEF SerialInv, SerialType
<1>4. PopIsAtomic' /\ RoomIsKept'
  BY <1>1, <1>2 DEF SerialInv, PopIsAtomic, RoomIsKept, Polled, program
<1> QED BY <1>1, <1>2, <1>3, <1>4 DEF SerialInv

----------------------------------------------------------------------------
(* The steps that may throw.                                               *)

OutputType ==
  /\ out_buf \in [bytes : Seq(0 .. 255), iStart : 0 .. MAXMESSAGELEN - 1]
  /\ Len(out_buf.bytes) <= MAXMESSAGELEN

(* After an exception the loop is at its beginning, or ends. *)
LEMMA AfterLeads ==
  ASSUME ControlType, setup' = setup, NEW x \in StepNames, At(x), NEW err, After(err)
  PROVE  /\ ControlType'
         /\ err = "none" => Advance /\ Follows(x, Now')
         /\ err # "none" => IsCaught(Now') \/ Now' = "ended"
<1>1. Steps' = Steps
  BY SamePass
<1>2. pc \in 1 .. Len(Steps) /\ setup \in Setups
  BY Advancing DEF ControlType
<1>3. CASE err = "none"
  <2>1. Advance
    BY <1>3 DEF After
  <2> QED BY <1>3, <2>1, Advancing
<1>4. CASE err = "crashed"
  <2>1. pc' = 0
    BY <1>4 DEF After
  <2>2. Now' = "ended"
    BY <2>1 DEF Now, Ended
  <2>3. 0 \in 0 .. Len(Steps)
    BY <1>2, PassOfProgram, SetupType, InEachPass
  <2> QED BY <1>1, <1>2, <1>4, <2>1, <2>2, <2>3 DEF ControlType
<1>5. CASE err \notin {"none", "crashed"}
  <2>1. Catch
    BY <1>5 DEF After
  <2>2. pc' \in 1 .. Len(Steps) /\ IsCaught(Now')
    BY <1>2, <2>1, Moves
  <2> QED BY <1>1, <1>2, <1>5, <2>2 DEF ControlType
<1> QED BY <1>3, <1>4, <1>5

(* What a put of an answer or of a sample leaves. *)
LEMMA PutLeads ==
  ASSUME CrcYieldsDigits, OutputType, NEW m, Out!IsMessage(m),
         NEW outcome \in put_message(out_buf, m)
  PROVE  /\ outcome.buf \in [bytes : Seq(0 .. 255), iStart : 0 .. MAXMESSAGELEN - 1]
         /\ Len(outcome.buf.bytes) <= MAXMESSAGELEN
<1>1. outcome \in Out!put_message(out_buf, m)
  BY SamePut
<1>2. out_buf \in Out!Buffers /\ Len(out_buf.bytes) <= MAXMESSAGELEN /\ Out!CrcYieldsDigits
  BY DEF OutputType, Out!Buffers, Out!Bytes, CrcYieldsDigits
<1>3. outcome.buf \in Out!Buffers /\ Len(outcome.buf.bytes) <= MAXMESSAGELEN
  BY <1>1, <1>2, Out!PutType, SizesAssumption, OutputAssumption
<1> QED BY <1>3 DEF Out!Buffers, Out!Bytes

(* What get_message leaves, and its message. *)
LEMMA GetLeads ==
  ASSUME InputType, NEW result \in get_message_from_input_buffer(in_buf, IgnoresCRC)
  PROVE  /\ In!IsRest(result.rest, in_buf)
         /\ Out!IsMessage(result.message)
         /\ result.err # "none" => result.message.command = 0
<1>1. IgnoresCRC \in BOOLEAN
  BY DEF IgnoresCRC
<1>2. result \in In!get_message_from_input_buffer(in_buf, IgnoresCRC)
  BY SameGet
<1>3. In!IsResult(result, in_buf)
  BY <1>1, <1>2, In!GetMessageType, SizesAssumption, OutputAssumption DEF InputType
<1>4. NoMessage.command = 0 /\ In!NoMessage.command = 0
  BY DEF NoMessage, Message, In!NoMessage, In!Message
<1> QED BY <1>3, <1>4 DEF In!IsResult, In!IsMessage, In!MessageRecords, Out!IsMessage, Out!Bytes

(***************************************************************************)
(* Where a message is received: only the front of the input buffer goes,   *)
(* and a message that switches streaming on is followed by the next step   *)
(* of the pass.                                                            *)
(***************************************************************************)
LEMMA ReceiveLeads ==
  ASSUME CrcYieldsDigits, RepliesAreMessages, ControlType, InputType, OutputType,
         streaming_is_on \in BOOLEAN, ReceiveMessage
  PROVE  /\ UNCHANGED <<setup, line, serial, samples>> /\ ControlType'
         /\ Now = "receive" /\ Now' \notin {"load", "store", "push"}
         /\ In!IsRest(in_buf', in_buf)
         /\ OutputType' /\ streaming_is_on' \in BOOLEAN
         /\ streaming_is_on' => streaming_is_on \/ (Follows(Now, Now') /\ Advance)
<1>1. UNCHANGED <<setup, line, serial, samples>> /\ At("receive") /\ Receive
  BY DEF ReceiveMessage, Receive
<1>2. Now = "receive" /\ "receive" \in StepNames
  BY <1>1, Advancing DEF StepNames
<1>3. PICK result \in get_message_from_input_buffer(in_buf, IgnoresCRC) :
        /\ in_buf' = result.rest
        /\ handle_nf_messages(result.message)
        /\ \/ /\ result.err # "none" \/ Answers(result.message) = {}
              /\ After(result.err)
              /\ UNCHANGED out_buf
           \/ /\ result.err = "none"
              /\ \E m \in Answers(result.message) : put(m)
  BY <1>1 DEF Receive
<1>4. /\ In!IsRest(result.rest, in_buf) /\ Out!IsMessage(result.message)
      /\ result.err # "none" => result.message.command = 0
  BY GetLeads
<1>5. streaming_is_on' \in BOOLEAN
  BY <1>3 DEF handle_nf_messages
<1>6. ASSUME streaming_is_on', ~streaming_is_on
      PROVE  Answers(result.message) = {} /\ result.err = "none"
  <2>1. HandlesNf /\ result.message.command = On
    BY <1>3, <1>6 DEF handle_nf_messages
  <2>2. ~LoopsBack
    BY <2>1 DEF HandlesNf, LoopsBack
  <2> QED BY <1>4, <2>1, <2>2 DEF Answers, On
<1>7. CASE After(result.err) /\ UNCHANGED out_buf
                             /\ (result.err # "none" \/ Answers(result.message) = {})
  <2>1. /\ ControlType'
        /\ result.err = "none" => Advance /\ Follows("receive", Now')
        /\ result.err # "none" => IsCaught(Now') \/ Now' = "ended"
    BY <1>1, <1>2, <1>7, AfterLeads
  <2>2. Now' \notin {"load", "store", "push"}
    BY <2>1 DEF Follows, IsCaught
  <2>3. OutputType'
    BY <1>7 DEF OutputType
  <2>4. streaming_is_on' => streaming_is_on \/ (Follows(Now, Now') /\ Advance)
    BY <1>2, <1>6, <2>1
  <2> QED BY <1>1, <1>2, <1>3, <1>4, <1>5, <2>1, <2>2, <2>3, <2>4
<1>8. CASE result.err = "none" /\ \E m \in Answers(result.message) : put(m)
  <2>1. PICK m \in Answers(result.message) : put(m)
    BY <1>8
  <2>2. Out!IsMessage(m)
    BY <1>4, <2>1 DEF Answers, RepliesAreMessages
  <2>3. PICK outcome \in put_message(out_buf, m) :
          out_buf' = outcome.buf /\ After(outcome.err)
    BY <2>1 DEF put
  <2>4. /\ ControlType'
        /\ outcome.err = "none" => Advance /\ Follows("receive", Now')
        /\ outcome.err # "none" => IsCaught(Now') \/ Now' = "ended"
    BY <1>1, <1>2, <2>3, AfterLeads
  <2>5. Now' \notin {"load", "store", "push"}
    BY <2>4 DEF Follows, IsCaught
  <2>6. OutputType'
    BY <2>2, <2>3, PutLeads DEF OutputType
  <2>7. streaming_is_on' => streaming_is_on
    BY <1>6, <2>1
  <2> QED BY <1>1, <1>2, <1>3, <1>4, <1>5, <2>4, <2>5, <2>6, <2>7
<1> QED BY <1>3, <1>7, <1>8

----------------------------------------------------------------------------
(* The steps that have to do with the output, the timer and the samples.   *)

SamplesType ==
  /\ streaming_is_on \in BOOLEAN /\ stream_state_before_receiving \in BOOLEAN
  /\ adc_timer \in BOOLEAN /\ have_started_ADC_conversion \in BOOLEAN
  /\ send_stream_frame_counter \in 0 .. CounterRange - 1

QuietStep ==
  \/ TransmitByte \/ TransmitNothing
  \/ SaveState \/ SetTimer \/ StartConversion \/ StartNothing \/ Stream \/ StreamNothing

Quiet == {"transmit", "save_state", "set_timer", "start_conversion", "stream"}
Moving == {"load", "store", "push", "receive", "getc"}

(* What is streamed is a message that no receiver misunderstands. *)
LEMMA StreamMessageIs ==
  ASSUME SamplesType
  PROVE  LET m == StreamMessage(send_stream_frame_counter, Payload)
         IN  Out!IsMessage(m) /\ Len(m.data) <= MAXDATALEN
<1>1. send_stream_frame_counter \in 0 .. 255
  BY Sizes DEF SamplesType
<1>2. Payload \in Out!Bytes
  <2>1. (0 .. 255) \ Delimiters \subseteq 0 .. 255
    OBVIOUS
  <2> QED BY <2>1, UartAssumption DEF Out!Bytes
<1>3. Out!StreamMessage(send_stream_frame_counter, Payload)
        = StreamMessage(send_stream_frame_counter, Payload)
  BY DEF Out!StreamMessage, StreamMessage, Out!Message, Message,
     Out!convert_uint8_to_hex, convert_uint8_to_hex, Out!hex_digit, hex_digit,
     Out!Comma, Comma
<1> DEFINE o == Out!StreamMessage(send_stream_frame_counter, Payload)
           m == StreamMessage(send_stream_frame_counter, Payload)
<1>4. Out!IsMessage(o) /\ Len(Payload) \in Nat /\ Len(o.data) = Len(Payload) + 3
  <2>1. ASSUME NEW c \in 0 .. 255, NEW p \in Out!Bytes
        PROVE  Out!IsMessage(Out!StreamMessage(c, p))
    BY Out!StreamMessageOf, SizesAssumption, OutputAssumption
  <2>2. ASSUME NEW c \in 0 .. 255, NEW p \in Out!Bytes
        PROVE  Len(Out!StreamMessage(c, p).data) = Len(p) + 3
    BY Out!StreamMessageOf, SizesAssumption, OutputAssumption
  <2>3. Len(Payload) \in Nat
    BY <1>2, LenProperties DEF Out!Bytes
  <2> QED BY <1>1, <1>2, <2>1, <2>2, <2>3, Zenon
<1>5. o = m
  BY <1>3
<1> HIDE DEF o, m
<1>6. Len(o.data) <= MAXDATALEN
  BY <1>4, UartAssumption, SizesAssumption DEF MAXSPAYLOADEN
<1> QED BY <1>4, <1>5, <1>6 DEF m

(* A pass goes on with such a step, or with the next pass. *)
LEMMA QuietLeads ==
  ASSUME CrcYieldsDigits, ControlType, OutputType, SamplesType, QuietStep
  PROVE  /\ UNCHANGED <<setup, line, serial, in_buf, streaming_is_on>>
         /\ ControlType' /\ Now \in Quiet /\ Now' \notin Moving
         /\ OutputType' /\ SamplesType'
<1>1. PICK x \in Quiet : At(x) /\ (QuietStep /\ ~Stream => Advance)
  BY DEF Quiet, QuietStep, TransmitByte, TransmitNothing, SaveState, SetTimer,
     StartConversion, StartNothing, Stream, StreamNothing
<1>2. UNCHANGED <<setup, line, serial, in_buf, streaming_is_on>>
  BY DEF QuietStep, TransmitByte, TransmitNothing, SaveState, SetTimer,
     StartConversion, StartNothing, Stream, StreamNothing, device
<1>3. x \in StepNames /\ setup' = setup
  BY <1>2 DEF Quiet, StepNames
<1>4. Now = x
  BY <1>1, <1>3, Advancing
<1>5. Advance => ControlType' /\ Now' \notin Moving
  <2>1. Advance => ControlType' /\ Follows(x, Now')
    BY <1>1, <1>3, Advancing
  <2> QED BY <2>1 DEF Quiet, Moving, Follows
<1>6. CASE Stream
  <2> DEFINE m == StreamMessage(send_stream_frame_counter, Payload)
  <2>1. PICK outcome \in put_message(out_buf, m) :
          /\ out_buf' = outcome.buf
          /\ After(outcome.err)
          /\ have_started_ADC_conversion' =
               (have_started_ADC_conversion /\ outcome.err # "none"
                  /\ program = "avr_adc_streaming")
    BY <1>6 DEF Stream
  <2>2. Out!IsMessage(m)
    BY StreamMessageIs
  <2> HIDE DEF m
  <2>3. OutputType'
    BY <2>1, <2>2, PutLeads DEF OutputType
  <2>4. ControlType' /\ Now' \notin Moving
    <3>1. /\ ControlType'
          /\ outcome.err = "none" => Advance
          /\ outcome.err # "none" => IsCaught(Now') \/ Now' = "ended"
      BY <1>1, <1>3, <2>1, AfterLeads
    <3> QED BY <1>5, <3>1 DEF IsCaught, Moving
  <2>5. (send_stream_frame_counter + 1) % CounterRange \in 0 .. CounterRange - 1
    <3>1. send_stream_frame_counter + 1 \in Nat
      BY Sizes DEF SamplesType
    <3> QED BY <3>1, Sizes, Out!Remainder, SizesAssumption, OutputAssumption
  <2>6. SamplesType'
    BY <1>2, <1>6, <2>1, <2>5 DEF SamplesType, Stream
  <2> QED BY <1>2, <1>4, <2>3, <2>4, <2>6
<1>7. CASE ~Stream
  <2>1. Advance
    BY <1>1, <1>7
  <2>2. OutputType'
    <3>1. CASE TransmitByte
      <4>1. out_buf \in Out!Buffers /\ out_buf' = Out!pop_front_n(out_buf, 1)
        BY <3>1 DEF OutputType, Out!Buffers, Out!Bytes, TransmitByte, pop_front_n,
           Out!pop_front_n, Drop, Out!Drop
      <4>2. out_buf' \in Out!Buffers /\ Len(out_buf'.bytes) <= MAXMESSAGELEN
        BY <4>1, Out!PopType, SizesAssumption, OutputAssumption DEF OutputType
      <4> QED BY <4>2 DEF OutputType, Out!Buffers, Out!Bytes
    <3>2. CASE ~TransmitByte
      <4>1. out_buf' = out_buf
        BY <1>7, <3>2 DEF QuietStep, TransmitNothing, SaveState, SetTimer,
           StartConversion, StartNothing, StreamNothing, device
      <4> QED BY <4>1 DEF OutputType
    <3> QED BY <3>1, <3>2
  <2>3. SamplesType'
    BY <1>7 DEF SamplesType, QuietStep, TransmitByte, TransmitNothing, SaveState, SetTimer,
       StartConversion, StartNothing, StreamNothing, device, samples
  <2> QED BY <1>2, <1>4, <1>5, <2>1, <2>2, <2>3
<1> QED BY <1>6, <1>7

----------------------------------------------------------------------------
(* The types, and the invariant of the serial line that they rest on.      *)
TypeInv == ControlType /\ SerialInv /\ InputType /\ OutputType /\ SamplesType

(* It is what the model checker checks. *)
LEMMA TypeInvIsTypeOK == TypeInv => TypeOK
<1> SUFFICES ASSUME TypeInv PROVE TypeOK
  OBVIOUS
<1>1. pc = 0 \/ ~(At("store") \/ At("push")) <=> Now \notin {"store", "push"}
  <2>1. (At("store") <=> Now = "store") /\ (At("push") <=> Now = "push")
    BY AtNow DEF StepNames
  <2>2. pc = 0 => Now = "ended"
    BY DEF Now, Ended
  <2> QED BY <2>1, <2>2
<1>2. loaded = <<>> <=> pc = 0 \/ ~(At("store") \/ At("push"))
  BY <1>1 DEF TypeInv, SerialInv, SerialType
<1> QED BY <1>2 DEF TypeInv, ControlType, SerialInv, SerialType, InputType, OutputType,
     SamplesType, TypeOK

(* The loop begins with it. *)
LEMMA TypesAtFirst == Init => TypeInv
<1> SUFFICES ASSUME Init PROVE TypeInv
  OBVIOUS
<1>1. setup \in Setups /\ line = setup.script /\ pc = 1 /\ in_buf = <<>> /\ out_buf = NoOutput
      /\ streaming_is_on = FALSE
  BY DEF Init, LoopInit
<1>2. program \in UartPrograms /\ line \in Seq(0 .. 255) /\ setup.losses \in 0 .. 1
  BY <1>1, SetupType
<1>3. Steps \in Passes
  BY <1>2, PassOfProgram
<1>4. 1 \in 1 .. Len(Steps) /\ 1 \in 0 .. Len(Steps) /\ Steps[1] \notin Moving
  BY <1>3 DEF Passes, OtherPasses, PollPass, AdcPass, GetcPass, TestDevicePass, AnswerPass, PatternPass,
     Moving
<1>5. Now \notin Moving
  BY <1>1, <1>4 DEF Now, Ended
<1>6. ControlType
  BY <1>1, <1>4 DEF ControlType
<1>7. <<>> \in Seq(0 .. 255) /\ Len(<<>>) = 0
  BY EmptySeq
<1>8. SerialType
  BY <1>2, <1>5, <1>7, Sizes DEF SerialType, Init, Moving
<1>9. PopIsAtomic /\ RoomIsKept
  BY <1>5, <1>7 DEF PopIsAtomic, RoomIsKept, Init, Moving
<1>10. InputType
  BY <1>1, <1>7, Sizes DEF InputType
<1>11. OutputType
  BY <1>1, <1>7, Sizes DEF OutputType, NoOutput
<1>12. SamplesType
  <2>1. 0 \in 0 .. CounterRange - 1
    BY Sizes
  <2> QED BY <1>1, <2>1 DEF SamplesType, Init
<1> QED BY <1>6, <1>8, <1>9, <1>10, <1>11, <1>12 DEF TypeInv, SerialInv

(* Received bytes go to the input buffer as far as there is room. *)
LEMMA PushLeads ==
  ASSUME InputType, SerialType, PushByte
  PROVE  /\ InputType'
         /\ \/ program = "avr_loopback" /\ loaded = <<Question>> /\ in_buf' = in_buf
            \/ In!IsRest(in_buf', in_buf \o loaded)
<1> DEFINE all == in_buf \o loaded
<1>1. all \in Seq(0 .. 255)
  BY ConcatProperties DEF InputType, SerialType
<1>2. In!IsRest(KeepLast(all, MAXMESSAGELEN), all) /\ Len(KeepLast(all, MAXMESSAGELEN)) <= MAXMESSAGELEN
  BY <1>1, KeepLastIsRest, Sizes
<1>3. KeepLast(all, MAXMESSAGELEN) \in Seq(0 .. 255)
  BY <1>1, Keeping, Sizes
<1>4. \/ program = "avr_loopback" /\ loaded = <<Question>> /\ in_buf' = in_buf
      \/ in_buf' = KeepLast(all, MAXMESSAGELEN)
  BY DEF PushByte, push_back_input
<1> HIDE DEF all
<1>5. InputType'
  BY <1>2, <1>3, <1>4 DEF InputType
<1> QED BY <1>2, <1>4, <1>5 DEF all

(* Each step of a program keeps it. *)
LEMMA TypesKept ==
  ASSUME CrcYieldsDigits, RepliesAreMessages, TypeInv, [Next]_vars
  PROVE  TypeInv'
<1> USE DEF TypeInv
<1>1. CASE SendByte \/ Overrun \/ ReceiveInterrupt
  <2>1. UNCHANGED <<setup, pc, device, samples>>
    BY <1>1 DEF SendByte, Overrun, ReceiveInterrupt
  <2>2. SerialInv'
    BY <1>1, LineKeepsSerial, InterruptKeepsSerial
  <2>3. ControlType' /\ InputType' /\ OutputType' /\ SamplesType'
    BY <2>1, SamePass DEF ControlType, InputType, OutputType, SamplesType, device, samples
  <2> QED BY <2>2, <2>3
<1>2. CASE ReceiveByPolling \/ ReceiveNothing \/ TestForByte \/ LoadFront \/ StoreFront
  <2>1. UNCHANGED <<device, samples>>
    BY <1>2 DEF ReceiveByPolling, ReceiveNothing, TestForByte, LoadFront, StoreFront
  <2>2. SerialInv' /\ ControlType'
    BY <1>2, PollingKeepsSerial, TestKeepsSerial, LoadKeepsSerial, StoreKeepsSerial
  <2>3. InputType' /\ OutputType' /\ SamplesType'
    BY <2>1 DEF InputType, OutputType, SamplesType, device, samples
  <2> QED BY <2>2, <2>3
<1>3. CASE PushByte
  <2>1. SerialInv' /\ ControlType'
    BY <1>3, PushKeepsSerial
  <2>2. InputType'
    BY <1>3, PushLeads DEF SerialInv
  <2>3. OutputType' /\ SamplesType'
    BY <1>3 DEF PushByte, OutputType, SamplesType, samples
  <2> QED BY <2>1, <2>2, <2>3
<1>4. CASE ReceiveMessage
  <2>1. /\ UNCHANGED <<setup, line, serial, samples>> /\ ControlType'
        /\ Now = "receive" /\ Now' \notin {"load", "store", "push"}
        /\ In!IsRest(in_buf', in_buf)
        /\ OutputType' /\ streaming_is_on' \in BOOLEAN
    BY <1>4, ReceiveLeads DEF SamplesType
  <2>2. SerialInv'
    BY <2>1, ElsewhereKeepsSerial
  <2>3. in_buf' \in Seq(0 .. 255) /\ Len(in_buf') \in Nat /\ Len(in_buf') <= Len(in_buf)
    BY <2>1, In!RestType, SizesAssumption, OutputAssumption DEF InputType
  <2>4. InputType'
    BY <2>3, Sizes, LenProperties DEF InputType
  <2>5. SamplesType'
    BY <2>1 DEF SamplesType, samples
  <2> QED BY <2>1, <2>2, <2>4, <2>5
<1>5. CASE QuietStep
  <2>1. /\ UNCHANGED <<setup, line, serial, in_buf, streaming_is_on>>
        /\ ControlType' /\ Now \in Quiet /\ Now' \notin Moving
        /\ OutputType' /\ SamplesType'
    BY <1>5, QuietLeads
  <2>2. SerialInv'
    BY <2>1, ElsewhereKeepsSerial DEF Quiet, Moving
  <2> QED BY <2>1, <2>2 DEF InputType
<1>6. CASE UNCHANGED vars
  <2>1. UNCHANGED <<setup, pc, line, serial, device, samples>>
    BY <1>6 DEF vars
  <2>2. UNCHANGED <<uart, extraInputBuffer, loaded, lost>> /\ Now' = Now /\ Polled' = Polled
    BY <2>1, SamePass DEF serial, Now, Ended, Polled, program
  <2>3. ControlType' /\ InputType' /\ OutputType' /\ SamplesType'
    BY <2>1, SamePass DEF ControlType, InputType, OutputType, SamplesType, device, samples
  <2>4. SerialInv'
    BY <2>1, <2>2 DEF SerialInv, SerialType, PopIsAtomic, RoomIsKept
  <2> QED BY <2>3, <2>4
<1>7. \/ SendByte \/ Overrun \/ ReceiveInterrupt
      \/ ReceiveByPolling \/ ReceiveNothing \/ TestForByte \/ LoadFront \/ StoreFront
      \/ PushByte \/ ReceiveMessage \/ QuietStep \/ UNCHANGED vars
  BY DEF Next, LoopStep, QuietStep
<1> QED BY <1>1, <1>2, <1>3, <1>4, <1>5, <1>6, <1>7

----------------------------------------------------------------------------
(* The timer of the samples.                                               *)

(***************************************************************************)
(* Streaming was switched on before this pass, or in the step before the   *)
(* timer is looked after: else the timer is enabled.                       *)
(***************************************************************************)
TimerIsStarted ==
  program \in AdcPrograms =>
    /\ stream_state_before_receiving => adc_timer
    /\ streaming_is_on /\ Now # "set_timer" => adc_timer

(* Only the programs with an ADC start a conversion. *)
LEMMA ConversionsAreOfTheAdc ==
  ASSUME ControlType, Now = "start_conversion"
  PROVE  program \in AdcPrograms
<1> SUFFICES ASSUME program \notin AdcPrograms PROVE FALSE
  OBVIOUS
<1>1. Steps \in OtherPasses
  BY PassOfProgram, SetupType DEF ControlType
<1>2. pc \in 1 .. Len(Steps) /\ Steps[pc] = "start_conversion"
  BY DEF ControlType, Now, Ended
<1> DEFINE s == Steps
<1>3. s \in OtherPasses /\ pc \in 1 .. Len(s) /\ s[pc] = "start_conversion"
  BY <1>1, <1>2
<1> HIDE DEF s
<1>4. \A i \in 1 .. Len(s) : s[i] # "start_conversion"
  BY <1>3 DEF OtherPasses, PollPass, GetcPass, TestDevicePass, AnswerPass, PatternPass
<1> QED BY <1>3, <1>4

(* So the timer is started where it is asked for. *)
LEMMA TimerIsEnough ==
  ASSUME ControlType, TimerIsStarted
  PROVE  StreamingStartsTheTimer
<1>1. At("start_conversion") => Now = "start_conversion"
  BY AtNow DEF StepNames
<1> QED BY <1>1, ConversionsAreOfTheAdc DEF TimerIsStarted, StreamingStartsTheTimer

(* Each step keeps that. *)
LEMMA TimerKept ==
  ASSUME CrcYieldsDigits, RepliesAreMessages, TypeInv, TimerIsStarted, [Next]_vars
  PROVE  TimerIsStarted'
<1> USE DEF TypeInv
<1>1. setup' = setup /\ (program \in AdcPrograms)' = (program \in AdcPrograms)
  <2>1. setup' = setup
    BY DEF Next, LoopStep, SendByte, Overrun, ReceiveInterrupt, ReceiveByPolling,
       ReceiveNothing, TestForByte, LoadFront, StoreFront, PushByte, ReceiveMessage,
       TransmitByte, TransmitNothing, SaveState, SetTimer, StartConversion, StartNothing,
       Stream, StreamNothing, vars
  <2> QED BY <2>1 DEF program
<1> SUFFICES ASSUME program \in AdcPrograms
             PROVE  /\ stream_state_before_receiving' => adc_timer'
                    /\ streaming_is_on' /\ Now' # "set_timer" => adc_timer'
  BY <1>1 DEF TimerIsStarted
<1>2. /\ stream_state_before_receiving => adc_timer
      /\ streaming_is_on /\ Now # "set_timer" => adc_timer
  BY DEF TimerIsStarted
<1>3. CASE SendByte \/ Overrun \/ ReceiveInterrupt \/ UNCHANGED vars
  <2>1. UNCHANGED <<setup, pc, device, samples>>
    BY <1>3 DEF SendByte, Overrun, ReceiveInterrupt, vars
  <2>2. Now' = Now
    BY <2>1, SamePass DEF Now, Ended
  <2> QED BY <1>2, <2>1, <2>2 DEF device, samples
<1>4. CASE \/ ReceiveByPolling \/ ReceiveNothing \/ TestForByte \/ LoadFront \/ StoreFront
           \/ PushByte
  <2>1. UNCHANGED <<streaming_is_on, samples>>
    BY <1>4 DEF ReceiveByPolling, ReceiveNothing, TestForByte, LoadFront, StoreFront,
       PushByte, device
  <2>2. Now # "set_timer"
    BY <1>4, PollingKeepsSerial, TestKeepsSerial, LoadKeepsSerial, StoreKeepsSerial,
       PushKeepsSerial
  <2> QED BY <1>2, <2>1, <2>2 DEF samples
<1>5. CASE ReceiveMessage
  <2>1. /\ UNCHANGED samples
        /\ Now = "receive"
        /\ streaming_is_on' => streaming_is_on \/ (Follows(Now, Now') /\ Advance)
    BY <1>5, ReceiveLeads DEF SamplesType
  <2>2. At("receive")
    BY <2>1, AtNow DEF StepNames
  <2>3. Advance => Now' = "set_timer"
    BY <1>1, <2>2, Advancing DEF StepNames
  <2> QED BY <1>2, <2>1, <2>3 DEF samples
<1>6. CASE QuietStep
  <2>1. UNCHANGED streaming_is_on
    BY <1>6, QuietLeads
  <2>2. CASE SetTimer
    BY <1>2, <2>1, <2>2 DEF SetTimer
  <2>3. CASE ~SetTimer
    <3>1. \E x \in Quiet \ {"set_timer"} : At(x)
      BY <1>6, <2>3 DEF Quiet, QuietStep, TransmitByte, TransmitNothing, SaveState,
         StartConversion, StartNothing, Stream, StreamNothing
    <3>2. Now # "set_timer"
      BY <3>1, AtNow DEF Quiet, StepNames
    <3>3. adc_timer' = adc_timer
          /\ stream_state_before_receiving' \in {stream_state_before_receiving, streaming_is_on}
      BY <1>6, <2>3 DEF QuietStep, TransmitByte, TransmitNothing, SaveState,
         StartConversion, StartNothing, Stream, StreamNothing, samples
    <3> QED BY <1>2, <2>1, <3>2, <3>3
  <2> QED BY <2>2, <2>3
<1>7. \/ SendByte \/ Overrun \/ ReceiveInterrupt
      \/ ReceiveByPolling \/ ReceiveNothing \/ TestForByte \/ LoadFront \/ StoreFront
      \/ PushByte \/ ReceiveMessage \/ QuietStep \/ UNCHANGED vars
  BY DEF Next, LoopStep, QuietStep
<1> QED BY <1>3, <1>4, <1>5, <1>6, <1>7

----------------------------------------------------------------------------
(* The order of the bytes.                                                 *)

(* Nothing in front of a sequence is nothing. *)
LEMMA NothingInFront ==
  ASSUME NEW S, NEW s \in Seq(S)
  PROVE  <<>> \o s = s
  BY ConcatEmptySeq

(* A byte comes from the line to the UART. *)
LEMMA FiveSend ==
  ASSUME NEW S, NEW a, NEW b, NEW c, NEW e \in Seq(S), e # <<>>
  PROVE  Five(a, b, c, <<Head(e)>>, Tail(e)) = Five(a, b, c, <<>>, e)
<1>1. <<Head(e)>> \o Tail(e) = e
  BY HeadThenTail
<1>2. <<>> \o e = e
  BY NothingInFront
<1> QED BY <1>1, <1>2, Zenon DEF Five

(* It comes from the UART to extraInputBuffer. *)
LEMMA FiveReceive ==
  ASSUME NEW S, NEW a, NEW b, NEW c \in Seq(S), NEW u \in S, NEW e \in Seq(S)
  PROVE  Five(a, b, Append(c, u), <<>>, e) = Five(a, b, c, <<u>>, e)
<1>1. c \o (<<u>> \o e) = Append(c, u) \o e
  BY ByteFurther
<1>2. <<>> \o e = e
  BY NothingInFront
<1> QED BY <1>1, <1>2, Zenon DEF Five

(* It is popped. *)
LEMMA FivePop ==
  ASSUME NEW S, NEW a \in Seq(S), NEW c \in Seq(S), NEW d \in Seq(S), NEW e \in Seq(S),
         c # <<>>
  PROVE  Five(a, <<Head(c)>>, Tail(c), d, e) = Five(a, <<>>, c, d, e)
<1> DEFINE h == <<Head(c)>>
           t == Tail(c)
           z == d \o e
<1>1. h \in Seq(S) /\ t \in Seq(S) /\ h \o t = c
  BY HeadThenTail
<1>2. z \in Seq(S)
  BY ConcatProperties
<1>3. c \o z \in Seq(S)
  BY <1>2, ConcatProperties
<1>4. Associate(h, t, z)
  <2> HIDE DEF h, t, z
  <2> QED BY <1>1, <1>2, Associative
<1>5. <<>> \o (c \o z) = c \o z
  BY <1>3, NothingInFront
<1> QED BY <1>1, <1>4, <1>5, Zenon DEF Five, Associate

(* The five, and the script they are compared with. *)
AreIn(S, a, b, c, d, e, s) ==
  /\ a \in Seq(S) /\ b \in Seq(S) /\ c \in Seq(S) /\ d \in Seq(S) /\ e \in Seq(S)
  /\ s \in Seq(S)

(* What is pushed goes behind the input buffer, which loses its front. *)
LEMMA FivePush ==
  ASSUME NEW S, NEW a, NEW b, NEW c, NEW d, NEW e, NEW s, AreIn(S, a, b, c, d, e, s),
         NEW n \in 0 .. 1,
         NEW r, In!IsRest(r, a \o b), EndsWithout(Five(a, b, c, d, e), s, n)
  PROVE  EndsWithout(Five(r, <<>>, c, d, e), s, n)
<1> USE DEF AreIn
<1> DEFINE z == c \o (d \o e)
           ab == a \o b
<1>1. z \in Seq(S) /\ ab \in Seq(S) /\ ab \o z = Five(a, b, c, d, e)
  <2>1. IsRow(S, a, b, c, d, e)
    BY FiveInARow
  <2> QED BY <2>1, Zenon DEF IsRow
<1>2. <<>> \o z = z
  BY <1>1, NothingInFront
<1>3. Five(r, <<>>, c, d, e) = r \o z
  BY <1>2, Zenon DEF Five
<1>4. EndsWithout(ab \o z, s, n) /\ In!IsRest(r, ab)
  BY <1>1, Zenon
<1> HIDE DEF z, ab
<1>5. EndsWithout(r \o z, s, n)
  BY <1>1, <1>4, RestWithout
<1> QED BY <1>3, <1>5, Zenon

(* What is received is the front of the input buffer. *)
LEMMA FiveTake ==
  ASSUME NEW S, NEW a, NEW b, NEW c, NEW d, NEW e, NEW s, AreIn(S, a, b, c, d, e, s),
         NEW n \in 0 .. 1,
         NEW r, In!IsRest(r, a), EndsWithout(Five(a, b, c, d, e), s, n)
  PROVE  EndsWithout(Five(r, b, c, d, e), s, n)
<1> USE DEF AreIn
<1> DEFINE z == b \o (c \o (d \o e))
<1>1. z \in Seq(S)
  BY ConcatProperties
<1>2. EndsWithout(a \o z, s, n) /\ Five(r, b, c, d, e) = r \o z
  BY Zenon DEF Five
<1> HIDE DEF z
<1>3. EndsWithout(r \o z, s, n)
  BY <1>1, <1>2, RestWithout
<1> QED BY <1>2, <1>3, Zenon

(* A byte of the line that the UART does not take is the one lost. *)
LEMMA FiveOverrun ==
  ASSUME NEW S, NEW a, NEW b, NEW c, NEW d, NEW e, NEW s, AreIn(S, a, b, c, d, e, s), e # <<>>,
         EndsWithout(Five(a, b, c, d, e), s, 0)
  PROVE  EndsWithout(Five(a, b, c, d, Tail(e)), s, 1)
<1> USE DEF AreIn
<1> DEFINE h == Head(e)
           t == Tail(e)
           x == ((a \o b) \o c) \o d
<1>1. h \in S /\ t \in Seq(S) /\ <<h>> \o t = e
  BY HeadThenTail
<1>2. x \in Seq(S) /\ x \o e = Five(a, b, c, d, e)
  <2>1. IsRow(S, a, b, c, d, e)
    BY FiveInARow
  <2> QED BY <2>1, Zenon DEF IsRow
<1>3. x \o t = Five(a, b, c, d, t)
  <2> HIDE DEF t
  <2>1. IsRow(S, a, b, c, d, t)
    BY <1>1, FiveInARow
  <2> QED BY <2>1, Zenon DEF IsRow
<1>4. EndsWithout(x \o (<<h>> \o t), s, 0)
  BY <1>1, <1>2, Zenon
<1> HIDE DEF x, h, t
<1>5. EndsWithout(x \o t, s, 1)
  BY <1>1, <1>2, <1>4, LostWithout
<1> QED BY <1>3, <1>5, Zenon DEF t

(* The front of a full extraInputBuffer is overwritten. *)
LEMMA FiveOverwrite ==
  ASSUME NEW S, NEW a, NEW b, NEW c, NEW d, NEW e, NEW s, AreIn(S, a, b, c, d, e, s), c # <<>>,
         EndsWithout(Five(a, b, c, d, e), s, 0)
  PROVE  EndsWithout(Five(a, b, Tail(c), d, e), s, 1)
<1> USE DEF AreIn
<1> DEFINE h == Head(c)
           t == Tail(c)
           x == a \o b
           z == d \o e
           y == t \o z
<1>1. h \in S /\ t \in Seq(S) /\ <<h>> \o t = c /\ <<h>> \in Seq(S)
  BY HeadThenTail
<1>2. x \in Seq(S) /\ z \in Seq(S) /\ x \o (c \o z) = Five(a, b, c, d, e)
  <2>1. IsRow(S, a, b, c, d, e)
    BY FiveInARow
  <2> QED BY <2>1, Zenon DEF IsRow
<1>3. x \o y = Five(a, b, t, d, e)
  <2> HIDE DEF t
  <2>1. IsRow(S, a, b, t, d, e)
    BY <1>1, FiveInARow
  <2> QED BY <2>1, Zenon DEF IsRow
<1>4. Associate(<<h>>, t, z)
  <2> HIDE DEF h, t, z
  <2> QED BY <1>1, <1>2, Associative
<1>5. EndsWithout(x \o (<<h>> \o y), s, 0)
  BY <1>1, <1>2, <1>4, Zenon DEF Associate
<1> HIDE DEF x, h, t, z
<1>6. y \in Seq(S)
  BY <1>1, <1>2, ConcatProperties
<1> HIDE DEF y
<1>7. EndsWithout(x \o y, s, 1)
  BY <1>1, <1>2, <1>5, <1>6, LostWithout
<1> QED BY <1>3, <1>7, Zenon DEF t

(* A byte that is popped is one of the script. *)
LEMMA FiveQuestion ==
  ASSUME NEW S, NEW a, NEW q \in S, NEW c, NEW d, NEW e, NEW s,
         AreIn(S, a, <<q>>, c, d, e, s), NEW n \in 0 .. 1,
         EndsWithout(Five(a, <<q>>, c, d, e), s, n)
  PROVE  Where(s, q) # {}
<1> USE DEF AreIn
<1> DEFINE z == c \o (d \o e)
<1>1. z \in Seq(S)
  BY ConcatProperties
<1>2. EndsWithout(a \o (<<q>> \o z), s, n)
  BY Zenon DEF Five
<1> HIDE DEF z
<1> QED BY <1>1, <1>2, WithoutContains

(* What pop_front has returned and push_back has not taken yet.            *)
Popped == IF Now = "push" THEN loaded ELSE <<>>

(* UnderWay is as well what lies behind it. *)
LEMMA UnderWayIs ==
  ASSUME TypeInv
  PROVE  /\ UnderWay = Five(in_buf, Popped, extraInputBuffer, uart, line)
         /\ Popped \in Seq(0 .. 255)
         /\ BytesInOrder <=> Prints \/ EndsWithout(UnderWay, setup.script, lost)
<1>1. Popped = IF At("push") THEN loaded ELSE <<>>
  BY AtNow DEF StepNames, Popped
<1>2. /\ in_buf \in Seq(0 .. 255) /\ extraInputBuffer \in Seq(0 .. 255)
      /\ uart \in Seq(0 .. 255) /\ line \in Seq(0 .. 255) /\ loaded \in Seq(0 .. 255)
  BY DEF TypeInv, InputType, SerialInv, SerialType
<1>3. Popped \in Seq(0 .. 255)
  BY <1>2, EmptySeq DEF Popped
<1>4. IsRow(0 .. 255, in_buf, Popped, extraInputBuffer, uart, line)
  BY <1>2, <1>3, FiveInARow
<1>5. UnderWay = in_buf \o Popped \o extraInputBuffer \o uart \o line
  BY <1>1, Zenon DEF UnderWay
<1> QED BY <1>3, <1>4, <1>5, Zenon DEF IsRow, BytesInOrder, EndsWithout

(* The bytes in order, in these terms.                                     *)
Order == EndsWithout(Five(in_buf, Popped, extraInputBuffer, uart, line), setup.script, lost)

(* The UART and its interrupt keep the order. *)
LEMMA HardwareKeepsOrder ==
  ASSUME TypeInv, Order, SendByte \/ Overrun \/ ReceiveInterrupt
  PROVE  Order'
<1>1. UNCHANGED <<setup, pc, in_buf, loaded>> /\ Now' = Now
  <2>1. UNCHANGED <<setup, pc, in_buf, loaded>>
    BY DEF SendByte, Overrun, ReceiveInterrupt, device
  <2> QED BY <2>1, SamePass DEF Now, Ended
<1>2. Popped' = Popped /\ setup'.script = setup.script
  BY <1>1 DEF Popped
<1>3. /\ in_buf \in Seq(0 .. 255) /\ extraInputBuffer \in Seq(0 .. 255)
      /\ uart \in Seq(0 .. 255) /\ line \in Seq(0 .. 255) /\ Popped \in Seq(0 .. 255)
      /\ setup.script \in Seq(0 .. 255) /\ setup.losses \in 0 .. 1
      /\ lost \in 0 .. setup.losses
  BY SetupType, UnderWayIs DEF TypeInv, InputType, SerialInv, SerialType, ControlType
<1> DEFINE a == in_buf
           b == Popped
           c == extraInputBuffer
           s == setup.script
<1>4. EndsWithout(Five(a, b, c, uart, line), s, lost)
  BY DEF Order
<1>5. CASE SendByte
  <2>1. /\ line # <<>> /\ uart = <<>> /\ uart' = <<Head(line)>> /\ line' = Tail(line)
        /\ c' = c /\ lost' = lost
    BY <1>5 DEF SendByte
  <2>2. Five(a, b, c, <<Head(line)>>, Tail(line)) = Five(a, b, c, <<>>, line)
    BY <1>3, <2>1, FiveSend
  <2> QED BY <1>1, <1>2, <1>4, <2>1, <2>2, Zenon DEF Order
<1>6. CASE Overrun
  <2>1. line # <<>> /\ line' = Tail(line) /\ c' = c /\ uart' = uart
    BY <1>6 DEF Overrun
  <2>2. lost = 0 /\ lost' = 1
    BY <1>3, <1>6 DEF Overrun
  <2>3. EndsWithout(Five(a, b, c, uart, line), s, 0)
    BY <1>4, <2>2
  <2> HIDE DEF a, b, c, s
  <2>4. EndsWithout(Five(a, b, c, uart, Tail(line)), s, 1)
    <3>1. AreIn(0 .. 255, a, b, c, uart, line, s) /\ line # <<>>
      BY <1>3, <2>1 DEF a, b, c, s, AreIn
    <3> QED BY <2>3, <3>1, FiveOverrun, Zenon
  <2> QED BY <1>1, <1>2, <2>1, <2>2, <2>4 DEF Order, a, b, c, s
<1>7. CASE ReceiveInterrupt
  <2> DEFINE u == Head(uart)
  <2>1. uart # <<>> /\ uart' = <<>> /\ line' = line /\ push_back_extra(u)
    BY <1>7 DEF ReceiveInterrupt
  <2>2. u \in 0 .. 255 /\ uart = <<u>>
    BY <2>1, ByteInUart DEF TypeInv, SerialInv
  <2>3. lost \in Nat /\ Len(c) \in Nat /\ Len(c) <= ExtraSize
    BY <1>3, LenProperties DEF TypeInv, SerialInv, SerialType
  <2>4. /\ Len(c) < ExtraSize => c' = Append(c, u) /\ lost' = lost
        /\ Len(c) = ExtraSize => c # <<>> /\ c' = Append(Tail(c), u) /\ lost' = lost + 1
    BY <1>3, <2>1, <2>2, <2>3, PushExtra
  <2>5. CASE Len(c) < ExtraSize
    <3>1. Five(a, b, Append(c, u), <<>>, line) = Five(a, b, c, <<u>>, line)
      BY <1>3, <2>2, FiveReceive
    <3> QED BY <1>1, <1>2, <1>4, <2>1, <2>2, <2>4, <2>5, <3>1, Zenon DEF Order
  <2>6. CASE Len(c) = ExtraSize
    <3> DEFINE t == Tail(c)
    <3>1. c # <<>> /\ c' = Append(t, u) /\ lost' = lost + 1
      BY <2>4, <2>6
    <3>2. lost = 0 /\ lost' = 1
      <4>1. lost < setup.losses
        BY <2>1, <2>3, <2>6, Sizes, <1>7 DEF TypeInv, SerialInv, RoomIsKept, ReceiveInterrupt
      <4> QED BY <1>3, <3>1, <4>1
    <3>3. t \in Seq(0 .. 255)
      BY <1>3, <3>1, HeadTailProperties
    <3>4. EndsWithout(Five(a, b, c, uart, line), s, 0)
      BY <1>4, <3>2
    <3>5. EndsWithout(Five(a, b, t, uart, line), s, 1)
      <4> HIDE DEF a, b, c, s
      <4>1. AreIn(0 .. 255, a, b, c, uart, line, s) /\ c # <<>>
        BY <1>3, <3>1 DEF a, b, c, s, AreIn
      <4> QED BY <3>4, <4>1, FiveOverwrite, Zenon
    <3> HIDE DEF t
    <3>6. Five(a, b, Append(t, u), <<>>, line) = Five(a, b, t, <<u>>, line)
      BY <1>3, <2>2, <3>3, FiveReceive
    <3> QED BY <1>1, <1>2, <2>1, <2>2, <3>1, <3>2, <3>5, <3>6, Zenon DEF Order
  <2> QED BY <2>3, <2>5, <2>6, Sizes
<1> QED BY <1>5, <1>6, <1>7

(* Steps that leave these bytes alone keep it. *)
LEMMA ElsewhereKeepsOrder ==
  ASSUME Order, UNCHANGED <<setup, in_buf, extraInputBuffer, uart, line, lost>>,
         Popped' = Popped
  PROVE  Order'
  BY DEF Order

(* The loop keeps it when it moves a byte, *)
LEMMA MovingKeepsOrder ==
  ASSUME TypeInv, Order,
         \/ ReceiveByPolling \/ ReceiveNothing \/ TestForByte \/ LoadFront \/ StoreFront
  PROVE  Order'
<1> USE DEF TypeInv
<1>1. /\ in_buf \in Seq(0 .. 255) /\ extraInputBuffer \in Seq(0 .. 255)
      /\ uart \in Seq(0 .. 255) /\ line \in Seq(0 .. 255) /\ Popped \in Seq(0 .. 255)
      /\ setup.script \in Seq(0 .. 255)
  BY SetupType, UnderWayIs DEF InputType, SerialInv, SerialType, ControlType
<1>2. UNCHANGED <<setup, in_buf, line>>
  BY DEF ReceiveByPolling, ReceiveNothing, TestForByte, LoadFront, StoreFront, device, serial
<1> DEFINE a == in_buf
           b == Popped
           c == extraInputBuffer
           s == setup.script
<1>3. EndsWithout(Five(a, b, c, uart, line), s, lost)
  BY DEF Order
<1>4. CASE ReceiveByPolling
  <2> DEFINE u == Head(uart)
  <2>1. uart # <<>> /\ uart' = <<>> /\ push_back_extra(u)
    BY <1>4 DEF ReceiveByPolling
  <2>2. u \in 0 .. 255 /\ uart = <<u>>
    BY <2>1, ByteInUart DEF SerialInv
  <2>3. Now = "getc" /\ Now' # "push"
    BY <1>4, PollingKeepsSerial DEF Follows
  <2>4. b = <<>> /\ b' = <<>>
    BY <2>3 DEF Popped
  <2>5. lost \in Nat /\ Len(c) \in Nat /\ Len(c) <= ExtraSize /\ (c = <<>> => Len(c) = 0)
    BY <1>1, SetupType, LenProperties, EmptySeq DEF SerialInv, SerialType, ControlType
  <2>6. /\ Len(c) < ExtraSize => c' = Append(c, u) /\ lost' = lost
        /\ Len(c) = ExtraSize => c # <<>> /\ c' = Append(Tail(c), u) /\ lost' = lost + 1
    BY <1>1, <2>1, <2>2, <2>5, PushExtra
  <2>7. CASE Len(c) < ExtraSize
    <3>1. Five(a, b, Append(c, u), <<>>, line) = Five(a, b, c, <<u>>, line)
      BY <1>1, <2>2, FiveReceive
    <3> QED BY <1>2, <1>3, <2>1, <2>2, <2>4, <2>6, <2>7, <3>1, Zenon DEF Order
  <2>8. CASE Len(c) = ExtraSize
    <3>1. ~Polled
      BY <2>3, <2>6, <2>8 DEF SerialInv, RoomIsKept
    <3> DEFINE t == Tail(c)
    <3>2. c # <<>> /\ c' = Append(t, u) /\ lost' = lost + 1
      BY <2>6, <2>8
    <3>3. lost = 0 /\ lost' = 1
      <4>1. lost < setup.losses
        BY <2>1, <2>5, <2>8, <3>1, Sizes DEF SerialInv, RoomIsKept
      <4>2. setup.losses \in 0 .. 1
        BY SetupType DEF ControlType
      <4> QED BY <2>5, <3>2, <4>1, <4>2
    <3>4. t \in Seq(0 .. 255)
      BY <1>1, <3>2, HeadTailProperties
    <3>5. EndsWithout(Five(a, b, c, uart, line), s, 0)
      BY <1>3, <3>3
    <3>6. EndsWithout(Five(a, b, t, uart, line), s, 1)
      <4> HIDE DEF a, b, c, s
      <4>1. AreIn(0 .. 255, a, b, c, uart, line, s) /\ c # <<>>
        BY <1>1, <3>2 DEF a, b, c, s, AreIn
      <4> QED BY <3>5, <4>1, FiveOverwrite, Zenon
    <3> HIDE DEF t
    <3>7. Five(a, b, Append(t, u), <<>>, line) = Five(a, b, t, <<u>>, line)
      BY <1>1, <2>2, <3>4, FiveReceive
    <3> QED BY <1>2, <2>1, <2>2, <2>4, <3>2, <3>3, <3>6, <3>7, Zenon DEF Order
  <2> QED BY <2>5, <2>7, <2>8, Sizes
<1>5. CASE StoreFront
  <2>1. /\ Now = "store" /\ Now' = "push" /\ c # <<>>
        /\ loaded' = <<Head(c)>> /\ c' = Tail(c) /\ UNCHANGED <<setup, line, uart, lost>>
    BY <1>5, StoreKeepsSerial
  <2>2. b = <<>> /\ b' = <<Head(c)>>
    BY <2>1 DEF Popped
  <2>3. Five(a, <<Head(c)>>, Tail(c), uart, line) = Five(a, <<>>, c, uart, line)
    BY <1>1, <2>1, FivePop
  <2> QED BY <1>2, <1>3, <2>1, <2>2, <2>3, Zenon DEF Order
<1>6. CASE ReceiveNothing \/ TestForByte \/ LoadFront
  <2>1. UNCHANGED <<extraInputBuffer, uart, lost>>
    BY <1>6 DEF ReceiveNothing, TestForByte, LoadFront, serial
  <2>2. Now # "push" /\ Now' # "push"
    BY <1>6, PollingKeepsSerial, TestKeepsSerial, LoadKeepsSerial DEF Follows
  <2>3. Popped' = Popped
    BY <2>2 DEF Popped
  <2> QED BY <1>2, <2>1, <2>3, ElsewhereKeepsOrder
<1> QED BY <1>4, <1>5, <1>6

(* pushes it, receives a message, and in all its other steps. *)
LEMMA LoopKeepsOrder ==
  ASSUME CrcYieldsDigits, RepliesAreMessages, TypeInv, Order, ~Prints,
         PushByte \/ ReceiveMessage \/ QuietStep
  PROVE  Order'
<1> USE DEF TypeInv
<1>1. /\ in_buf \in Seq(0 .. 255) /\ extraInputBuffer \in Seq(0 .. 255)
      /\ uart \in Seq(0 .. 255) /\ line \in Seq(0 .. 255) /\ Popped \in Seq(0 .. 255)
      /\ setup.script \in Seq(0 .. 255) /\ lost \in 0 .. 1
  <2>1. lost \in 0 .. setup.losses /\ setup.losses \in 0 .. 1
    BY SetupType DEF SerialInv, SerialType, ControlType
  <2> QED BY <2>1, SetupType, UnderWayIs DEF InputType, SerialInv, SerialType, ControlType
<1> DEFINE a == in_buf
           b == Popped
           c == extraInputBuffer
           s == setup.script
           n == lost
<1>2. EndsWithout(Five(a, b, c, uart, line), s, n)
  BY DEF Order
<1>3. CASE PushByte
  <2>1. /\ Now = "push" /\ Now' = "receive"
        /\ UNCHANGED <<setup, line, uart, extraInputBuffer, lost>>
    BY <1>3, PushKeepsSerial
  <2>2. b = loaded /\ b' = <<>>
    BY <2>1 DEF Popped
  <2>3. \/ program = "avr_loopback" /\ loaded = <<Question>> /\ in_buf' = in_buf
        \/ In!IsRest(in_buf', in_buf \o loaded)
    BY <1>3, PushLeads DEF SerialInv
  <2>4. ASSUME program = "avr_loopback", loaded = <<Question>> PROVE FALSE
    <3>1. EndsWithout(Five(a, <<Question>>, c, uart, line), s, n)
      BY <1>2, <2>2, <2>4
    <3>2. Question \in 0 .. 255
      BY DEF Question
    <3> HIDE DEF a, c, s, n
    <3>3. AreIn(0 .. 255, a, <<Question>>, c, uart, line, s) /\ n \in 0 .. 1
      BY <1>1, <3>2 DEF a, c, s, n, AreIn
    <3>4. Where(s, Question) # {}
      BY <3>1, <3>2, <3>3, FiveQuestion, Zenon
    <3> QED BY <2>4, <3>4 DEF Prints, s
  <2>5. In!IsRest(in_buf', a \o b)
    BY <2>2, <2>3, <2>4
  <2>6. PICK r : r = in_buf'
    OBVIOUS
  <2>7. EndsWithout(Five(r, <<>>, c, uart, line), s, n)
    <3>1. In!IsRest(r, a \o b)
      BY <2>5, <2>6
    <3> HIDE DEF a, b, c, s, n
    <3>2. AreIn(0 .. 255, a, b, c, uart, line, s) /\ n \in 0 .. 1
      BY <1>1 DEF a, b, c, s, n, AreIn
    <3> QED BY <1>2, <3>1, <3>2, FivePush, Zenon
  <2> QED BY <2>1, <2>2, <2>6, <2>7, Zenon DEF Order
<1>4. CASE ReceiveMessage
  <2>1. /\ UNCHANGED <<setup, line, serial>>
        /\ Now = "receive" /\ Now' \notin {"load", "store", "push"}
        /\ In!IsRest(in_buf', in_buf)
    BY <1>4, ReceiveLeads DEF SamplesType
  <2>2. UNCHANGED <<extraInputBuffer, uart, lost>> /\ Popped' = Popped
    BY <2>1 DEF serial, Popped
  <2>3. PICK r : r = in_buf'
    OBVIOUS
  <2>4. EndsWithout(Five(r, b, c, uart, line), s, n)
    <3>1. In!IsRest(r, a)
      BY <2>1, <2>3
    <3> HIDE DEF a, b, c, s, n
    <3>2. AreIn(0 .. 255, a, b, c, uart, line, s) /\ n \in 0 .. 1
      BY <1>1 DEF a, b, c, s, n, AreIn
    <3> QED BY <1>2, <3>1, <3>2, FiveTake, Zenon
  <2> QED BY <2>1, <2>2, <2>3, <2>4, Zenon DEF Order
<1>5. CASE QuietStep
  <2>1. UNCHANGED <<setup, line, serial, in_buf>> /\ Now \in Quiet /\ Now' \notin Moving
    BY <1>5, QuietLeads
  <2>2. UNCHANGED <<extraInputBuffer, uart, lost>> /\ Popped' = Popped
    BY <2>1 DEF serial, Popped, Quiet, Moving
  <2> QED BY <2>1, <2>2, ElsewhereKeepsOrder
<1> QED BY <1>3, <1>4, <1>5

----------------------------------------------------------------------------
(* What is streamed.                                                       *)

(* The characters of a stream message are none of the frame's own. *)
LEMMA StreamMessageIsPlain ==
  ASSUME SamplesType
  PROVE  Plain(StreamMessage(send_stream_frame_counter, Payload))
<1> DEFINE n == send_stream_frame_counter
           hex == convert_uint8_to_hex(n)
           hc == hex \o <<Comma>>
           data == hc \o Payload
           m == StreamMessage(n, Payload)
           C == (0 .. 255) \ Delimiters
<1>1. n \in 0 .. 255
  BY Sizes DEF SamplesType
<1>2. hex \in Seq(C)
  <2>1. n \div 16 \in 0 .. 15 /\ (n % 16) \in 0 .. 15
    <3> HIDE DEF n
    <3> QED BY <1>1
  <2>2. \A d \in 0 .. 15 : hex_digit(d) \in C
    BY DEF hex_digit, Delimiters, Gt, Dot, Nl
  <2>3. hex_digit(n \div 16) \in C /\ hex_digit(n % 16) \in C
    BY <2>1, <2>2
  <2> HIDE DEF C
  <2> QED BY <2>3 DEF convert_uint8_to_hex
<1>3. <<Comma>> \in Seq(C)
  <2>1. Comma \in C
    BY DEF Comma, Delimiters, Gt, Dot, Nl
  <2> HIDE DEF C
  <2> QED BY <2>1
<1>4. Payload \in Seq(C)
  BY UartAssumption
<1> HIDE DEF C, hex
<1>5. hc \in Seq(C)
  BY <1>2, <1>3, ConcatProperties
<1> HIDE DEF hc
<1>6. data \in Seq(C)
  BY <1>4, <1>5, ConcatProperties
<1>7. m = Message(48, 48, 115, data)
  BY Zenon DEF StreamMessage, hc, hex
<1> HIDE DEF data
<1>8. \A i \in 1 .. Len(data) : data[i] \notin Delimiters
  <2>1. \A i \in 1 .. Len(data) : data[i] \in C
    BY <1>6, ElementOfSeq
  <2> QED BY <2>1 DEF C
<1>9. m.data = data /\ m.ascVersion = 48 /\ m.appVersion = 48 /\ m.command = 115
  BY <1>7 DEF Message
<1>10. {48, 115} \cap Delimiters = {}
  BY DEF Delimiters, Gt, Dot, Nl
<1> HIDE DEF m
<1> QED BY <1>8, <1>9, <1>10 DEF Plain, m

(* A put of such a message into an empty output buffer puts all of it. *)
LEMMA StreamLeaves ==
  ASSUME CrcYieldsDigits, OutputType, out_buf.bytes = <<>>,
         NEW m, Out!IsMessage(m), Plain(m), Len(m.data) <= MAXDATALEN,
         NEW outcome \in put_message(out_buf, m)
  PROVE  outcome.buf.bytes = Frame(m)
<1> DEFINE packed == Out!push_all(out_buf, Out!Body(m))
           body == Out!Body(m)
           ld == Len(m.data)
<1>1. /\ out_buf \in Out!Buffers /\ Out!CrcYieldsDigits /\ Out!Plain(m)
      /\ outcome \in Out!put_message(out_buf, m)
  BY SamePut DEF OutputType, Out!Buffers, Out!Bytes, CrcYieldsDigits, Out!Plain, Plain,
     Out!Delimiters, Delimiters, Out!Gt, Gt, Out!Dot, Dot, Out!Nl, Nl
<1>2. Len(out_buf.bytes) = 0
  BY EmptySeq
<1>3. /\ MAXMESSAGELEN \in Nat /\ MAXDATALEN \in Nat /\ NCHARCHECKSUM \in Nat
      /\ MAXMESSAGELEN = MAXDATALEN + NCHARCHECKSUM + 6
  BY SizesAssumption
<1>4. body \in Out!Bytes /\ ld \in Nat /\ Len(body) = ld + 5
  BY Out!BodyOf, SizesAssumption, OutputAssumption
<1>5. 0 + ld + NCHARCHECKSUM + 6 <= MAXMESSAGELEN /\ 0 + Len(body) <= MAXMESSAGELEN
      /\ ~(0 + ld + 5 > MAXMESSAGELEN)
  BY <1>3, <1>4
<1>6. packed = [bytes |-> out_buf.bytes \o body, iStart |-> out_buf.iStart]
  BY <1>1, <1>2, <1>4, <1>5, Out!PushFits, SizesAssumption, OutputAssumption
<1>7. Out!StartOf(packed) = 0
  <2>1. /\ Len(packed.bytes) = IF Len(out_buf.bytes) + Len(m.data) + 5 > MAXMESSAGELEN
                               THEN MAXMESSAGELEN ELSE Len(out_buf.bytes) + Len(m.data) + 5
        /\ Out!StartOf(packed) = Len(packed.bytes) - (Len(m.data) + 5)
    BY <1>1, Out!PackedFrame, SizesAssumption, OutputAssumption
  <2> HIDE DEF packed
  <2>2. Len(packed.bytes) = ld + 5
    BY <1>2, <1>4, <1>5, <2>1
  <2> QED BY <1>4, <2>1, <2>2
<1>8. ~Out!RunsOut(packed)
  <2>1. packed.iStart \in Nat /\ packed.iStart < MAXMESSAGELEN
    BY <1>1, <1>3, <1>6 DEF Out!Buffers
  <2> HIDE DEF packed
  <2> QED BY <1>3, <1>7, <2>1 DEF Out!RunsOut
<1>9. outcome.err # "crashed"
  BY <1>1, <1>8 DEF Out!put_message, Out!Outcome, Out!checksum_error
<1>10. outcome.err = "none"
  <2>1. outcome.err \in {"none", "crashed"}
    BY <1>1, <1>2, <1>5, Out!Packing, SizesAssumption, OutputAssumption
  <2> QED BY <1>9, <2>1
<1>11. ~Out!wraps(out_buf)
  BY <1>1, <1>2, <1>3 DEF Out!wraps, Out!Buffers
<1>12. outcome.buf.bytes = <<>> \o Out!Frame(m)
  BY <1>1, <1>10, <1>11, Out!Packing, SizesAssumption, OutputAssumption
<1>13. Out!Frame(m) = Frame(m) /\ Frame(m) \in Seq(0 .. 255)
  <2>1. Out!Body(m) = Body(m) /\ Out!Frame(m) = Frame(m)
    BY DEF Out!Frame, Frame, Out!Body, Body, Out!Gt, Gt, Out!Dot, Dot, Out!Nl, Nl
  <2>2. Body(m) \in Seq(0 .. 255) /\ Crc(Body(m)) \in Seq(0 .. 255) /\ <<Nl>> \in Seq(0 .. 255)
    BY <1>1, <1>4, <2>1 DEF Out!CrcYieldsDigits, Out!Bytes, Nl
  <2>3. Body(m) \o Crc(Body(m)) \in Seq(0 .. 255)
    BY <2>2, ConcatProperties
  <2> QED BY <2>1, <2>2, <2>3, ConcatProperties DEF Frame
<1> QED BY <1>12, <1>13, NothingInFront

----------------------------------------------------------------------------
(* The theorems.                                                           *)

IInv == TypeInv /\ BytesInOrder /\ TimerIsStarted

(* Both forms of the order say the same. *)
LEMMA OrderIs == TypeInv => (BytesInOrder <=> Prints \/ Order)
  BY UnderWayIs DEF Order

(* The same of the state after a step. *)
LEMMA OrderWillBe == TypeInv' => (BytesInOrder' <=> Prints' \/ Order')
  BY OrderIs, PTL

(* The bytes stay in order. *)
LEMMA OrderKept ==
  ASSUME CrcYieldsDigits, RepliesAreMessages, TypeInv, BytesInOrder, [Next]_vars
  PROVE  BytesInOrder'
<1>1. TypeInv'
  BY TypesKept
<1>2. BytesInOrder' <=> Prints' \/ Order'
  BY <1>1, OrderWillBe
<1>3. setup' = setup
  BY DEF Next, LoopStep, SendByte, Overrun, ReceiveInterrupt, ReceiveByPolling,
     ReceiveNothing, TestForByte, LoadFront, StoreFront, PushByte, ReceiveMessage,
     TransmitByte, TransmitNothing, SaveState, SetTimer, StartConversion, StartNothing,
     Stream, StreamNothing, vars
<1>4. CASE Prints
  <2>1. Prints'
    BY <1>3, <1>4 DEF Prints, program
  <2> QED BY <1>2, <2>1
<1>5. CASE ~Prints
  <2>1. Order
    BY <1>5, OrderIs
  <2>2. CASE SendByte \/ Overrun \/ ReceiveInterrupt
    BY <1>2, <2>1, <2>2, HardwareKeepsOrder
  <2>3. CASE ReceiveByPolling \/ ReceiveNothing \/ TestForByte \/ LoadFront \/ StoreFront
    BY <1>2, <2>1, <2>3, MovingKeepsOrder
  <2>4. CASE PushByte \/ ReceiveMessage \/ QuietStep
    BY <1>2, <1>5, <2>1, <2>4, LoopKeepsOrder
  <2>5. CASE UNCHANGED vars
    <3>1. UNCHANGED <<setup, in_buf, extraInputBuffer, uart, line, lost, pc, loaded>>
      BY <2>5 DEF vars, serial, device
    <3>2. Popped' = Popped
      BY <3>1, SamePass DEF Popped, Now, Ended
    <3>3. Order'
      BY <2>1, <3>1, <3>2, ElsewhereKeepsOrder
    <3> QED BY <1>2, <3>3
  <2>6. \/ SendByte \/ Overrun \/ ReceiveInterrupt
        \/ ReceiveByPolling \/ ReceiveNothing \/ TestForByte \/ LoadFront \/ StoreFront
        \/ PushByte \/ ReceiveMessage \/ QuietStep \/ UNCHANGED vars
    BY DEF Next, LoopStep, QuietStep
  <2> QED BY <2>2, <2>3, <2>4, <2>5, <2>6
<1> QED BY <1>4, <1>5

(* First, they are all to come. *)
LEMMA OrderAtFirst == Init => BytesInOrder
<1> SUFFICES ASSUME Init PROVE BytesInOrder
  OBVIOUS
<1>1. /\ setup \in Setups /\ line = setup.script /\ in_buf = <<>> /\ uart = <<>>
      /\ extraInputBuffer = <<>> /\ loaded = <<>> /\ lost = 0
  BY DEF Init, LoopInit
<1>2. line \in Seq(0 .. 255)
  BY <1>1, SetupType
<1>3. UnderWay = line
  <2>1. <<>> \in Seq(0 .. 255)
    BY EmptySeq
  <2>2. <<>> \o <<>> = <<>> /\ <<>> \o line = line
    BY <1>2, <2>1, NothingInFront
  <2> QED BY <1>1, <2>2, Zenon DEF UnderWay
<1>4. Ends(line, line)
  BY <1>2, LenProperties DEF Ends, KeepLast
<1>5. setup.script \in Without(setup.script, lost)
  BY <1>1 DEF Without
<1> QED BY <1>1, <1>3, <1>4, <1>5 DEF BytesInOrder

(* The invariant of the loops. *)
LEMMA Invariance ==
  ASSUME CrcYieldsDigits, RepliesAreMessages
  PROVE  Spec => []IInv
<1>1. Init => IInv
  <2>1. Init => TimerIsStarted
    BY DEF Init, LoopInit, TimerIsStarted
  <2> QED BY <2>1, TypesAtFirst, OrderAtFirst DEF IInv
<1>2. IInv /\ [Next]_vars => IInv'
  BY TypesKept, OrderKept, TimerKept DEF IInv
<1> QED BY <1>1, <1>2, PTL DEF Spec

(***************************************************************************)
(* The variables of the microcontroller programs have their types, and     *)
(* their buffers never hold more than they have room for, for every set of *)
(* programs, scripts and sizes.                                            *)
(***************************************************************************)
THEOREM UartTypeOK ==
  ASSUME CrcYieldsDigits, RepliesAreMessages
  PROVE  Spec => []TypeOK
<1>1. IInv => TypeOK
  BY TypeInvIsTypeOK DEF IInv
<1> QED BY <1>1, Invariance, PTL

(***************************************************************************)
(* No interleaving of the receive interrupt with the test for a byte, the  *)
(* two halves of the pop and the push loses, doubles or swaps a byte of    *)
(* the host's.                                                             *)
(***************************************************************************)
THEOREM UartKeepsTheOrder ==
  ASSUME CrcYieldsDigits, RepliesAreMessages
  PROVE  Spec => []BytesInOrder
<1>1. IInv => BytesInOrder
  BY DEF IInv
<1> QED BY <1>1, Invariance, PTL

(***************************************************************************)
(* Whenever the loop asks whether the timer of the samples has expired,    *)
(* with streaming on, the timer has been started.                          *)
(***************************************************************************)
THEOREM UartStartsTheTimer ==
  ASSUME CrcYieldsDigits, RepliesAreMessages
  PROVE  Spec => []StreamingStartsTheTimer
<1>1. IInv => StreamingStartsTheTimer
  BY TimerIsEnough DEF IInv, TypeInv
<1> QED BY <1>1, Invariance, PTL

(***************************************************************************)
(* A message is streamed whole, or not at all: READY_TO_STREAM is enough   *)
(* for a put that is not refused, whatever is streamed and however much of *)
(* the output was transmitted before.                                      *)
(***************************************************************************)
THEOREM UartStreamsWholeMessages ==
  ASSUME CrcYieldsDigits, RepliesAreMessages
  PROVE  Spec => StreamsAreWhole
<1> DEFINE A == Stream => out_buf'.bytes
                            = Frame(StreamMessage(send_stream_frame_counter, Payload))
<1>1. IInv /\ [Next]_vars => [A]_vars
  <2> SUFFICES ASSUME IInv, Stream PROVE A
    OBVIOUS
  <2> DEFINE m == StreamMessage(send_stream_frame_counter, Payload)
  <2>1. PICK outcome \in put_message(out_buf, m) : out_buf' = outcome.buf
    BY DEF Stream
  <2>2. OutputType /\ SamplesType
    BY DEF IInv, TypeInv
  <2>3. Out!IsMessage(m) /\ Len(m.data) <= MAXDATALEN /\ Plain(m)
    BY <2>2, StreamMessageIs, StreamMessageIsPlain
  <2>4. out_buf.bytes = <<>>
    <3>1. Len(out_buf.bytes) = 0 /\ out_buf.bytes \in Seq(0 .. 255)
      BY <2>2 DEF Stream, READY_TO_STREAM, OutputType
    <3> QED BY <3>1, EmptySeq
  <2> HIDE DEF m
  <2>5. outcome.buf.bytes = Frame(m)
    BY <2>1, <2>2, <2>3, <2>4, StreamLeaves
  <2> QED BY <2>1, <2>5 DEF m
<1> QED BY <1>1, Invariance, PTL DEF Spec, StreamsAreWhole

=============================================================================
