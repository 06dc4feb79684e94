# ASCII Serial Com in C: a TLA+ verification

ASCII Serial Com is a message protocol for microcontrollers: readable frames
`> version version command data . checksum \n` over a serial line. The
repository holds the C library and the device programs that use it. This
directory holds the model of the library, its TLC runs and its TLAPS proofs.

Line numbers are those of the repository at the modelled commit. `PROJECT.json`
maps every definition to the lines it stands for.

## 1. Inventory

| part (source) | state | operations | interacts with |
|---|---|---|---|
| circular buffer (`circular_buffer.c`) | `iStart`, `iStop`, `size`, memory | push and pop at both ends, blocks, file descriptors, `remove_*`, `find_*`, `get_blocks` | used by everything below; filled by interrupts or `read`, drained by the UART or `write` |
| frames (`ascii_serial_com.c`) | input and output ring, stream counter, CRC switch | `put_message`, `put_s_message`, `put_error`, `get_message`, `compute_checksum`, hex conversions | throws exceptions to the program's loop |
| device (`ascii_serial_com_device.c`) | the frame state, the last message, callbacks | `receive` | `get_message`, then a callback or an error reply |
| registers (`ascii_serial_com_register_block.c`, `..._pointers.c`) | an array of registers, or of pointers and write masks | `handle_message` | callback of the device; the registers are also changed by interrupts and hardware |
| polling loop (`asc_helpers.h`) | `extraInputBuffer`, `streaming_is_on` | transmit a byte, move a byte, `receive`, stream | the receive interrupt pushes into `extraInputBuffer` |
| poll adapter (`circular_buffer_io_fd_poll.c`) | two `pollfd`s | `do_poll`, `do_input`, `do_output` | the rings of the native programs |
| timer (`millisec_timer.c`) | `set_time`, `expire_time`, `enabled`; `MILLISEC_TIMER_NOW` | `set_rel`, `is_expired`, `is_expired_repeat`, the tick interrupt | ADC streaming programs |
| CRC-16/DNP (`crc_16_dnp_*.c`) | the running remainder of the caller | four implementations of update and finalize | `compute_checksum`, once per block of the ring |
| programs (`native/`, `avr/`, `arm/`, `riscv/`) | timeouts, flags | main loops with Try/Catch | all of the above |

What is hard in this code, and what would make each part correct:

* **circular buffer.** Three redundant indices through wraps, overwrites and
  resets; raw memory blocks handed to `read`, `write` and the CRC. Correct: it is
  a bounded deque that loses bytes only at the far end, and every block it hands
  out is the elements asked for.
* **input.** Lost, altered and added bytes join and tear frames;
  `get_message_from_input_buffer` pops byte by byte and may throw between two
  pops. Correct: only whole frames are unpacked, no good frame is eaten, and
  a good frame does not wait for ever.
* **output.** `put_message` has no test for room and its checksum is computed over
  raw blocks of a ring that also holds unsent output. Correct: an accepted message
  is appended as its frame and overwrites nothing; what cannot be is refused.
* **registers.** Length tests, stale digits in the data buffer, read-modify-write
  against an interrupt. Correct: a reply reflects the register; a write
  changes the masked bits of one register and nothing else.
* **loops.** An interrupt between test and pop; an exception that skips the rest of an
  iteration; a `poll` that blocks with data pending.
  Correct: no byte is lost behind the UART, what is put is sent, what has come is
  taken, and streaming, once on, streams.
* **timer.** Arithmetic modulo 2^w; a counter torn by an interrupt. Correct: an interval
  ends when it is over in true time.
* **CRC.** Frames cut in two blocks, registers of any width. Correct: the four
  implementations are one function.

The hazards, line by line, are in `PROJECT.json`, each with the properties that
cover it or why none does.

## 2. Modules

```
CallResult   ByteQueue             AscFrame             Hex
     \        /   \   \______________/   \_____        / |  \
    BoundedDeque   \     AscUnpack     AscPack -------'  |   RegisterMessages
         ^ refines  \    |      \      /     \           Crc     /         \
CircularBufferOps    \  AscInput MainLoop  AscOutput         AscDevice -> RegisterFile
         |            \            /   \                              refines
  CircularBuffer       \     UartLoop  PollLoop           MillisecTimer
                        \          (AscLink: AscOutput, AscUnpack)
  ByteQueueLemmas -- AscInputProofs, AscOutputProofs -- UartLoopProofs, PollLoopProofs
  CircularBufferProofs, HexProofs (AscDevice, Crc), MillisecTimerProofs
  MCParts (AscDevice, Crc, MillisecTimer)
```

Each state machine has an `MC` module with the values of its constants. The proofs of a
module extend it. `MCParts` puts the device, the checksum and the timer into one run: they share no state, and in
each behaviour one of them moves and the others stay as they started.

**CircularBufferOps** has every function of the ring as an operator on the C
struct (`capacity` never changes and is the constant `Capacity`). Loops of pops are
given in closed form (`pop_front_n`, `pop_back_n`). `remove_front_unfinished_frames`
is given in closed form by `last_entry`, `Candidates` and `unfinished`, and once
more with its recursion written out (`unfinished_call` is one call of the C function, `unfinished_calls` the recursive function of them).
`size_t` arithmetic is modulo `SizeRange`.

**CircularBuffer** is the state machine: `cb` is the struct, `out` what the last
function returned or threw, `loop` the locals of a running `push_back_block` or
`push_back_string`. There is one action per function; the two push loops take one step
per byte. `read` and `write` may take any number of the bytes offered, or fail.
`get_first_block` and `delete_first_block` are one action, since the header asks for
them to be used as a pair. A call of a popping function on an empty ring throws and
leaves the ring alone. `count` and the print functions only look and are not modelled.

**BoundedDeque** is the abstract specification: a sequence and the last result, in
the words of `circular_buffer.h` but for one function: `PushBackFromFd` takes no more than there is room for
unless the deque is full, and then overwrites its front, as the code does. The header says that it stops when full;
`ReadsStopWhenFull` is that statement, and does not hold (section 5).
Its operators on sequences are in **ByteQueue**. `remove_front_unfinished_frames` is
there defined by what it is for, the frame it brings to the front (`FrontFrame`), not by
how it searches.

**AscFrame** is the frame and the error conditions of `compute_checksum`. The
checksum itself is the constant operator `Crc`: what is said of frames does not
depend on the polynomial.

**AscUnpack** is `get_message_from_input_buffer` as an operator, from the content of the
input buffer to the buffer, exception and message that a call leaves; **AscPack** is
`put_message_in_output_buffer` likewise. The loops below call them; **AscInput** and
**AscOutput** are the state machines that test them alone.

**AscInput** is `get_message_from_input_buffer` with a host and a line. The
input buffer is a sequence, justified by the refinement above; the one place where the
memory of the ring could matter is the CRC over raw blocks, and there the range begins at
the front, where the blocks are right (`UnwrappedBlocksHoldTheElements`). One call is
one action: on the microcontrollers the interrupt writes to another ring
(`extraInputBuffer`), so nothing runs between the steps of a call. The line may lose,
alter or add `MaxErrors` bytes. A full ring drops its oldest byte (`KeepLast`).

**AscOutput** is the three `put` functions and the draining of the buffer. Here the
place of the content in memory matters, because `compute_checksum` begins at the
*last* `>`; the state keeps `iStart` beside the bytes. If the range begins behind the
wrap, the size of the block is a wrapped `size_t`: the CRC walks out of the
buffer, and the outcome is any member of `Garbage` or a crash (`err = "crashed"`,
after which nothing runs).

**AscLink** puts a host with the same library at the other end of `AscOutput`. `Heard` (of `AscUnpack`) is what
repeated calls of `get_message` make of the content of the output buffer, torn bytes of refused messages and halves of
frames included; the host calls as often as it was sent bytes, and a call that leaves every byte is followed by none
that does not. What `IsFrame` says a frame is, without a word of how it is found, is the reference. A `.` within
three bytes of a `>` (`Malformed`, left only by a message that holds frame characters) is the finding of
`frames_are_unpacked` and excepted here.

**Hex** has the conversions. A number is the set of its one bits, so that the masks of
the register handlers are set operations and no operator on bits is needed.

**AscDevice** is `receive` with both register handlers, for every way a program sets the
device up (`config`, chosen at the start). `dataBuffer` is kept across messages, since
request, reply and refused frames share it and nothing clears it. A write through
pointers takes two steps, the read of the register and its store (`FinishWrite`);
`Hardware` can change a bit at any time, also between the two. `put_message` appends its message
or throws for lack of room, which is what `AscOutput` shows of it. An `answer` is what one call of
`receive` comes to: the request, the reply, the exception. It starts from what `get_message`
hands over or leaves in the buffer (`ReceiveBadFrame`); a call with no message changes nothing.

**RegisterFile** is the abstract specification: a request is answered at one moment, from itself
and the registers. It has no data buffer and no pending write; what it says of
faults is a set of faults a request deserves, without an order of tests. A register whose pointer is
NULL has the value zero (`Value`). Two things the code
does are part of it, because the code cannot promise more: a masked write may undo what the hardware just changed, and an
answer can be lost. A third is its parameter `Unnoticed`, the requests in which a value of the wrong length may be taken
all the same, digits that are missing from anywhere. `AscDevice` implements it with those that the length test of the code
lets pass (`ImplementsRegisterFile`); with none, every wrong length would be refused (`RefusesWrongLengths`), and
that does not hold (section 5).
**RegisterMessages** has what both share: constants, commands, messages.

**MillisecTimer** is one timer, the tick, and a program that loads the counter and
passes it to a function. The load has two words; with `LowRange = Range` the whole counter is in the
first (32-bit CPUs), otherwise the tick can come between them (AVR). `time` and
`since` are the true times of the tick and of the start of the interval, which the program does not see.

**MainLoop** is what the programs have in common. A pass of a loop is a sequence of steps,
given for each program as its loop has them (`AvrAdcStreaming` and the others); `pc` is the
step. `After(err)` is where an exception goes: `Catch` begins the next pass, or ends the
native register device. `Receive` is the whole step of all programs that takes a message and
puts its answer; what the answer of a register is, is `AscDevice`'s business and here a
constant operator.

**UartLoop** is the AVR, ARM and RISC-V programs. The receive interrupt can come between any
two steps, and a byte moves from `extraInputBuffer` to the input buffer in four: the test for a byte
outside of the `ATOMIC` block, both halves of `pop_front` inside, where `interrupts_enabled` is
false, and `push_back`. Streaming has its flags (`streaming_is_on`, the timer, the ADC
conversion). The RISC-V programs have no interrupt and ask the UART at the end of the
pass, so an exception also skips that. `setup` is the program that runs, the host's
script and how many bytes may be lost before the loop takes them. A `?` makes `avr_loopback` print its buffers and is
taken out of the bytes on purpose, so `BytesInOrder` excepts a script with one (`Prints`).

**PollLoop** is the native programs with `circular_buffer_io_fd_poll`, between two
pipes. `poll` is asked about writing only if there is output, blocks if its timeout
is -1, and may say that writing is not possible. `read` and `write` take any part of what they could. The host
may close either pipe. In raw mode one ring is input and output. The scripts hold good frames, frames that are refused, and
one without end (`Endless`), which fills the ring with no `\n` in it.

**Crc** has the four implementations, on numbers as sets of bits, and `compute_checksum` feeding them
a frame block by block. `uint_fast16_t` has any of `Widths`. A C loop is `Feed`, a recursive function over its steps. The
reference is the polynomial division by hand, degree by degree (`Remainder`, `Crc16Dnp`), and the unit tests' checksums are
assumed of it in `MCCrc`. `ChecksumsFit` is its type invariant.

**ByteQueueLemmas** holds what the proofs need of sequences and of the operators of `ByteQueue`. The theorems
are in a module for each state machine, named after it with `Proofs`, but that `HexProofs` is about `AscDevice` and `Crc`, which share
the lemmas about digits and bits; `AscOutputProofs` is about `AscLink`, and it
and the proofs of the two loops take `AscInputProofs` (and `AscOutputProofs`) as instances, since they call the same functions.

## 3. Runs

| run | instance | shows |
|---|---|---|
| `circular_buffer` | capacity 4, three bytes, blocks and strings of length 0 and 5 | 157 thousand states: type, index consistency, refinement of `BoundedDeque`, closed form against recursion, blocks |
| `asc_input` | buffer of 16, frames of 7 and 8 bytes, one error | 55 thousand states: only whole frames are handed over and none is lost; calls make progress unless a frame is refused; a line without errors is understood, and its frames are handed over at once |
| `parts` | the device: three registers of one byte (plain, masked with a bit of the hardware, NULL pointer), 15 requests and a refused frame, five set-ups; the checksum: all bytes behind a `>`, blocks of one and two, three widths; the timer: a counter modulo 8, time to 16, all intervals | 82 thousand states: refinement of `RegisterFile`, and what a write leaves alone; the four implementations are the remainder of the polynomial, and checksums read back from their digits; expiry is exact in true time |
| `asc_output` | buffer of 16, one checksum character, counter modulo 2 | 43 thousand states: who is refused, what an accepted put leaves; a host that starts to listen at any moment gets the whole frames and no others, and what was accepted |
| `uart_loops` | twelve programs, buffers of 20, `extraInputBuffer` of 2, scripts of up to three frames, good ones and bad ones, one byte lost | 110 thousand states: no byte is lost, doubled or swapped by the interrupt; stream frames are whole; the timer is started; output is sent, bytes are moved, frames are taken, streaming goes on, each unless a refused frame stands in front |
| `poll_loops` | three programs, buffers of 16, scripts of up to four frames, or a start of a frame longer than the buffer | 182 thousand states: a `read` overwrites no frame; frames are taken, and `poll` does not wait with one, unless an exception skipped the timeout; output is written; a closed pipe ends the program, and not before both buffers are empty |

The other runs each show one statement of the repository that the code
does not keep (section 5).

*Why the bounds are enough.* A ring of 4 has every relation of `iStart`, `iStop` and
`size` (empty, full, wrapped, in one piece, touching either end of the memory), and three byte
values are a start character, an end character and another. The input buffer has
room for two short frames and a byte, or for parts of three, so that frames queue, tear and are
overwritten in front. One error is enough for each branch of `get_message`, and the proof of `UnpackedIsAFrame`
has no bound on errors. A longest frame fills the buffer, in the code (64 bytes) as in the model (16). The
output buffer holds one longest frame or parts of two, at all of its 16 positions.
A put of a frame that needs all the room, one that needs less, one whose data holds
`>` and one that is too long reach every branch of `put_message`.
The requests of the device have every fault, a value of full length, one that is short by a digit (the
code's length test lets it pass and takes the last digit from the buffer), one with digits too many and one that
is not hexadecimal for a register that does not exist (which is never parsed); the buffer then holds digits
of requests, of replies and of a refused frame. The counter of the timer goes twice round, so that
`set_time`, `expire_time` and `now` stand in every order; `torn_counter` splits a counter of 16 into two
words of 4 values.
The buffers of `uart_loops` hold two short frames and more, so that a reply waits while the next request arrives,
and an `extraInputBuffer` of 2 is full while the host may still send; the scripts put
each kind of bad frame (no `.`, and one that `compute_checksum` refuses) before or behind a
good one, and switch streaming on, off and on again. In `poll_loops` a refused frame and two good ones
fill the ring of 16, so that `read` is offered the memory of the oldest bytes; so does a frame without end, which has to
make way for the good one behind it. For the checksum each entry of both tables
is used, and the registers are wider than 16 bits and not.
Deadlock is checked except where the system may stop: after a crash (`MCAscOutput`, `MCPutAppendsItsFrame`) and when a
program has ended (`MCUartLoop`, `MCPollLoop`, `MCWholeFramesAreTaken`). In `MCParts` the checksum stutters when its bytes
have been fed (`ChecksumDone`).

*Fairness.* In `AscInput` it is `WF_vars(GetMessage)`: every program calls `receive` or `get_message`
in each iteration of an endless loop. Nothing is assumed of the host or the line,
so a progress property says what the receiver does with the bytes it has. A call that changes nothing is a stutter, which is the point of
`UnrefusedFramesAreUnpacked`: when a refused frame is in front, every call leaves the buffer as it was.
In `UartLoop` the CPU runs (`WF_vars(LoopStep)`) and a pending interrupt is taken (weak as well: it is
masked for one step only). The loop asks the hardware and goes on if the answer is no, so that
a yes is never enabled without interruption; that the UART becomes ready, a timer expires, a conversion finishes and
`getc_safe` finds a byte that is there is strong fairness of the step that uses it. In `PollLoop` the program
is scheduled, and a reader that stays reads on, so `poll` finds the pipe writable again and again (strong fairness).
Of the host nothing else is assumed: it may stop writing at any byte, and may never close a pipe.

## 4. Proofs

TLAPS checks the theorems below for every value of the constants that the assumptions allow. The
assumptions on constants are `ASSUME`s of the modules, which TLC evaluates in the runs. Other hypotheses are about
constant operators that stand for parts of the code modelled elsewhere, or for the peer, and are part of the statements:

* `CrcYieldsDigits`: a checksum is `NCHARCHECKSUM` bytes; `ChecksumsAreDigits`: none of them is a frame character;
  `DigitsAreWritten`: both of them and not zero, also for what the CRC makes of memory outside of the ring.
  `convert_uint16_to_hex` writes four hexadecimal digits whatever the number.
* `RepliesAreMessages`: the answer of a handler has bytes for its parts.
* `PlainMessages`: the host keeps to the format; its messages have no frame characters, no more than `MAXDATALEN` bytes of
  data, and a command that is not `'\0'`.
* `TextIsWritten`: what is put has no zero bytes. A command `'\0'` is how `get_message` says that there is no
  message, so a frame with that command is heard by nobody.

### The ring (`CircularBufferProofs`)

For every capacity that is a power of two (what `circular_buffer_init_uint8` tests), every set of bytes and every
width of `size_t` that holds twice the capacity (`CapacityAssumption`, `ValuesAssumption`, `SizeRangeAssumption`,
`SourcesAssumption`):

* `WellTyped`, `Consistent`: `Spec => []TypeOK`, `Spec => []StopBehindContent`. The two are inductive together: the type
  gives the ranges of the indices, and `StopBehindContent` is what `push_back` and `push_front` on a full ring and
  `push_back_from_fd` need to keep each other in range. One lemma per function, which rest on three facts about `%`
  (`Wrap`), and one step per action.
* `Implements`: `Spec => ImplementsDeque`, the refinement of `BoundedDeque`. For each function a lemma says what it does
  to the content (the sequence that the refinement mapping reads through `iStart`, `size` and the wrap), in the deque's words:
  a push on a full ring is `KeepLast`, `remove_front_to` is `Drop` up to the first character, and
  `remove_front_unfinished_frames` brings `FrontFrame` to the front. Each action then is the action of the
  deque of the same name; the steps of a running `push_back_block` are pushes of the deque.
* `BlocksHoldTheElements`: `Spec => []UnwrappedBlocksHoldTheElements`. The offset of the first block does not wrap, so the
  arithmetic modulo `SizeRange` of the block sizes is that of the naturals; what is left over is the second block.
* `RecursionIsUnderstood`: `Spec => []UnfinishedIsItsRecursion`. The rest of the model uses the closed form of
  `remove_front_unfinished_frames`; this says that the calls of the C function come to the same. A least-counterexample
  argument over the place a call begins at stands in for induction: of the places where the two differ take the last;
  its call goes on behind it, where they agree.

### Registers (`HexProofs`, first part)

For every width, number, mask and initial value of registers, any set of requests and any bits that the hardware
changes (`RegistersAssumption`, `MessagesAssumption`, `BufferAssumption`):

* `WellTyped`, `WritesStayInTheirMask`: `Spec => []TypeOK`, `Spec => []TypeOK /\ WritesKeepTheRest`. `WritesKeepTheRest` is not
  inductive: when the store happens, the value it keeps was read steps ago. The strengthening is `StoreIsCurrent`, that a
  pending store differs from its register in bits of the hardware at most; a call of `receive` begins it with the register
  itself, and only `Hardware` runs before the store.
* `AnswersAsPromised`: `Spec => ImplementsRegisterFile`, the refinement of `RegisterFile`. The hard step is `FinishWrite`,
  which answers a request that was parsed in an earlier step, from digits in a buffer that is shared. `StoreServesRequest`
  keeps what is needed of the earlier step: the pending store is of the register, and of a value, that its request names. A
  call of `receive` without a store answers at once; the lemmas about `to_hex`, `from_hex` and the overlay of buffers say that the stale
  digits of the buffer show only where `RegisterFile` allows any digit.
* `NumbersReadBack`: what `to_hex` writes, `from_hex` accepts and reads as the same bits, for any number of digits.

### The checksum (`HexProofs`, second part)

For frames of every length, cut into any blocks, and every set of widths of `uint_fast16_t` from 16 bits on
(`WidthsAssumption`, `BlocksAssumption`):

* `ImplementationsAgree`: `CrcSpec => []ChecksumIsTheRemainder`, and `ChecksumsAreOfSixteenBits`: `CrcSpec => []ChecksumsFit`.
  The checksum says nothing of the next block; the inductive invariant `CrcIInv` says what the registers hold before they
  are finalized (`HoldsRemainder`): `crc_16_dnp_bbb` the remainder of the polynomial fed so far, `crc_16_dnp_bbf`
  that of the polynomial shifted by 16, `crc_16_dnp_tbl4bit` its reflection, and `computeCRC_16_DNP` the complement of that. The
  steps are
  1. `Horner`: to divide a polynomial that is shifted by one, with terms added from below or at 16, is to divide it, to shift the
     remainder, to add the terms, and to subtract the generator once more (`Fed`). `SubtractShifted` is one degree of it.
  2. `BbbShiftFeeds`, `BbfBitFeeds`: one turn of the C loops does that to the low 16 bits, whatever a wider register keeps above
     them; `BbbByteFeeds`, `BbfByteFeeds`, `BbbFinalizeFeeds` are whole loops.
  3. `EntryIs`, `FourBits`: an entry of `crc_table` is what four such steps make of four bits, so half a byte by the table is four
     bits one by one, reflected. `Rows`, `FirstRow`, `CrcmodByteIs`: the 256 entries of `table` are two steps of the table of 16,
     row by row. Each entry is compared as the code has it.
  4. `DividendTakesByte`, `ResidueTakesByte`, `DividendTakesZeros`: what the registers hold is the remainder, byte by byte; and
     block by block in `BbbUpdateFeeds`, `BbfUpdateFeeds`, `Tbl4bitUpdateFeeds`, `ComputeFeeds`.

  Where induction over the steps of a loop is meant, two lemmas stand in for it, which take the least step at which something
  fails (`LeastNatural`, from the well-foundedness of `<`): `LoopGoesOn`, that a loop over values in a set has a value after
  each step, which is also why the recursive function of `Feed` is what its equation says; and `SameSteps`, that two loops which
  begin alike and go on alike come to the same.
* `ChecksumsSurviveConversion`: `CrcSpec => []ChecksumsReadBack`, from `NumbersReadBack` and, for small letters,
  `SmallLetterValue`. `ReadsBack` includes that the characters are hexadecimal digits, which is what `ChecksumsAreDigits` asks of the
  checksum that the frame modules leave open.

### The timer (`MillisecTimerProofs`)

For every range of the counter, every set of intervals shorter than it and any number of ticks (`TimerAssumption`):

* `TimerIsExact`: `AtOnce => (TimerSpec => []TimerTypeOK /\ NeverEarly /\ NeverMissed)`, and `TimerMissesNothing` for `NeverMissed` alone,
  where `AtOnce` is `LowRange = Range`, a counter loaded in one piece; without it the statement is false (`torn_counter`).
  The invariant ties the three remainders to the true times (`Meaning`: `set_time` is `since`, `expire_time` is
  `since + rel`, a loaded word is the time of its load, each modulo `Range`) and orders them (`Order`: a load is not older than
  the interval that the timer runs). The argument is `ExpiredMeans`: the two comparisons of the code say of remainders what
  `at - since >= rel` says of the times, if less than a period lies between. The lemmas about `%` are proved
  there from the definition of division.
* `TimerIsTyped`: the fields stay values of the counter for a counter in two words as well: a torn value is wrong, and in
  range.

### Input (`AscInputProofs`)

For every size of buffer and checksum, every checksum function, any messages of the host and any number of bytes lost,
altered and added (`SizesAssumption`: the lengths of `ascii_serial_com.h`; `LineAssumption`: the host sends bytes):

* `InputTypeOK`: `Spec => []TypeOK`. The type is inductive, and the rest follows from the code of one call.
* `InputHandsOverFrames`: `Spec => UnpackedIsAFrame`. `Synchronising` (in `ByteQueueLemmas`) says what
  `remove_front_unfinished_frames` leaves: a `>` in front and no other before the first `\n`. If `compute_checksum` does
  not throw, the first `.` stands between its limits, hence `Header`: the four pops of the header stay in front of it, and
  `Unpacking`: the loop over the data stops at it. The checksum and the `\n` behind them leave no place where the
  bytes taken could differ from the frame of the message.
* `InputKeepsGoodFrames`: `ChecksumsAreDigits => (Spec => GoodFramesKept)`. Whatever a call takes, it takes from the
  front (`TakesFromTheFront`); bringing a frame to the front loses no frame behind (`SynchronisedKeeps`), since a whole frame has
  no `>` but its first; and a whole frame in front is handed over and nothing else taken (`FrontFrameIsHandedOver`).
* `InputCallsMakeProgress`: `ChecksumsAreDigits => (Spec => CallsMakeProgress)`, the safety half of
  `UnrefusedFramesAreUnpacked`. A whole frame in the buffer makes the search stop at a `>` or drop bytes; what it stops at
  is popped, in whole or in part, unless `compute_checksum` refuses it.
* `InputUnderstandsACleanLine`: with `PlainMessages` as well, `Spec => []CleanLineIsUnderstood`. That nothing bad is in the
  buffer is not inductive, since the line pushes halves of frames. `LineIsClean` is: before the first error, every `>` of
  the buffer *and of the bytes under way* begins a whole frame of the host. Bytes that a full buffer loses are lost
  from the front (`CleanRest`), a call takes up to such a `>` or a whole frame (`CallKeepsClean`), and the host
  adds whole frames (`SendingKeepsClean`); so where a call finds a `>` before a `\n`, a frame is there, and it is handed over.
* `InputUnpacksACleanLineAtOnce`: from the same invariant, `Spec => CleanLineIsUnpackedAtOnce`.

### Output, and the host at the other end (`AscOutputProofs`)

For every size of buffer and checksum and any messages (`SizesAssumption`, `OutputAssumption`, `GivenAssumption`: what is
put is bytes), with `CrcYieldsDigits`:

* `OutputTypeOK`: `Spec => []TypeOK`;
* `OutputAppendsFrames`: `Spec => AcceptedPutAppendsItsFrame`;
* `OutputRefusals`: `Spec => RefusedExactlyWhenTooBig`.

Again the type is inductive, and the argument is about where the `.` comes to stand: a message without frame characters
has its `>` and `.` as the last of the buffer, so the limit that `compute_checksum` puts on the place of the `.` is
one on pending output and message together (`Packing`, `PutOutcome`), exact to the byte: that is why a function without a
test for room overwrites nothing that it accepts.

With `DigitsAreWritten` and `TextIsWritten`, of the composition `AscLink`:

* `HostHearsTheOutput`: `Spec => []HostGetsWholeFrames`;
* `PutsReachTheHost`: `Spec => AcceptedPutReachesTheHost`.

Both rest on an invariant of the output, `OutputIsLegible`, a theorem of its own (`OutputStaysLegible`): every `>` is
followed by a `.` within `MAXDATALEN + 4` bytes. `put_message` pushes the `.` of every message whose length it accepts, and
refuses only behind it, so a refused message leaves its `.` as well. Hence `compute_checksum` does not refuse what
the host has in front of its buffer, and no bytes stay there for ever. One call of the host takes the first whole frame, or bytes that
hold none (`OneFrameIsTaken`); that no `\n` is left after as many calls as bytes is again by a least counterexample
(`HeedsAll`, `AllFramesAreHeard`), and the number of frames by a bijection with the messages (`CountsAreEqual`). For a put, the frames of
the longer buffer are those of the shorter and one more (`FramesTogether`), which is heard last (`FrameIsHeardLast`).

### The loops (`UartLoopProofs`, `PollLoopProofs`)

For all programs, sets of scripts and sizes of buffers (`UartAssumption`, `PollAssumption`), and whatever the handlers reply, with
`CrcYieldsDigits` and `RepliesAreMessages`:

* `UartTypeOK`: `Spec => []TypeOK`. `TypeInv` has it in groups; the one that needs care is `SerialInv`: while a byte is
  between the halves of `pop_front`, interrupts are off and it is still the first of the ring (`PopIsAtomic`), so the second
  half removes what the first loaded; and as long as bytes may still not be lost, there is room (`RoomIsKept`).
* `UartKeepsTheOrder`: `Spec => []BytesInOrder`, for which the bytes under way are those of the input ring, the loaded one,
  `extraInputBuffer`, the UART and the line, in this order: each step of loop or interrupt moves a byte from one to the next.
* `UartStartsTheTimer`: `Spec => []StreamingStartsTheTimer`. The state between the message that switches streaming on and the
  step that starts the timer is described by the steps that are left of the pass (`TimerIsStarted`).
* `UartStreamsWholeMessages`: `Spec => StreamsAreWhole`, from the type and `PutOutcome`: the output is empty when
  `READY_TO_STREAM` lets a message pass, so there is room for it whatever was put before.
* `PollTypeOK`: `Spec => []TypeOK`.
* `PollReadsKeepFrames`: `Spec => ReadsKeepFrames`. Nothing in the code asks for room before a `read`; the invariant
  that makes it safe is `FullIsStuck`: a full input buffer that has been looked at has no `\n`, or a refused frame
  in front. For a frame that is whole, `get_message` takes it or refuses it (`Staying`), and a `read` that follows
  overwrites only bytes in front of it (`FramesStay`).
* `PollHangUpLeavesEmptyBuffers`: `Spec => HangUpLeavesEmptyBuffers`. The type keeps `Advance` within the pass
  (`AdvanceGoesOn`), so only `do_poll` can end the program, and `OutputFlags` has no hang-up while the host reads.
* `PollWaitsWithNothingToDo`: `Spec => []WaitsWithNothingToDo` (stated beside its proof; no run repeats it). A pass comes to `poll` from the step that sets the
  timeout, or from an exception (`PollsAgain`); this is what `WholeFramesAreTakenWithoutException` rests on.

### What is only model-checked

* Liveness (`UnrefusedFramesAreUnpacked`, `TransmissionGoesOn`, `ReceivedBytesAreMoved`,
  `WholeFramesAreTaken`, `StreamingGoesOn`, `OutputIsWritten`, `WholeFramesAreTakenWithoutException`,
  `HangUpEndsTheProgram`): it needs fairness and `ENABLED`, which TLAPS does not have. Of the first and of
  `WholeFramesAreTakenWithoutException` the safety half is proved: each call makes progress (`CallsMakeProgress`), and
  no wait begins with input left (`WaitsWithNothingToDo`). On a line without errors `CleanLineIsUnpackedAtOnce` needs no more than
  that `get_message` is called again.

## 5. What the runs found

Each is a statement of the repository that TLC refutes; `PROJECT.json` quotes both sides.

1. A frame that `compute_checksum` refuses stays in front of the input buffer
   and blocks the good frames behind it (`FramesAreUnpacked`).
   `UnrefusedFramesAreUnpacked` says that nothing else does.
2. `get_blocks` is wrong for a range that begins behind the wrap, so a message put while
   older output wraps can get a wrong checksum (`PutAppendsItsFrame`).
   `AcceptedPutAppendsItsFrame` says where the code is right.
3. A counter loaded in pieces makes a timer expire early (`NeverEarly` in `torn_counter`).
4. An exception skips the statements that set the timeout of the native programs, so the next
   `poll` may wait for ever with a whole frame in the input buffer
   (`WholeFramesAreTaken` in `stuck`). `WholeFramesAreTakenWithoutException` says that nothing else makes it wait.
5. `push_back_from_fd` into a full ring overwrites its front, where the header says "Stops when full."
   (`ReadsStopWhenFull`). The rest of what the header says of it is in `BoundedDeque`; `ReadsKeepFrames` says why no program
   loses a frame by it.
6. A write with a value of the wrong length is not refused if it has at least half of its digits: those that are missing come
   from what an earlier message left in the data buffer, those too many are ignored (`RefusesWrongLengths`). That
   nothing else departs from the promise is `ImplementsRegisterFile`.

Seen while modelling, followed by the model, and without a run: a masked
write can undo what an interrupt changed outside of the mask (`WritesKeepTheRest` says that it undoes nothing
else); if the input hangs up with bytes in the pipe and both rings are empty, `do_poll` ends the program
before they are read; `push_back_string` returns 0
instead of a count; `remove_front_unfinished_frames` leaves an end character in front out of its
count, which no caller uses; `get_message_from_input_buffer` also raises
`ASC_ERROR_CHECKSUM_PROBLEM`; bytes that are part of no whole frame keep a native program polling for ever, without a wait, after the host has hung
up (`HangUpEndsTheProgram` says that only they and a refused frame do); the block handler throws the errors that the pointers handler
replies.

## 6. Plan

Done: the ring, both halves of the frame module, the device with its registers, the timer, the loops of
the microcontroller and of the native programs, the CRC, output and input joined by a perfect line; the theorems of section 4.
Left, the most useful first:

1. `AscLink` with a line that fails: what an accepted message is worth to a host that has half of the frame before.
2. The loops joined to what they call: that the streamed messages of `UartLoop` reach the host follows from
   `UartStreamsWholeMessages` and the lemmas behind `PutsReachTheHost`, and that a reply does from `RepliesAreMessages` for
   the replies of `AscDevice`.

## 7. Not modelled

* Three details that the loops abstract from, with no effect on what is said of them. In `MainLoop`, a throw out of a
  register handler is among the things that a frame can come to as a bad frame is: popped, no answer, `Catch`. In
  `UartLoop`, the ARM end-of-sequence flag is `have_started_ADC_conversion`, so a second conversion under way when the flag
  is cleared is not told from the first; and `BytesInOrder` would not tell a byte dropped at the very front, with an empty input
  buffer, from one that was taken. In `CircularBufferOps`, the exception of `get_blocks` for a range behind the content is left out:
  its one caller asks for a range within it.
* Third-party code under `externals/` (Unity, CMock, CException) and the unit tests. They are about half of the
  lines of C in the repository, so the share of lines that the model covers stays low however much of the
  library it has. The tests were read as statements about the program.
* Clock, pin, baud and timer set-up of the boards, and the DAC reset: writes to hardware registers without control flow.
* The input capture of `stm32f091nucleo64_pulser.c` (169-182): what its three readings are worth together depends on
  when the timer hardware captures and sets its flags, which the repository does not say.
* The character, blink and ring demos: no protocol, a loop of one statement or of calls that the ring's model has.
* The profiler (`ascii_serial_com_encode_decode_profiler.c`), a benchmark; command line options and the opening of files.
* Regular files as input of the native programs, and errors of `poll`, `read` and `write` themselves, which
  end or repeat a pass.
* The age and value of an ADC sample: `StreamingGoesOn` is about the flags only.
* The printing functions and `circular_buffer_count`, which change nothing.
