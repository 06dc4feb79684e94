--------------------------- MODULE CircularBuffer ----------------------------
(***************************************************************************)
(* circular_buffer.c as a state machine: one ring, one action per function *)
(* that changes it.  push_back_block and push_back_string call push_back   *)
(* byte by byte; their loop is modelled one iteration at a time, because   *)
(* an interrupt can look at the ring between two of them.                  *)
(***************************************************************************)
EXTENDS CircularBufferOps, CallResult

CONSTANT Sources  (* the blocks and strings callers push                    *)

ASSUME SourcesAssumption == Sources \subseteq Seq(Values)

VARIABLES
  cb,    (* the circular_buffer_uint8                                       *)
  out,   (* what the last function that returned left with its caller       *)
  loop   (* the locals of a running push_back_block or push_back_string     *)

vars == <<cb, out, loop>>

Idle == [fn |-> "none", source |-> <<>>, i |-> 0]
PushLoops == {"push_back_block", "push_back_string"}

Init ==
  /\ cb = init
  /\ out = Done("init")
  /\ loop = Idle

(* A call of a function that pushes no more than one byte.                 *)
Call(ring, result) ==
  /\ loop = Idle
  /\ cb' = ring
  /\ out' = result
  /\ UNCHANGED loop

PushFront(v) == Call(push_front(cb, v), Done("push_front"))
PushBack(v)  == Call(push_back(cb, v), Done("push_back"))

PopFront ==
  IF cb.size = 0 THEN Call(cb, Thrown("pop_front", "CB_POP_EMPTY"))
  ELSE Call(pop_front_n(cb, 1), Returned("pop_front", 1, <<get_element(cb, 0)>>))

PopBack ==
  IF cb.size = 0 THEN Call(cb, Thrown("pop_back", "CB_POP_EMPTY"))
  ELSE Call(pop_back_n(cb, 1), Returned("pop_back", 1, <<cb.buffer[Dec(cb.iStop)]>>))

RemoveFrontTo(v, inclusive) ==
  Call(pop_front_n(cb, front_to(cb, v, inclusive)), Done("remove_front_to"))

RemoveBackTo(v, inclusive) ==
  Call(pop_back_n(cb, back_to(cb, v, inclusive)), Done("remove_back_to"))

(* get_first_block, then delete_first_block, as the header pairs them.     *)
DeleteFirstBlock ==
  LET n == first_block_size(cb)
  IN  Call(delete_first_block(cb), Returned("delete_first_block", n, first_block(cb, n)))

PopFrontBlock(dest_size) ==
  LET n == IF dest_size < first_block_size(cb) THEN dest_size ELSE first_block_size(cb)
  IN  Call(take_front(cb, n), Returned("pop_front_block", n, first_block(cb, n)))

(* write() takes any number of the bytes offered, or fails.                *)
PopFrontToFd ==
  \/ \E n \in 0 .. first_block_size(cb) :
       Call(take_front(cb, n), Returned("pop_front_to_fd", n, first_block(cb, n)))
  \/ Call(cb, Thrown("pop_front_to_fd", "FILE_WRITE"))

(* read() stores any number of bytes up to the room offered, or fails.     *)
PushBackFromFd ==
  \/ \E n \in 0 .. block_size_available(cb) : \E read \in [1 .. n -> Values] :
       Call(push_back_from_fd(cb, read), Returned("push_back_from_fd", n, <<>>))
  \/ Call(cb, Thrown("push_back_from_fd", "FILE_READ"))

Clear == Call(clear(cb), Done("clear"))

RemoveFrontUnfinishedFrames(startChar, endChar) ==
  Call(take_front(cb, unfinished(cb, startChar, endChar)),
       Returned("remove_front_unfinished_frames",
                unfinished_result(cb, startChar, endChar), <<>>))

----------------------------------------------------------------------------
(* push_back_block and push_back_string.                                   *)

StartPush(fn, source) ==
  /\ loop = Idle
  /\ loop' = [fn |-> fn, source |-> source, i |-> 0]
  /\ UNCHANGED <<cb, out>>

PushNext ==
  /\ loop.i < Len(loop.source)
  /\ cb' = push_back(cb, loop.source[loop.i + 1])
  /\ out' = Done("push_back")
  /\ loop' = [loop EXCEPT !.i = @ + 1]

(* push_back_block returns nothing and push_back_string its local nPushed, *)
(* which is 0 from its declaration on.                                     *)
ReturnFromPush ==
  /\ loop.fn # "none"
  /\ loop.i = Len(loop.source)
  /\ out' = Done(loop.fn)
  /\ loop' = Idle
  /\ UNCHANGED cb

Next ==
  \/ \E v \in Values :
       \/ PushFront(v)
       \/ PushBack(v)
       \/ \E inclusive \in BOOLEAN : RemoveFrontTo(v, inclusive) \/ RemoveBackTo(v, inclusive)
       \/ \E w \in Values : RemoveFrontUnfinishedFrames(v, w)
  \/ PopFront
  \/ PopBack
  \/ DeleteFirstBlock
  \/ \E dest_size \in 0 .. Capacity : PopFrontBlock(dest_size)
  \/ PopFrontToFd
  \/ PushBackFromFd
  \/ Clear
  \/ \E fn \in PushLoops, source \in Sources : StartPush(fn, source)
  \/ PushNext
  \/ ReturnFromPush

Spec == Init /\ [][Next]_vars

----------------------------------------------------------------------------
(* Properties.                                                             *)

TypeOK ==
  /\ cb \in Ring
  /\ loop \in [fn : PushLoops \cup {"none"}, source : Sources \cup {<<>>}, i : Nat]
  /\ loop.i <= Len(loop.source)
  /\ out \in [fn : FunctionNames, err : ErrorNames, n : Nat, data : Seq(Values)]

(***************************************************************************)
(* The redundant field iStop always marks the cell behind the last         *)
(* element, through every overwrite, wrap and reset of the indices: the    *)
(* functions that test iStop against iStart (push_back_from_fd) and those  *)
(* that use size (all others) see the same elements.                       *)
(***************************************************************************)
StopBehindContent == cb.iStop = Wrap(cb.iStart + cb.size)

(***************************************************************************)
(* The ring is a bounded double-ended queue that loses bytes only by       *)
(* overwriting the far end of a full one, wherever its content lies in     *)
(* memory: every function does what circular_buffer.h says of it, except   *)
(* push_back_from_fd on a full ring (ReadsStopWhenFull), and that one      *)
(* overwrites nothing while there is room.                                 *)
(***************************************************************************)
Deque == INSTANCE BoundedDeque WITH items <- Content(cb)
ImplementsDeque == Deque!Spec

(***************************************************************************)
(* "Doesn't overwrite the front of the buffer like the normal push_back    *)
(* does. Stops when full." (circular_buffer.h, of push_back_from_fd): what  *)
(* the ring held stays in front of what is read.                           *)
(***************************************************************************)
ReadsStopWhenFull ==
  [][PushBackFromFd => SubSeq(Content(cb'), 1, cb.size) = Content(cb)]_vars

(* The memory blocks of get_blocks are the elements asked for, in order.   *)
BlocksHold(iFirst, nElem) ==
  LET cells == BlockCells(get_blocks(cb, iFirst, nElem))
  IN  /\ Len(cells) = nElem
      /\ \A i \in 1 .. nElem : cells[i] = Wrap(cb.iStart + iFirst + i - 1)

(***************************************************************************)
(* Walking the blocks as in the header's example visits exactly the        *)
(* elements asked for, for every range that begins before the content      *)
(* wraps: so the checksum of input, and of output that does not wrap, is   *)
(* computed over the right bytes even if the frame itself wraps.           *)
(***************************************************************************)
UnwrappedBlocksHoldTheElements ==
  \A iFirst \in 0 .. cb.size : \A nElem \in 0 .. cb.size - iFirst :
    cb.iStart + iFirst <= Capacity => BlocksHold(iFirst, nElem)

(***************************************************************************)
(* The closed form of remove_front_unfinished_frames used above agrees     *)
(* with its recursion, call by call, on every content of the ring.         *)
(***************************************************************************)
UnfinishedIsItsRecursion ==
  \A v, w \in Values :
    unfinished_calls(cb, v, w) =
      [gone |-> unfinished(cb, v, w), result |-> unfinished_result(cb, v, w)]

=============================================================================
