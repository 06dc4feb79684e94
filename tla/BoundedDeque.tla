---------------------------- MODULE BoundedDeque -----------------------------
(***************************************************************************)
(* What callers can rely on: a double-ended queue of at most Capacity      *)
(* bytes.  A push on a full queue drops the byte at the other end; nothing *)
(* else is lost, reordered, duplicated or changed.  Where the memory wraps *)
(* is not visible, except that the functions which copy one piece of       *)
(* memory may take fewer bytes than they could.                            *)
(*                                                                         *)
(* This is the promise of circular_buffer.h in all but one point: there,   *)
(* push_back_from_fd "stops when full"; here, a full queue lets it read    *)
(* over its front.  ReadsStopWhenFull of CircularBuffer is the header's.   *)
(***************************************************************************)
EXTENDS CallResult, ByteQueue

CONSTANTS Capacity, Values

VARIABLES
  items,  (* the bytes held, front first                                    *)
  out     (* what the last call returned or threw                           *)

Init == items = <<>> /\ out = Done("init")

PushBack(v) ==
  /\ out' = Done("push_back")
  /\ items' = KeepLast(Append(items, v), Capacity)

PushFront(v) ==
  /\ out' = Done("push_front")
  /\ items' = Take(<<v>> \o items,
                   IF Len(items) = Capacity THEN Capacity ELSE Len(items) + 1)

PopFront ==
  IF items = <<>>
    THEN out' = Thrown("pop_front", "CB_POP_EMPTY") /\ items' = items
    ELSE out' = Returned("pop_front", 1, Take(items, 1)) /\ items' = Drop(items, 1)

PopBack ==
  IF items = <<>>
    THEN out' = Thrown("pop_back", "CB_POP_EMPTY") /\ items' = items
    ELSE /\ out' = Returned("pop_back", 1, Drop(items, Len(items) - 1))
         /\ items' = Take(items, Len(items) - 1)

RemoveFrontTo(v, inclusive) ==
  /\ out' = Done("remove_front_to")
  /\ items' = remove_front_to(items, v, inclusive)

RemoveBackTo(v, inclusive) ==
  /\ out' = Done("remove_back_to")
  /\ items' = remove_back_to(items, v, inclusive)

(* get_first_block, then delete_first_block: some bytes unless empty.      *)
DeleteFirstBlock ==
  \E n \in 0 .. Len(items) :
    /\ n = 0 => items = <<>>
    /\ out' = Returned("delete_first_block", n, Take(items, n))
    /\ items' = Drop(items, n)

PopFrontBlock(dest_size) ==
  \E n \in 0 .. Len(items) :
    /\ n <= dest_size
    /\ n = 0 => items = <<>> \/ dest_size = 0
    /\ out' = Returned("pop_front_block", n, Take(items, n))
    /\ items' = Drop(items, n)

(* The kernel decides how many of the bytes offered to write() it takes.   *)
PopFrontToFd ==
  \/ \E n \in 0 .. Len(items) :
       /\ out' = Returned("pop_front_to_fd", n, Take(items, n))
       /\ items' = Drop(items, n)
  \/ out' = Thrown("pop_front_to_fd", "FILE_WRITE") /\ items' = items

(* Into a queue that is not full, no more is read than there is room for;  *)
(* into a full one, any number of bytes, each over the oldest.             *)
PushBackFromFd ==
  \/ \E n \in 0 .. Capacity :
       /\ Len(items) < Capacity => n <= Capacity - Len(items)
       /\ out' = Returned("push_back_from_fd", n, <<>>)
       /\ \E read \in [1 .. n -> Values] : items' = KeepLast(items \o read, Capacity)
  \/ out' = Thrown("push_back_from_fd", "FILE_READ") /\ items' = items

Clear == out' = Done("clear") /\ items' = <<>>

(* A function that pushes byte by byte returns after its last byte.        *)
ReturnFromPush(fn) == out' = Done(fn) /\ items' = items

RemoveFrontUnfinishedFrames(startChar, endChar) ==
  /\ \E n \in 0 .. Len(items) :
       out' = Returned("remove_front_unfinished_frames", n, <<>>)
  /\ items' = remove_front_unfinished_frames(items, startChar, endChar)

Next ==
  \/ \E v \in Values :
       \/ PushBack(v)
       \/ PushFront(v)
       \/ \E inclusive \in BOOLEAN : RemoveFrontTo(v, inclusive) \/ RemoveBackTo(v, inclusive)
       \/ \E w \in Values : RemoveFrontUnfinishedFrames(v, w)
  \/ PopFront
  \/ PopBack
  \/ DeleteFirstBlock
  \/ \E dest_size \in 0 .. Capacity : PopFrontBlock(dest_size)
  \/ PopFrontToFd
  \/ PushBackFromFd
  \/ Clear
  \/ \E fn \in {"push_back_block", "push_back_string"} : ReturnFromPush(fn)

vars == <<items, out>>

Spec == Init /\ [][Next]_vars

=============================================================================
