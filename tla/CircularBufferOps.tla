-------------------------- MODULE CircularBufferOps --------------------------
(***************************************************************************)
(* The pure part of circular_buffer.c: every function of the ring of bytes *)
(* as an operator from a ring to a ring (or to what the function returns). *)
(* A ring is the C struct circular_buffer_uint8, a record                  *)
(*                                                                         *)
(*   [iStart, iStop, size : indices, buffer : the raw memory].             *)
(*                                                                         *)
(* The field capacity never changes after circular_buffer_init_uint8 and   *)
(* is the constant Capacity.  The operators carry the names of the C       *)
(* functions without the prefix circular_buffer_ and the suffix _uint8.    *)
(***************************************************************************)
EXTENDS Integers, Sequences, FiniteSetsExt

CONSTANTS
  Capacity,  (* the capacity given to circular_buffer_init_uint8            *)
  Values,    (* the bytes that can be stored                                *)
  Fill,      (* '@', the byte that init writes everywhere                   *)
  SizeRange  (* 2^w: size_t arithmetic is modulo SizeRange                  *)

(***************************************************************************)
(* circular_buffer_init_uint8 throws ASC_ERROR_CB_BAD_CAPACITY unless      *)
(* isPowerOfTwo(capacity), so every initialised ring satisfies this, and   *)
(* "& (capacity - 1)" is "% Capacity".                                     *)
(***************************************************************************)
ASSUME CapacityAssumption ==
  /\ Capacity \in Nat \ {0}
  /\ \E k \in 0 .. Capacity : Capacity = 2^k

ASSUME ValuesAssumption == Fill \in Values

(* A size_t holds twice the capacity, so that iStart + size never wraps.   *)
ASSUME SizeRangeAssumption == SizeRange \in Nat /\ SizeRange > 2 * Capacity

Index == 0 .. Capacity - 1

Ring == [iStart : Index, iStop : Index, size : 0 .. Capacity,
         buffer : [Index -> Values]]

----------------------------------------------------------------------------
(* Index arithmetic.                                                       *)

Wrap(i) == i % Capacity                                  \* i & (capacity - 1)
Inc(i) == Wrap(i + 1)                                    \* inc_iStart, inc_iStop
Dec(i) == IF i = 0 THEN Capacity - 1 ELSE Wrap(i - 1)    \* dec_iStart, dec_iStop

is_full(cb) == cb.size = Capacity
wraps(cb) == cb.iStart + cb.size > Capacity

(* The function get_element, for iElement < size (it throws CB_OOB beyond).*)
get_element(cb, iElement) == cb.buffer[Wrap(cb.iStart + iElement)]

(* The elements from front to back: what the ring stands for.              *)
Content(cb) == [i \in 1 .. cb.size |-> get_element(cb, i - 1)]

----------------------------------------------------------------------------
(* Functions that change the ring.                                         *)

init == [iStart |-> 0, iStop |-> 0, size |-> 0, buffer |-> [i \in Index |-> Fill]]

clear(cb) == [iStart |-> 0, iStop |-> 0, size |-> 0, buffer |-> cb.buffer]

(* Mutant: the back index stays where it is when a full ring is pushed. *)
push_front_KeepStop(cb, element) ==
  [iStart |-> Dec(cb.iStart), iStop |-> cb.iStop,
   size   |-> IF is_full(cb) THEN cb.size ELSE cb.size + 1,
   buffer |-> [cb.buffer EXCEPT ![Dec(cb.iStart)] = element]]

push_front(cb, element) ==
  [iStart |-> Dec(cb.iStart),
   iStop  |-> IF is_full(cb) THEN Dec(cb.iStop) ELSE cb.iStop,
   size   |-> IF is_full(cb) THEN cb.size ELSE cb.size + 1,
   buffer |-> [cb.buffer EXCEPT ![Dec(cb.iStart)] = element]]

(* Mutant: the bytes of a full ring are counted on. *)
push_back_CountOn(cb, element) ==
  [iStart |-> IF is_full(cb) THEN Inc(cb.iStart) ELSE cb.iStart,
   iStop  |-> Inc(cb.iStop),
   size   |-> cb.size + 1,
   buffer |-> [cb.buffer EXCEPT ![cb.iStop] = element]]

(* Mutant: the byte overwritten by a push on a full ring stays at its front. *)
push_back_KeepStart(cb, element) ==
  [iStart |-> cb.iStart,
   iStop  |-> Inc(cb.iStop),
   size   |-> IF is_full(cb) THEN cb.size ELSE cb.size + 1,
   buffer |-> [cb.buffer EXCEPT ![cb.iStop] = element]]

push_back(cb, element) ==
  [iStart |-> IF is_full(cb) THEN Inc(cb.iStart) ELSE cb.iStart,
   iStop  |-> Inc(cb.iStop),
   size   |-> IF is_full(cb) THEN cb.size ELSE cb.size + 1,
   buffer |-> [cb.buffer EXCEPT ![cb.iStop] = element]]

(* n calls of pop_front, or of pop_back, that find the ring non-empty.     *)
pop_front_n(cb, n) ==
  [iStart |-> Wrap(cb.iStart + n), iStop |-> cb.iStop,
   size |-> cb.size - n, buffer |-> cb.buffer]

pop_back_n(cb, n) ==
  [iStart |-> cb.iStart, iStop |-> Wrap(cb.iStop + Capacity - n),
   size |-> cb.size - n, buffer |-> cb.buffer]

(***************************************************************************)
(* The part of the content that lies in one piece behind iStart: what      *)
(* get_first_block returns, what pop_front_block and pop_front_to_fd copy. *)
(***************************************************************************)
first_block_size(cb) == IF wraps(cb) THEN Capacity - cb.iStart ELSE cb.size
first_block(cb, n) == [i \in 1 .. n |-> cb.buffer[cb.iStart + i - 1]]

(* delete_first_block: a wrapping ring is popped, any other is cleared.    *)
delete_first_block(cb) ==
  IF wraps(cb) THEN pop_front_n(cb, Capacity - cb.iStart) ELSE clear(cb)

(* How pop_front_block and pop_front_to_fd take n bytes: an emptied ring   *)
(* starts again at the beginning of its memory.                            *)
take_front(cb, n) == IF cb.size = n THEN clear(cb) ELSE pop_front_n(cb, n)

(***************************************************************************)
(* push_back_from_fd: read() may fill the memory from iStop to the end of  *)
(* the memory, or to iStart.  A full ring has iStop = iStart, so it counts *)
(* as room for more; iStart then moves behind the bytes just read.         *)
(***************************************************************************)
block_size_available(cb) ==
  IF cb.iStop >= cb.iStart THEN Capacity - cb.iStop ELSE cb.iStart - cb.iStop

push_back_from_fd(cb, read) ==
  LET total == cb.size + Len(read)
  IN  [iStart |-> IF total >= Capacity THEN Wrap(cb.iStart + total - Capacity)
                                       ELSE cb.iStart,
       iStop  |-> Wrap(cb.iStop + Len(read)),
       size   |-> IF total >= Capacity THEN Capacity ELSE total,
       buffer |-> [i \in Index |->
                     IF i \in cb.iStop .. cb.iStop + Len(read) - 1
                       THEN read[i - cb.iStop + 1] ELSE cb.buffer[i]]]

----------------------------------------------------------------------------
(* Functions that only look.                                               *)

Positions(cb) == IF cb.size = 0 THEN {} ELSE 0 .. cb.size - 1
PositionsOf(cb, value) == {i \in Positions(cb) : get_element(cb, i) = value}

find_first(cb, value) ==
  IF PositionsOf(cb, value) = {} THEN cb.size ELSE Min(PositionsOf(cb, value))

find_last(cb, value) ==
  IF PositionsOf(cb, value) = {} THEN cb.size ELSE Max(PositionsOf(cb, value))

(***************************************************************************)
(* How many elements the two remove loops pop: all that stand before (or   *)
(* behind) the value, the value too if inclusive, everything if absent.    *)
(***************************************************************************)
front_to(cb, value, inclusive) ==
  LET i == find_first(cb, value)
  IN  IF i < cb.size /\ inclusive THEN i + 1 ELSE i

back_to(cb, value, inclusive) ==
  LET i == find_last(cb, value)
  IN  IF i = cb.size THEN cb.size
      ELSE IF inclusive THEN cb.size - i ELSE cb.size - i - 1

(***************************************************************************)
(* remove_front_unfinished_frames calls itself behind each endChar that no *)
(* startChar precedes, so the elements already popped when it is entered   *)
(* are one of Entries.  At offset k it recurses unless no endChar is left  *)
(* or a startChar stands before the first one; the last entry is therefore *)
(* the least one that does not recurse.                                    *)
(***************************************************************************)
From(S, k) == {i \in S : i >= k}
Entries(ends) == {0} \cup {e + 1 : e \in ends}
Recurses(starts, ends, k) ==
  /\ From(ends, k) # {}
  /\ \A i \in From(starts, k) : i >= Min(From(ends, k))

(* Mutant: the unfinished frames behind an endChar are looked for only once. *)
last_entry_Once(starts, ends) == 0

last_entry(starts, ends) ==
  Min({k \in Entries(ends) : ~Recurses(starts, ends, k)})

(* The startChars the last call chooses from, in front of its first endChar. *)
Candidates(starts, ends) ==
  LET k == last_entry(starts, ends)
  IN  {i \in From(starts, k) : \A e \in From(ends, k) : i < e}

(* How many elements are popped.  All of them is the call of clear().      *)
unfinished(cb, startChar, endChar) ==
  LET C == Candidates(PositionsOf(cb, startChar), PositionsOf(cb, endChar))
  IN  IF C = {} THEN cb.size ELSE Max(C)

(***************************************************************************)
(* What the function returns: the branch of an endChar in front returns    *)
(* the value of the inner call and does not count the element it popped.   *)
(***************************************************************************)
unfinished_result(cb, startChar, endChar) ==
  LET ends   == PositionsOf(cb, endChar)
      k      == last_entry(PositionsOf(cb, startChar), ends)
      inFront == {e \in ends : e < k /\ e \in Entries(ends)}
  IN  unfinished(cb, startChar, endChar) - Cardinality(inFront)

(***************************************************************************)
(* The same function with its recursion written out: call[k] is the call   *)
(* that is entered when k elements are gone, its value the elements gone   *)
(* when it returns and its return value.                                   *)
(***************************************************************************)
unfinished_call(call, starts, ends, size, k) ==
  LET iEnd == Min(From(ends, k))
      before == {i \in From(starts, k) : i < iEnd}
  IN  IF From(ends, k) = {}
        THEN LET to == IF From(starts, k) = {} THEN size ELSE Max(From(starts, k))
             IN  [gone |-> to, result |-> to - k]
      ELSE IF iEnd = k THEN call[k + 1]
      ELSE IF before = {}
        THEN [gone |-> call[iEnd + 1].gone, result |-> call[iEnd + 1].result + (iEnd + 1 - k)]
      ELSE [gone |-> Max(before), result |-> Max(before) - k]

unfinished_calls(cb, startChar, endChar) ==
  LET starts == PositionsOf(cb, startChar)
      ends   == PositionsOf(cb, endChar)
      call[k \in 0 .. cb.size] == unfinished_call(call, starts, ends, cb.size, k)
  IN  call[0]

(***************************************************************************)
(* get_blocks, for iFirst + nElem <= size (it throws CB_OOB beyond, which  *)
(* no caller reaches): the memory blocks of the nElem elements from iFirst *)
(* on, as offset and length.  blocks[0] is buffer + iStart + iFirst, never *)
(* wrapped, and the sizes are size_t differences.                          *)
(***************************************************************************)
(* Mutant: the second block is as long as all the elements. *)
get_blocks_LongSecond(cb, iFirst, nElem) ==
  LET begin == cb.iStart + iFirst
      n0 == (Capacity - begin) % SizeRange
  IN  IF begin + nElem > Capacity
        THEN << [at |-> begin, len |-> n0], [at |-> 0, len |-> nElem] >>
        ELSE << [at |-> begin, len |-> nElem] >>

get_blocks(cb, iFirst, nElem) ==
  LET begin == cb.iStart + iFirst
      n0 == (Capacity - begin) % SizeRange
  IN  IF begin + nElem > Capacity
        THEN << [at |-> begin, len |-> n0],
                [at |-> 0, len |-> (nElem - n0) % SizeRange] >>
        ELSE << [at |-> begin, len |-> nElem] >>

(* The memory cells the blocks name, in the order the caller walks them.   *)
BlockCells(blocks) ==
  LET n == [b \in 1 .. 2 |-> IF b \in DOMAIN blocks THEN blocks[b].len ELSE 0]
  IN  [i \in 1 .. n[1] + n[2] |->
         IF i <= n[1] THEN blocks[1].at + i - 1 ELSE blocks[2].at + i - n[1] - 1]

=============================================================================
