------------------------ MODULE CircularBufferProofs -------------------------
(***************************************************************************)
(* For every capacity and every set of bytes: the ring's redundant indices *)
(* stay consistent, and the ring implements the bounded deque.             *)
(***************************************************************************)
EXTENDS CircularBuffer, FiniteSetTheorems, SequenceTheorems, TLAPS

(* What the sequences of the deque are known to do. *)
Queue == INSTANCE ByteQueueLemmas

(* Of functions on 1 .. n. *)
LEMMA FunctionIsSeq ==
  ASSUME NEW S, NEW n \in Nat, NEW f \in [1 .. n -> S]
  PROVE  f \in Seq(S) /\ Len(f) = n /\ DOMAIN f = 1 .. n
  BY Queue!FunctionIsSeq

(* Of the least number of a set. *)
LEMMA MinIsLeast ==
  ASSUME NEW S \in SUBSET Nat, S # {}
  PROVE  Min(S) \in S /\ \A j \in S : Min(S) <= j
  BY Queue!MinIsLeast DEF Queue!Min, Min

(* Of the greatest number of a set. *)
LEMMA MaxIsGreatest ==
  ASSUME NEW n \in Nat, NEW S \in SUBSET (0 .. n), S # {}
  PROVE  Max(S) \in S /\ \A j \in S : Max(S) >= j
  BY Queue!MaxIsGreatest DEF Queue!Max, Max

(* What every function expects of the ring and leaves behind.              *)
GoodRing(r) == r \in Ring /\ r.iStop = Wrap(r.iStart + r.size)

----------------------------------------------------------------------------
(* Index arithmetic.                                                       *)

(* Only the sign of the capacity matters to the proofs. *)
LEMMA CapacityType == Capacity \in Nat \ {0}
  BY CapacityAssumption

(* The mask leaves an index alone. *)
LEMMA WrapIndex == \A i \in Index : Wrap(i) = i
  BY CapacityType DEF Wrap, Index

(* The mask takes a sum of two indices back into the memory. *)
LEMMA WrapOver == \A i \in Capacity .. 2 * Capacity - 1 : Wrap(i) = i - Capacity
  BY CapacityType DEF Wrap

(* Both cases of the mask that the ring meets. *)
LEMMA WrapCases ==
  ASSUME NEW i \in Nat, i < 2 * Capacity
  PROVE  Wrap(i) = IF i < Capacity THEN i ELSE i - Capacity
  BY CapacityType, WrapIndex, WrapOver DEF Index

(* The mask yields an index. *)
LEMMA WrapType == \A i \in Nat : Wrap(i) \in Index
  BY CapacityType DEF Wrap, Index

(* Wrap(i + 1) and its inverse, without a modulus. *)
LEMMA IncDec ==
  \A i \in Index : /\ Inc(i) = IF i = Capacity - 1 THEN 0 ELSE i + 1
                   /\ Dec(i) = IF i = 0 THEN Capacity - 1 ELSE i - 1
                   /\ Inc(i) \in Index
                   /\ Dec(i) \in Index
  BY CapacityType, WrapIndex, WrapOver DEF Inc, Dec, Index

(* The indices of a good ring, without a modulus. *)
LEMMA GoodRingIndices ==
  ASSUME NEW r, GoodRing(r)
  PROVE  /\ r.iStart \in Nat /\ r.iStart < Capacity
         /\ r.iStop \in Nat /\ r.iStop < Capacity
         /\ r.size \in Nat /\ r.size <= Capacity
         /\ r.iStop = IF r.iStart + r.size < Capacity THEN r.iStart + r.size
                      ELSE r.iStart + r.size - Capacity
<1>1. /\ r.iStart \in Nat /\ r.iStart < Capacity
      /\ r.iStop \in Nat /\ r.iStop < Capacity
      /\ r.size \in Nat /\ r.size <= Capacity
  BY CapacityType DEF GoodRing, Ring, Index
<1>2. r.iStart + r.size \in Nat /\ r.iStart + r.size < 2 * Capacity
  BY <1>1, CapacityType
<1>3. Wrap(r.iStart + r.size) = IF r.iStart + r.size < Capacity THEN r.iStart + r.size
                                ELSE r.iStart + r.size - Capacity
  BY <1>1, <1>2, WrapCases, CapacityType
<1> QED BY <1>1, <1>3 DEF GoodRing

(* The memory of a good ring, and its elements without a modulus. *)
LEMMA GoodRingElements ==
  ASSUME NEW r, GoodRing(r)
  PROVE  /\ r.buffer \in [Index -> Values]
         /\ \A i \in Nat : i < Capacity =>
              /\ get_element(r, i) \in Values
              /\ get_element(r, i) = r.buffer[IF r.iStart + i < Capacity THEN r.iStart + i
                                              ELSE r.iStart + i - Capacity]
<1>1. r.buffer \in [Index -> Values]
  BY DEF GoodRing, Ring
<1> SUFFICES ASSUME NEW i \in Nat, i < Capacity
             PROVE  /\ get_element(r, i) \in Values
                    /\ get_element(r, i) =
                         r.buffer[IF r.iStart + i < Capacity THEN r.iStart + i
                                  ELSE r.iStart + i - Capacity]
  BY <1>1
<1>2. r.iStart + i \in Nat /\ r.iStart + i < 2 * Capacity
  BY GoodRingIndices, CapacityType
<1>3. Wrap(r.iStart + i) = IF r.iStart + i < Capacity THEN r.iStart + i
                           ELSE r.iStart + i - Capacity
  BY <1>2, WrapCases, GoodRingIndices, CapacityType
<1>4. Wrap(r.iStart + i) \in Index
  BY <1>2, WrapType
<1> QED BY <1>1, <1>3, <1>4 DEF get_element

(* A record is a good ring if its fields are. *)
LEMMA GoodRingIntro ==
  ASSUME NEW i \in Index, NEW j \in Index, NEW n \in 0 .. Capacity,
         NEW b \in [Index -> Values],
         j = IF i + n < Capacity THEN i + n ELSE i + n - Capacity
  PROVE  GoodRing([iStart |-> i, iStop |-> j, size |-> n, buffer |-> b])
<1> DEFINE r == [iStart |-> i, iStop |-> j, size |-> n, buffer |-> b]
<1>1. i + n \in 0 .. 2 * Capacity - 1
  BY CapacityType DEF Index
<1>2. Wrap(i + n) = j
  BY <1>1, CapacityType, WrapIndex, WrapOver DEF Index
<1>3. r \in Ring
  BY DEF Ring
<1>4. r.iStart = i /\ r.iStop = j /\ r.size = n
  OBVIOUS
<1> HIDE DEF r
<1>5. GoodRing(r)
  BY <1>2, <1>3, <1>4 DEF GoodRing
<1> QED BY <1>5 DEF r

----------------------------------------------------------------------------
(* Every function takes a good ring to a good ring.                        *)

(* circular_buffer_init_uint8. *)
LEMMA GoodInit == GoodRing(init)
<1>1. 0 \in Index /\ 0 \in 0 .. Capacity
  BY CapacityType DEF Index
<1>2. [i \in Index |-> Fill] \in [Index -> Values]
  BY ValuesAssumption
<1>3. 0 = IF 0 + 0 < Capacity THEN 0 + 0 ELSE 0 + 0 - Capacity
  BY CapacityType
<1> HIDE DEF Index
<1> QED BY <1>1, <1>2, <1>3, GoodRingIntro DEF init

(* circular_buffer_clear_uint8. *)
LEMMA GoodClear == ASSUME NEW r, GoodRing(r) PROVE GoodRing(clear(r))
<1>1. 0 \in Index /\ 0 \in 0 .. Capacity
  BY CapacityType DEF Index
<1>2. 0 = IF 0 + 0 < Capacity THEN 0 + 0 ELSE 0 + 0 - Capacity
  BY CapacityType
<1> QED BY <1>1, <1>2, GoodRingElements, GoodRingIntro DEF clear

(* circular_buffer_push_front_uint8. *)
LEMMA GoodPushFront ==
  ASSUME NEW r, GoodRing(r), NEW v \in Values PROVE GoodRing(push_front(r, v))
<1> DEFINE i == Dec(r.iStart)
           j == IF is_full(r) THEN Dec(r.iStop) ELSE r.iStop
           n == IF is_full(r) THEN r.size ELSE r.size + 1
           b == [r.buffer EXCEPT ![i] = v]
<1> USE GoodRingIndices, CapacityType
<1>0. r.iStart \in Index /\ r.iStop \in Index
  BY DEF Index
<1>1. i \in Index /\ j \in Index
  BY <1>0, IncDec
<1>2. b \in [Index -> Values]
  BY GoodRingElements
<1>3. n \in 0 .. Capacity
  BY GoodRingIndices, CapacityType DEF is_full
<1>4. j = IF i + n < Capacity THEN i + n ELSE i + n - Capacity
  BY <1>0, IncDec DEF is_full
<1>5. push_front(r, v) = [iStart |-> i, iStop |-> j, size |-> n, buffer |-> b]
  BY DEF push_front
<1> HIDE DEF i, j, n, b
<1> QED BY <1>1, <1>2, <1>3, <1>4, <1>5, GoodRingIntro

(* circular_buffer_push_back_uint8. *)
LEMMA GoodPushBack ==
  ASSUME NEW r, GoodRing(r), NEW v \in Values PROVE GoodRing(push_back(r, v))
<1> DEFINE i == IF is_full(r) THEN Inc(r.iStart) ELSE r.iStart
           j == Inc(r.iStop)
           n == IF is_full(r) THEN r.size ELSE r.size + 1
           b == [r.buffer EXCEPT ![r.iStop] = v]
<1> USE GoodRingIndices, CapacityType
<1>0. r.iStart \in Index /\ r.iStop \in Index
  BY DEF Index
<1>1. i \in Index /\ j \in Index
  BY <1>0, IncDec
<1>2. b \in [Index -> Values]
  BY GoodRingElements
<1>3. n \in 0 .. Capacity
  BY GoodRingIndices, CapacityType DEF is_full
<1>4. j = IF i + n < Capacity THEN i + n ELSE i + n - Capacity
  BY <1>0, IncDec DEF is_full
<1>5. push_back(r, v) = [iStart |-> i, iStop |-> j, size |-> n, buffer |-> b]
  BY DEF push_back
<1> HIDE DEF i, j, n, b
<1> QED BY <1>1, <1>2, <1>3, <1>4, <1>5, GoodRingIntro

(* n calls of circular_buffer_pop_front_uint8. *)
LEMMA GoodPopFront ==
  ASSUME NEW r, GoodRing(r), NEW n \in 0 .. r.size PROVE GoodRing(pop_front_n(r, n))
<1> DEFINE i == Wrap(r.iStart + n)
           m == r.size - n
<1> USE GoodRingIndices, CapacityType
<1>1. /\ r.iStart + n \in Nat /\ r.iStart + n < 2 * Capacity
      /\ m \in 0 .. Capacity /\ r.iStop \in Index
  BY DEF Index
<1>2. i = IF r.iStart + n < Capacity THEN r.iStart + n ELSE r.iStart + n - Capacity
  BY <1>1, WrapCases
<1>3. i \in Index
  BY <1>1, WrapType
<1>4. r.iStop = IF i + m < Capacity THEN i + m ELSE i + m - Capacity
  <2> HIDE DEF i
  <2> QED BY <1>1, <1>2
<1>5. pop_front_n(r, n) = [iStart |-> i, iStop |-> r.iStop, size |-> m, buffer |-> r.buffer]
  BY DEF pop_front_n
<1> HIDE DEF i, m
<1> QED BY <1>1, <1>3, <1>4, <1>5, GoodRingElements, GoodRingIntro

(* n calls of circular_buffer_pop_back_uint8. *)
LEMMA GoodPopBack ==
  ASSUME NEW r, GoodRing(r), NEW n \in 0 .. r.size PROVE GoodRing(pop_back_n(r, n))
<1> DEFINE j == Wrap(r.iStop + Capacity - n)
           m == r.size - n
<1> USE GoodRingIndices, CapacityType
<1>1. /\ r.iStop + Capacity - n \in Nat /\ r.iStop + Capacity - n < 2 * Capacity
      /\ m \in 0 .. Capacity /\ r.iStart \in Index
  BY DEF Index
<1>2. j = IF r.iStop + Capacity - n < Capacity THEN r.iStop + Capacity - n
          ELSE r.iStop - n
  BY <1>1, WrapCases
<1>3. j \in Index
  BY <1>1, WrapType
<1>4. j = IF r.iStart + m < Capacity THEN r.iStart + m ELSE r.iStart + m - Capacity
  <2> HIDE DEF j
  <2> QED BY <1>1, <1>2
<1>5. pop_back_n(r, n) = [iStart |-> r.iStart, iStop |-> j, size |-> m, buffer |-> r.buffer]
  BY DEF pop_back_n
<1> HIDE DEF j, m
<1> QED BY <1>1, <1>3, <1>4, <1>5, GoodRingElements, GoodRingIntro

(* pop_front_block and pop_front_to_fd, for any part of the first block. *)
LEMMA GoodTakeFront ==
  ASSUME NEW r, GoodRing(r), NEW n \in 0 .. r.size PROVE GoodRing(take_front(r, n))
  BY GoodClear, GoodPopFront DEF take_front

(* The first block is a part of the content that ends within the memory. *)
LEMMA FirstBlockSize ==
  ASSUME NEW r, GoodRing(r)
  PROVE  /\ first_block_size(r) \in 0 .. r.size
         /\ r.iStart + first_block_size(r) <= Capacity
         /\ first_block_size(r) = 0 => r.size = 0
  BY GoodRingIndices, CapacityType DEF first_block_size, wraps

(* circular_buffer_delete_first_block_uint8. *)
LEMMA GoodDeleteFirstBlock ==
  ASSUME NEW r, GoodRing(r) PROVE GoodRing(delete_first_block(r))
<1>1. CASE wraps(r)
  <2>1. Capacity - r.iStart \in 0 .. r.size
    BY <1>1, GoodRingIndices, CapacityType DEF wraps
  <2> QED BY <1>1, <2>1, GoodPopFront DEF delete_first_block
<1>2. CASE ~wraps(r)
  BY <1>2, GoodClear DEF delete_first_block
<1> QED BY <1>1, <1>2

(* The indices that push_back_from_fd computes, without a modulus. *)
LEMMA FdIndices ==
  ASSUME NEW r, GoodRing(r), NEW m \in Nat, m <= block_size_available(r)
  PROVE  /\ r.iStop + m <= Capacity
         /\ Wrap(r.iStop + m) = IF r.iStop + m < Capacity THEN r.iStop + m ELSE 0
         /\ r.size + m >= Capacity =>
              Wrap(r.iStart + (r.size + m) - Capacity) =
                IF r.iStart + r.size + m < 2 * Capacity
                  THEN r.iStart + r.size + m - Capacity
                  ELSE r.iStart + r.size + m - 2 * Capacity
<1> USE CapacityType
<1>1. /\ r.iStart \in Nat /\ r.iStart < Capacity
      /\ r.iStop \in Nat /\ r.iStop < Capacity
      /\ r.size \in Nat /\ r.size <= Capacity
      /\ r.iStop + m <= Capacity
  BY GoodRingIndices DEF block_size_available
<1>2. Wrap(r.iStop + m) = IF r.iStop + m < Capacity THEN r.iStop + m ELSE 0
  BY <1>1, WrapCases
<1>3. ASSUME r.size + m >= Capacity
      PROVE  Wrap(r.iStart + (r.size + m) - Capacity) =
                IF r.iStart + r.size + m < 2 * Capacity
                  THEN r.iStart + r.size + m - Capacity
                  ELSE r.iStart + r.size + m - 2 * Capacity
  <2>1. /\ r.iStart + (r.size + m) - Capacity \in Nat
        /\ r.iStart + (r.size + m) - Capacity < 2 * Capacity
    BY <1>1, <1>3, GoodRingIndices
  <2> QED BY <1>1, <2>1, WrapCases
<1> QED BY <1>1, <1>2, <1>3

(* The room offered to read(). *)
LEMMA FdRoom == ASSUME NEW r, GoodRing(r) PROVE block_size_available(r) \in 0 .. Capacity
  BY GoodRingIndices, CapacityType DEF block_size_available

(* It is not more than there is, unless the ring is full. *)
LEMMA FdRoomIsFree ==
  ASSUME NEW r, GoodRing(r), r.size < Capacity
  PROVE  block_size_available(r) <= Capacity - r.size
<1>1. /\ r.iStart \in Nat /\ r.iStop \in Nat /\ r.size \in Nat
      /\ r.iStart < Capacity
      /\ r.iStop = IF r.iStart + r.size < Capacity THEN r.iStart + r.size
                   ELSE r.iStart + r.size - Capacity
  BY GoodRingIndices
<1> QED BY <1>1, CapacityType DEF block_size_available

(* They make a good ring, whatever memory goes with them. *)
LEMMA GoodFdIndices ==
  ASSUME NEW r, GoodRing(r), NEW m \in Nat, m <= block_size_available(r),
         NEW b \in [Index -> Values]
  PROVE  GoodRing([iStart |-> IF r.size + m >= Capacity
                                THEN Wrap(r.iStart + (r.size + m) - Capacity)
                                ELSE r.iStart,
                   iStop  |-> Wrap(r.iStop + m),
                   size   |-> IF r.size + m >= Capacity THEN Capacity ELSE r.size + m,
                   buffer |-> b])
<1> DEFINE i == IF r.size + m >= Capacity THEN Wrap(r.iStart + (r.size + m) - Capacity)
                ELSE r.iStart
           j == Wrap(r.iStop + m)
           n == IF r.size + m >= Capacity THEN Capacity ELSE r.size + m
<1> USE CapacityType
<1>1. n \in 0 .. Capacity
  BY GoodRingIndices
<1>2. j \in Index /\ i \in Index
  <2>1. r.iStop + m \in Nat /\ r.iStart \in Index
    BY GoodRingIndices DEF Index
  <2>2. r.size + m >= Capacity => r.iStart + (r.size + m) - Capacity \in Nat
    BY GoodRingIndices
  <2> QED BY <2>1, <2>2, WrapType
<1>3. j = IF i + n < Capacity THEN i + n ELSE i + n - Capacity
  <2>1. CASE r.size + m >= Capacity
    <3>1. /\ n = Capacity
          /\ i = IF r.iStart + r.size + m < 2 * Capacity
                   THEN r.iStart + r.size + m - Capacity
                   ELSE r.iStart + r.size + m - 2 * Capacity
      BY <2>1, FdIndices
    <3>2. j = IF r.iStop + m < Capacity THEN r.iStop + m ELSE 0
      BY FdIndices
    <3> HIDE DEF i, j, n
    <3> QED BY <2>1, <3>1, <3>2, FdIndices, GoodRingIndices
  <2>2. CASE ~(r.size + m >= Capacity)
    BY <2>2, FdIndices, GoodRingIndices
  <2> QED BY <2>1, <2>2
<1> HIDE DEF i, j, n
<1>4. GoodRing([iStart |-> i, iStop |-> j, size |-> n, buffer |-> b])
  BY <1>1, <1>2, <1>3, GoodRingIntro
<1> QED BY <1>4 DEF i, j, n

(* circular_buffer_push_back_from_fd_uint8, for any result of read(). *)
LEMMA GoodPushBackFromFd ==
  ASSUME NEW r, GoodRing(r), NEW m \in Nat, m <= block_size_available(r),
         NEW read \in [1 .. m -> Values], Len(read) = m
  PROVE  GoodRing(push_back_from_fd(r, read))
<1> DEFINE b == [c \in Index |-> IF c \in r.iStop .. r.iStop + m - 1
                                   THEN read[c - r.iStop + 1] ELSE r.buffer[c]]
<1>1. b \in [Index -> Values]
  <2> SUFFICES ASSUME NEW c \in Index
               PROVE  (IF c \in r.iStop .. r.iStop + m - 1
                         THEN read[c - r.iStop + 1] ELSE r.buffer[c]) \in Values
    OBVIOUS
  <2>1. CASE c \in r.iStop .. r.iStop + m - 1
    <3>1. c - r.iStop + 1 \in 1 .. m
      BY <2>1, GoodRingIndices DEF Index
    <3> QED BY <2>1, <3>1
  <2>2. CASE c \notin r.iStop .. r.iStop + m - 1
    BY <2>2, GoodRingElements
  <2> QED BY <2>1, <2>2
<1>2. push_back_from_fd(r, read) =
        [iStart |-> IF r.size + m >= Capacity
                      THEN Wrap(r.iStart + (r.size + m) - Capacity)
                      ELSE r.iStart,
         iStop  |-> Wrap(r.iStop + m),
         size   |-> IF r.size + m >= Capacity THEN Capacity ELSE r.size + m,
         buffer |-> b]
  BY Zenon DEF push_back_from_fd
<1> HIDE DEF b
<1> QED BY <1>1, <1>2, GoodFdIndices

----------------------------------------------------------------------------
(* Searching.                                                              *)

(* The positions of a value are a subset of 0 .. size - 1. *)
LEMMA PositionsType ==
  ASSUME NEW r, GoodRing(r), NEW v
  PROVE  /\ PositionsOf(r, v) \in SUBSET Nat
         /\ PositionsOf(r, v) \in SUBSET (0 .. r.size)
         /\ \A i \in PositionsOf(r, v) : i \in Nat /\ i < r.size /\ i < Capacity
  BY GoodRingIndices, CapacityType DEF PositionsOf, Positions

(* find_first and find_last: a position, or the size if there is none. *)
LEMMA FindRange ==
  ASSUME NEW r, GoodRing(r), NEW v
  PROVE  find_first(r, v) \in 0 .. r.size /\ find_last(r, v) \in 0 .. r.size
<1>1. CASE PositionsOf(r, v) = {}
  BY <1>1, GoodRingIndices DEF find_first, find_last
<1>2. CASE PositionsOf(r, v) # {}
  <2>1. Min(PositionsOf(r, v)) \in PositionsOf(r, v)
    BY <1>2, PositionsType, MinIsLeast
  <2>2. Max(PositionsOf(r, v)) \in PositionsOf(r, v)
    BY <1>2, PositionsType, MaxIsGreatest, GoodRingIndices
  <2> QED BY <1>2, <2>1, <2>2, PositionsType DEF find_first, find_last
<1> QED BY <1>1, <1>2

(* The remove loops never pop more than there is. *)
LEMMA RemoveRange ==
  ASSUME NEW r, GoodRing(r), NEW v, NEW inclusive \in BOOLEAN
  PROVE  /\ front_to(r, v, inclusive) \in 0 .. r.size
         /\ back_to(r, v, inclusive) \in 0 .. r.size
<1> DEFINE first == find_first(r, v)
           last == find_last(r, v)
<1>1. first \in 0 .. r.size /\ last \in 0 .. r.size /\ r.size \in Nat
  BY FindRange, GoodRingIndices
<1> HIDE DEF first, last
<1>2. (IF first < r.size /\ inclusive THEN first + 1 ELSE first) \in 0 .. r.size
  BY <1>1
<1>3. (IF last = r.size THEN r.size
       ELSE IF inclusive THEN r.size - last ELSE r.size - last - 1) \in 0 .. r.size
  BY <1>1
<1> QED BY <1>2, <1>3, Zenon DEF front_to, back_to, first, last

(* The last call of remove_front_unfinished_frames starts within the content. *)
LEMMA LastEntry ==
  ASSUME NEW n \in Nat, NEW starts \in SUBSET (0 .. n), NEW ends \in SUBSET (0 .. n),
         \A e \in ends : e < n
  PROVE  /\ last_entry(starts, ends) \in Entries(ends)
         /\ last_entry(starts, ends) \in 0 .. n
         /\ ~Recurses(starts, ends, last_entry(starts, ends))
         /\ \A k \in Entries(ends) : k < last_entry(starts, ends) => Recurses(starts, ends, k)
<1> DEFINE S == {k \in Entries(ends) : ~Recurses(starts, ends, k)}
<1>1. Entries(ends) \in SUBSET (0 .. n) /\ Entries(ends) \in SUBSET Nat
  BY DEF Entries
<1>2. S # {}
  <2>1. CASE ends = {}
    BY <2>1 DEF Entries, Recurses, From
  <2>2. CASE ends # {}
    <3> DEFINE m == Max(ends)
    <3>0. m \in ends /\ \A e \in ends : m >= e
      BY <2>2, MaxIsGreatest
    <3>1. m \in ends /\ m \in Nat /\ \A e \in ends : m >= e
      <4> HIDE DEF m
      <4> QED BY <3>0
    <3>2. m + 1 \in Entries(ends)
      BY <3>1 DEF Entries
    <3> HIDE DEF m
    <3>3. From(ends, m + 1) = {}
      <4>1. \A e \in ends : ~(e >= m + 1)
        BY <3>1
      <4> QED BY <4>1, Zenon DEF From
    <3> QED BY <3>2, <3>3 DEF Recurses
  <2> QED BY <2>1, <2>2
<1>3. Min(S) \in S /\ \A k \in S : Min(S) <= k
  BY <1>1, <1>2, MinIsLeast
<1>4. last_entry(starts, ends) = Min(S)
  BY DEF last_entry
<1> QED BY <1>1, <1>3, <1>4

(* What it pops is a position or everything, at or behind that entry. *)
LEMMA UnfinishedRange ==
  ASSUME NEW r, GoodRing(r), NEW v, NEW w
  PROVE  /\ unfinished(r, v, w) \in 0 .. r.size
         /\ unfinished(r, v, w) >= last_entry(PositionsOf(r, v), PositionsOf(r, w))
<1> DEFINE starts == PositionsOf(r, v)
           ends == PositionsOf(r, w)
           k == last_entry(starts, ends)
           C == Candidates(starts, ends)
<1>1. r.size \in Nat /\ k \in 0 .. r.size
  BY PositionsType, LastEntry, GoodRingIndices
<1>2. C \in SUBSET (0 .. r.size) /\ \A i \in C : i >= k
  BY PositionsType DEF Candidates, From
<1>3. unfinished(r, v, w) = IF C = {} THEN r.size ELSE Max(C)
  BY DEF unfinished
<1> HIDE DEF C, k
<1>4. C # {} => Max(C) \in C
  BY <1>1, <1>2, MaxIsGreatest
<1>5. CASE C = {}
  <2>1. unfinished(r, v, w) = r.size
    BY <1>3, <1>5
  <2> QED BY <1>1, <2>1 DEF k
<1>6. CASE C # {}
  <2>1. unfinished(r, v, w) \in C
    BY <1>3, <1>4, <1>6
  <2> QED BY <1>2, <2>1 DEF k
<1> QED BY <1>5, <1>6

(* Its return value lies between 0 and the elements it popped. *)
LEMMA UnfinishedResultRange ==
  ASSUME NEW r, GoodRing(r), NEW v, NEW w
  PROVE  unfinished_result(r, v, w) \in 0 .. r.size
<1> DEFINE starts == PositionsOf(r, v)
           ends == PositionsOf(r, w)
           k == last_entry(starts, ends)
           F == {e \in ends : e < k /\ e \in Entries(ends)}
<1>1. r.size \in Nat /\ k \in 0 .. r.size
  BY PositionsType, LastEntry, GoodRingIndices
<1>2. F \in SUBSET (0 .. k - 1)
  BY <1>1, PositionsType
<1>3. IsFiniteSet(0 .. k - 1) /\ Cardinality(0 .. k - 1) = k
  <2> HIDE DEF k
  <2>1. 0 \in Int /\ k - 1 \in Int
    BY <1>1
  <2>2. /\ IsFiniteSet(0 .. k - 1)
        /\ Cardinality(0 .. k - 1) = IF 0 > k - 1 THEN 0 ELSE (k - 1) - 0 + 1
    BY <2>1, FS_Interval, Zenon
  <2> QED BY <1>1, <2>2
<1>4. Cardinality(F) \in Nat /\ Cardinality(F) <= k
  BY <1>2, <1>3, FS_Subset, FS_CardinalityType
<1>5. unfinished(r, v, w) \in 0 .. r.size /\ unfinished(r, v, w) >= k
  BY UnfinishedRange
<1>6. unfinished_result(r, v, w) = unfinished(r, v, w) - Cardinality(F)
  BY DEF unfinished_result
<1> HIDE DEF k, F
<1> QED BY <1>1, <1>4, <1>5, <1>6

----------------------------------------------------------------------------
(* The invariant.                                                          *)

(* The bytes handed over are bytes, and as many as the count says. *)
LEMMA FirstBlockBytes ==
  ASSUME NEW r, GoodRing(r), NEW n \in 0 .. first_block_size(r)
  PROVE  /\ first_block(r, n) \in Seq(Values)
         /\ Len(first_block(r, n)) = n
         /\ \A i \in 1 .. n : first_block(r, n)[i] = get_element(r, i - 1)
<1>1. n \in Nat /\ r.iStart + n <= Capacity /\ n <= Capacity
  BY FirstBlockSize, GoodRingIndices, CapacityType
<1>2. \A i \in 1 .. n : /\ r.buffer[r.iStart + i - 1] = get_element(r, i - 1)
                         /\ get_element(r, i - 1) \in Values
  <2> SUFFICES ASSUME NEW i \in 1 .. n
               PROVE  /\ r.buffer[r.iStart + i - 1] = get_element(r, i - 1)
                      /\ get_element(r, i - 1) \in Values
    OBVIOUS
  <2>1. i - 1 \in Nat /\ i - 1 < Capacity /\ r.iStart + (i - 1) < Capacity
    BY <1>1, GoodRingIndices, CapacityType
  <2>2. r.iStart + (i - 1) = r.iStart + i - 1
    BY <1>1, GoodRingIndices
  <2> QED BY <2>1, <2>2, GoodRingElements
<1>4. first_block(r, n) \in [1 .. n -> Values]
  BY <1>2 DEF first_block
<1>5. first_block(r, n) \in Seq(Values) /\ Len(first_block(r, n)) = n
  BY <1>1, <1>4, FunctionIsSeq
<1> QED BY <1>2, <1>5 DEF first_block

(* What the invariance proof carries from step to step. *)
IInv == TypeOK /\ StopBehindContent

Results == [fn : FunctionNames, err : ErrorNames, n : Nat, data : Seq(Values)]

(* What functions return or throw is a proper result. *)
LEMMA ResultTypes ==
  ASSUME NEW fn \in FunctionNames
  PROVE  /\ Done(fn) \in Results
         /\ \A err \in ErrorNames : Thrown(fn, err) \in Results
         /\ \A n \in Nat : \A data \in Seq(Values) : Returned(fn, n, data) \in Results
<1>1. <<>> \in Seq(Values) /\ 0 \in Nat
  BY EmptySeq
<1>2. "none" \in ErrorNames
  BY DEF ErrorNames
<1>3. ASSUME NEW n \in Nat, NEW data \in Seq(Values)
      PROVE  Returned(fn, n, data) \in Results
  BY <1>2 DEF Returned, Results
<1>4. ASSUME NEW err \in ErrorNames PROVE Thrown(fn, err) \in Results
  BY <1>1, <1>4 DEF Thrown, Results
<1>5. Done(fn) \in Results
  BY <1>1, <1>3 DEF Done
<1> QED BY <1>3, <1>4, <1>5

(* The names of functions and exceptions. *)
LEMMA NamesKnown ==
  /\ FunctionNames =
       {"init", "push_front", "push_back", "pop_front", "pop_back", "remove_front_to",
        "remove_back_to", "delete_first_block", "pop_front_block", "pop_front_to_fd",
        "push_back_from_fd", "clear", "remove_front_unfinished_frames",
        "push_back_block", "push_back_string"}
  /\ ErrorNames = {"none", "CB_POP_EMPTY", "FILE_READ", "FILE_WRITE"}
  BY DEF FunctionNames, ErrorNames

(* A call that leaves a good ring and a proper result preserves the invariant. *)
LEMMA CallPreserves ==
  ASSUME IInv, NEW ring, GoodRing(ring), NEW result \in Results, Call(ring, result)
  PROVE  IInv'
<1>1. cb' \in Ring /\ cb'.iStop = Wrap(cb'.iStart + cb'.size)
  BY DEF Call, GoodRing
<1>2. out' \in [fn : FunctionNames, err : ErrorNames, n : Nat, data : Seq(Values)]
  BY DEF Call, Results
<1>3. loop' = loop
  BY DEF Call
<1> QED BY <1>1, <1>2, <1>3 DEF IInv, TypeOK, StopBehindContent

(* Every step preserves the invariant, one case for each action of Next. *)
LEMMA StepPreserves == IInv /\ [Next]_vars => IInv'
<1> SUFFICES ASSUME IInv, [Next]_vars PROVE IInv'
  OBVIOUS
<1> USE ResultTypes, NamesKnown
<1>0. GoodRing(cb) /\ <<>> \in Seq(Values)
  BY DEF IInv, TypeOK, StopBehindContent, GoodRing
<1>1. ASSUME NEW v \in Values, PushFront(v) PROVE IInv'
  BY <1>0, <1>1, GoodPushFront, CallPreserves DEF PushFront
<1>2. ASSUME NEW v \in Values, PushBack(v) PROVE IInv'
  BY <1>0, <1>2, GoodPushBack, CallPreserves DEF PushBack
<1>3. ASSUME NEW v \in Values, NEW inclusive \in BOOLEAN, RemoveFrontTo(v, inclusive)
      PROVE  IInv'
  <2>1. GoodRing(pop_front_n(cb, front_to(cb, v, inclusive)))
    BY <1>0, RemoveRange, GoodPopFront
  <2> QED BY <1>0, <1>3, <2>1, CallPreserves DEF RemoveFrontTo
<1>4. ASSUME NEW v \in Values, NEW inclusive \in BOOLEAN, RemoveBackTo(v, inclusive)
      PROVE  IInv'
  <2>1. GoodRing(pop_back_n(cb, back_to(cb, v, inclusive)))
    BY <1>0, RemoveRange, GoodPopBack
  <2> QED BY <1>0, <1>4, <2>1, CallPreserves DEF RemoveBackTo
<1>5. ASSUME NEW v \in Values, NEW w \in Values, RemoveFrontUnfinishedFrames(v, w)
      PROVE  IInv'
  <2>1. GoodRing(take_front(cb, unfinished(cb, v, w)))
    BY <1>0, UnfinishedRange, GoodTakeFront
  <2>2. unfinished_result(cb, v, w) \in Nat
    BY <1>0, UnfinishedResultRange
  <2> QED BY <1>0, <1>5, <2>1, <2>2, CallPreserves DEF RemoveFrontUnfinishedFrames
<1>6. CASE PopFront
  <2>1. CASE cb.size = 0
    BY <1>0, <1>6, <2>1, CallPreserves DEF PopFront
  <2>2. CASE cb.size # 0
    <3>1. 1 \in 0 .. cb.size /\ 0 < Capacity
      BY <1>0, <2>2, GoodRingIndices, CapacityType
    <3>2. GoodRing(pop_front_n(cb, 1))
      BY <1>0, <3>1, GoodPopFront
    <3>3. <<get_element(cb, 0)>> \in Seq(Values)
      BY <1>0, <3>1, GoodRingElements
    <3> QED BY <1>0, <1>6, <2>2, <3>2, <3>3, CallPreserves DEF PopFront
  <2> QED BY <2>1, <2>2
<1>7. CASE PopBack
  <2>1. CASE cb.size = 0
    BY <1>0, <1>7, <2>1, CallPreserves DEF PopBack
  <2>2. CASE cb.size # 0
    <3>1. 1 \in 0 .. cb.size
      BY <1>0, <2>2, GoodRingIndices
    <3>2. GoodRing(pop_back_n(cb, 1))
      BY <1>0, <3>1, GoodPopBack
    <3>3. cb.iStop \in Index
      BY <1>0 DEF GoodRing, Ring
    <3>4. <<cb.buffer[Dec(cb.iStop)]>> \in Seq(Values)
      BY <1>0, <3>3, IncDec, GoodRingElements
    <3> QED BY <1>0, <1>7, <2>2, <3>2, <3>4, CallPreserves DEF PopBack
  <2> QED BY <2>1, <2>2
<1>8. CASE DeleteFirstBlock
  <2> DEFINE n == first_block_size(cb)
  <2>1. n \in Nat /\ n \in 0 .. n
    BY <1>0, FirstBlockSize, GoodRingIndices
  <2>2. first_block(cb, n) \in Seq(Values)
    BY <1>0, <2>1, FirstBlockBytes
  <2>3. GoodRing(delete_first_block(cb))
    BY <1>0, GoodDeleteFirstBlock
  <2> QED BY <1>8, <2>1, <2>2, <2>3, CallPreserves DEF DeleteFirstBlock
<1>9. ASSUME NEW dest_size \in 0 .. Capacity, PopFrontBlock(dest_size) PROVE IInv'
  <2> DEFINE n == IF dest_size < first_block_size(cb) THEN dest_size ELSE first_block_size(cb)
  <2>1. n \in Nat /\ n \in 0 .. first_block_size(cb) /\ n \in 0 .. cb.size
    BY <1>0, FirstBlockSize, GoodRingIndices, CapacityType
  <2>2. PopFrontBlock(dest_size) =
          Call(take_front(cb, n), Returned("pop_front_block", n, first_block(cb, n)))
    BY DEF PopFrontBlock
  <2> HIDE DEF n
  <2>3. first_block(cb, n) \in Seq(Values)
    BY <1>0, <2>1, FirstBlockBytes
  <2>4. GoodRing(take_front(cb, n))
    BY <1>0, <2>1, GoodTakeFront
  <2> QED BY <1>9, <2>1, <2>2, <2>3, <2>4, CallPreserves
<1>10. CASE PopFrontToFd
  <2>1. ASSUME NEW n \in 0 .. first_block_size(cb),
               Call(take_front(cb, n), Returned("pop_front_to_fd", n, first_block(cb, n)))
        PROVE  IInv'
    <3>1. n \in Nat /\ n \in 0 .. cb.size
      BY <1>0, FirstBlockSize, GoodRingIndices
    <3>2. first_block(cb, n) \in Seq(Values)
      BY <1>0, FirstBlockBytes
    <3>3. GoodRing(take_front(cb, n))
      BY <1>0, <3>1, GoodTakeFront
    <3> QED BY <2>1, <3>1, <3>2, <3>3, CallPreserves
  <2>2. CASE Call(cb, Thrown("pop_front_to_fd", "FILE_WRITE"))
    BY <1>0, <2>2, CallPreserves
  <2> QED BY <1>10, <2>1, <2>2 DEF PopFrontToFd
<1>11. CASE PushBackFromFd
  <2>1. ASSUME NEW n \in 0 .. block_size_available(cb), NEW read \in [1 .. n -> Values],
               Call(push_back_from_fd(cb, read), Returned("push_back_from_fd", n, <<>>))
        PROVE  IInv'
    <3>1. n \in Nat /\ n <= block_size_available(cb)
      BY <1>0, FdRoom
    <3>2. Len(read) = n
      BY <3>1, FunctionIsSeq
    <3>3. GoodRing(push_back_from_fd(cb, read))
      BY <1>0, <3>1, <3>2, GoodPushBackFromFd
    <3> QED BY <1>0, <2>1, <3>1, <3>3, CallPreserves
  <2>2. CASE Call(cb, Thrown("push_back_from_fd", "FILE_READ"))
    BY <1>0, <2>2, CallPreserves
  <2> QED BY <1>11, <2>1, <2>2 DEF PushBackFromFd
<1>12. CASE Clear
  BY <1>0, <1>12, GoodClear, CallPreserves DEF Clear
<1>13. ASSUME NEW fn \in PushLoops, NEW source \in Sources, StartPush(fn, source)
       PROVE  IInv'
  <2>1. Len(source) \in Nat /\ 0 <= Len(source)
    BY SourcesAssumption, LenProperties
  <2>2. loop' \in [fn : PushLoops \cup {"none"}, source : Sources \cup {<<>>}, i : Nat]
    BY <1>13 DEF StartPush
  <2>3. loop'.i <= Len(loop'.source)
    BY <1>13, <2>1 DEF StartPush
  <2>4. cb' = cb /\ out' = out
    BY <1>13 DEF StartPush
  <2> QED BY <2>2, <2>3, <2>4 DEF IInv, TypeOK, StopBehindContent
<1>14. CASE PushNext
  <2>1. loop.source \in Seq(Values) /\ loop.i \in Nat /\ Len(loop.source) \in Nat
    BY <1>0, SourcesAssumption, LenProperties DEF IInv, TypeOK
  <2>2. loop.source[loop.i + 1] \in Values
    BY <1>14, <2>1, LenProperties DEF PushNext
  <2>3. GoodRing(cb')
    BY <1>0, <1>14, <2>2, GoodPushBack DEF PushNext
  <2>4. out' \in [fn : FunctionNames, err : ErrorNames, n : Nat, data : Seq(Values)]
    BY <1>14 DEF PushNext, Results
  <2>5. /\ loop' \in [fn : PushLoops \cup {"none"}, source : Sources \cup {<<>>}, i : Nat]
        /\ loop'.source = loop.source /\ loop'.i = loop.i + 1
    BY <1>14 DEF PushNext, IInv, TypeOK
  <2>6. loop'.i <= Len(loop'.source)
    BY <1>14, <2>1, <2>5 DEF PushNext
  <2> QED BY <2>3, <2>4, <2>5, <2>6 DEF IInv, TypeOK, StopBehindContent, GoodRing
<1>15. CASE ReturnFromPush
  <2>1. loop' \in [fn : PushLoops \cup {"none"}, source : Sources \cup {<<>>}, i : Nat]
    BY <1>15 DEF ReturnFromPush, Idle
  <2>2. loop'.i <= Len(loop'.source)
    BY <1>15, EmptySeq DEF ReturnFromPush, Idle
  <2>3. out' \in [fn : FunctionNames, err : ErrorNames, n : Nat, data : Seq(Values)]
    <3>1. loop.fn \in FunctionNames
      BY <1>15 DEF ReturnFromPush, IInv, TypeOK, PushLoops
    <3>2. Done(loop.fn) \in Results
      BY <3>1
    <3> QED BY <1>15, <3>2 DEF ReturnFromPush, Results
  <2>4. cb' = cb
    BY <1>15 DEF ReturnFromPush
  <2> QED BY <2>1, <2>2, <2>3, <2>4 DEF IInv, TypeOK, StopBehindContent
<1>16. CASE UNCHANGED vars
  BY <1>16 DEF IInv, TypeOK, StopBehindContent, vars
<1> QED
  BY <1>1, <1>2, <1>3, <1>4, <1>5, <1>6, <1>7, <1>8, <1>9, <1>10, <1>11, <1>12,
     <1>13, <1>14, <1>15, <1>16 DEF Next

(* The ring's record, the call results and the loop have their types in every *)
(* reachable state, and iStop always stands behind the last element, through   *)
(* every overwrite, wrap and reset of the indices in circular_buffer.c.        *)
THEOREM Consistent == Spec => [](TypeOK /\ StopBehindContent)
<1>1. Init => IInv
  <2> SUFFICES ASSUME Init PROVE IInv
    OBVIOUS
  <2>1. GoodRing(cb)
    BY GoodInit DEF Init
  <2>2. out \in [fn : FunctionNames, err : ErrorNames, n : Nat, data : Seq(Values)]
    BY ResultTypes, NamesKnown DEF Init, Results
  <2>3. /\ loop \in [fn : PushLoops \cup {"none"}, source : Sources \cup {<<>>}, i : Nat]
        /\ loop.i <= Len(loop.source)
    BY EmptySeq DEF Init, Idle
  <2> QED BY <2>1, <2>2, <2>3 DEF IInv, TypeOK, StopBehindContent, GoodRing
<1>2. IInv => TypeOK /\ StopBehindContent
  BY DEF IInv
<1> QED BY <1>1, <1>2, StepPreserves, PTL DEF Spec

----------------------------------------------------------------------------
(* The content: what each function does to the bytes the ring stands for,    *)
(* in the words of the bounded deque.                                        *)

(* The content is a sequence of as many bytes as size says. *)
LEMMA ContentIsSeq ==
  ASSUME NEW r, GoodRing(r)
  PROVE  /\ Content(r) \in Seq(Values)
         /\ Len(Content(r)) = r.size
         /\ \A i \in 1 .. r.size : Content(r)[i] = get_element(r, i - 1)
<1>1. r.size \in Nat /\ r.size <= Capacity
  BY GoodRingIndices
<1>2. \A i \in 1 .. r.size : get_element(r, i - 1) \in Values
  <2> SUFFICES ASSUME NEW i \in 1 .. r.size PROVE get_element(r, i - 1) \in Values
    OBVIOUS
  <2>1. i - 1 \in Nat /\ i - 1 < Capacity
    BY <1>1, CapacityType
  <2> QED BY <2>1, GoodRingElements
<1>3. Content(r) \in [1 .. r.size -> Values]
  BY <1>2 DEF Content
<1>4. Content(r) \in Seq(Values) /\ Len(Content(r)) = r.size
  BY <1>1, <1>3, FunctionIsSeq
<1> QED BY <1>4 DEF Content

(* A sequence that agrees with the ring element by element is its content. *)
LEMMA ContentIs ==
  ASSUME NEW r, GoodRing(r), NEW s \in Seq(Values), Len(s) = r.size,
         \A i \in 1 .. r.size : s[i] = get_element(r, i - 1)
  PROVE  Content(r) = s
  BY ContentIsSeq, SeqEqual

(* What the deque's Take and Drop yield of the content. *)
LEMMA ContentParts ==
  ASSUME NEW r, GoodRing(r), NEW n \in 0 .. r.size
  PROVE  /\ Deque!Take(Content(r), n) \in Seq(Values)
         /\ Len(Deque!Take(Content(r), n)) = n
         /\ \A i \in 1 .. n : Deque!Take(Content(r), n)[i] = get_element(r, i - 1)
         /\ Deque!Drop(Content(r), n) \in Seq(Values)
         /\ Len(Deque!Drop(Content(r), n)) = r.size - n
         /\ \A i \in 1 .. r.size - n : Deque!Drop(Content(r), n)[i] = get_element(r, n + i - 1)
<1> DEFINE C == Content(r)
<1>1. /\ C \in Seq(Values) /\ Len(C) = r.size /\ r.size \in Nat
      /\ \A i \in 1 .. r.size : C[i] = get_element(r, i - 1)
  BY ContentIsSeq, GoodRingIndices
<1> HIDE DEF C
<1>2. n \in 0 .. Len(C)
  BY <1>1
<1>3. Deque!Take(C, n) = Queue!Take(C, n) /\ Deque!Drop(C, n) = Queue!Drop(C, n)
  BY DEF Queue!Take, Deque!Take, Queue!Drop, Deque!Drop
<1>4. /\ Deque!Take(C, n) \in Seq(Values) /\ Len(Deque!Take(C, n)) = n
      /\ \A i \in 1 .. n : Deque!Take(C, n)[i] = C[i]
  BY <1>1, <1>2, <1>3, Queue!Taking
<1>5. /\ Deque!Drop(C, n) \in Seq(Values) /\ Len(Deque!Drop(C, n)) = r.size - n
      /\ \A i \in 1 .. r.size - n : Deque!Drop(C, n)[i] = C[n + i]
  <2>1. /\ Queue!Drop(C, n) \in Seq(Values) /\ Len(Queue!Drop(C, n)) = Len(C) - n
        /\ \A i \in 1 .. Len(C) - n : Queue!Drop(C, n)[i] = C[n + i]
    BY <1>1, <1>2, Queue!Dropping
  <2> QED BY <1>1, <1>3, <2>1
<1>6. \A i \in 1 .. n : C[i] = get_element(r, i - 1)
  BY <1>1
<1>7. ASSUME NEW i \in 1 .. r.size - n PROVE C[n + i] = get_element(r, n + i - 1)
  <2>1. n + i \in 1 .. r.size
    BY <1>1
  <2> QED BY <1>1, <2>1
<1> QED BY <1>4, <1>5, <1>6, <1>7 DEF C

(* The content without its first n elements, in a word. *)
IsRest(t, r, n) ==
  /\ t \in Seq(Values) /\ Len(t) = r.size - n
  /\ \A i \in 1 .. r.size - n : t[i] = get_element(r, n + i - 1)

(* What the deque's Drop leaves of the content is that rest. *)
LEMMA RestIs ==
  ASSUME NEW r, GoodRing(r), NEW n \in 0 .. r.size
  PROVE  IsRest(Deque!Drop(Content(r), n), r, n)
  BY ContentParts DEF IsRest

(* An empty ring stands for the empty queue. *)
LEMMA ContentEmpty ==
  ASSUME NEW r, GoodRing(r) PROVE Content(r) = <<>> <=> r.size = 0
<1>1. Content(r) \in Seq(Values) /\ Len(Content(r)) = r.size
  BY ContentIsSeq
<1> QED BY <1>1, EmptySeq

(* circular_buffer_clear_uint8. *)
LEMMA ContentClear == ASSUME NEW r, GoodRing(r) PROVE Content(clear(r)) = <<>>
<1>1. clear(r).size = 0
  BY DEF clear
<1> QED BY <1>1, GoodClear, ContentEmpty

(* circular_buffer_pop_front_uint8, n times. *)
LEMMA ContentPopFront ==
  ASSUME NEW r, GoodRing(r), NEW n \in 0 .. r.size
  PROVE  Content(pop_front_n(r, n)) = Deque!Drop(Content(r), n)
<1> DEFINE q == pop_front_n(r, n)
<1>1. GoodRing(q)
  BY GoodPopFront
<1>2. /\ q.iStart = Wrap(r.iStart + n) /\ q.size = r.size - n /\ q.buffer = r.buffer
  BY DEF pop_front_n
<1>3. Wrap(r.iStart + n) = IF r.iStart + n < Capacity THEN r.iStart + n
                           ELSE r.iStart + n - Capacity
  <2>1. r.iStart + n \in Nat /\ r.iStart + n < 2 * Capacity
    BY GoodRingIndices, CapacityType
  <2> QED BY <2>1, WrapCases, GoodRingIndices, CapacityType
<1> HIDE DEF q
<1>4. ASSUME NEW i \in 1 .. q.size PROVE get_element(q, i - 1) = get_element(r, n + i - 1)
  <2>1. /\ i - 1 \in Nat /\ i - 1 < Capacity
        /\ n + i - 1 \in Nat /\ n + i - 1 < Capacity
    BY <1>2, GoodRingIndices, CapacityType
  <2>2. (IF q.iStart + (i - 1) < Capacity THEN q.iStart + (i - 1)
         ELSE q.iStart + (i - 1) - Capacity) =
        (IF r.iStart + (n + i - 1) < Capacity THEN r.iStart + (n + i - 1)
         ELSE r.iStart + (n + i - 1) - Capacity)
    BY <1>2, <1>3, <2>1, GoodRingIndices, CapacityType
  <2> QED BY <1>1, <1>2, <2>1, <2>2, GoodRingElements
<1>5. Content(q) = Deque!Drop(Content(r), n)
  BY <1>1, <1>2, <1>4, ContentParts, ContentIs
<1> QED BY <1>5 DEF q

(* pop_front_block and pop_front_to_fd, for any part of the content. *)
LEMMA ContentTakeFront ==
  ASSUME NEW r, GoodRing(r), NEW n \in 0 .. r.size
  PROVE  Content(take_front(r, n)) = Deque!Drop(Content(r), n)
<1>1. CASE r.size = n
  <2>1. /\ Deque!Drop(Content(r), n) \in Seq(Values)
        /\ Len(Deque!Drop(Content(r), n)) = 0
    BY <1>1, ContentParts, GoodRingIndices
  <2>2. Deque!Drop(Content(r), n) = <<>>
    BY <2>1, EmptySeq
  <2> QED BY <1>1, <2>2, ContentClear DEF take_front
<1>2. CASE r.size # n
  BY <1>2, ContentPopFront DEF take_front
<1> QED BY <1>1, <1>2

(* circular_buffer_delete_first_block_uint8 pops the first block. *)
LEMMA ContentDeleteFirstBlock ==
  ASSUME NEW r, GoodRing(r)
  PROVE  Content(delete_first_block(r)) = Deque!Drop(Content(r), first_block_size(r))
<1>1. first_block_size(r) \in 0 .. r.size
  BY FirstBlockSize
<1>2. CASE wraps(r)
  BY <1>1, <1>2, ContentPopFront DEF delete_first_block, first_block_size
<1>3. CASE ~wraps(r)
  BY <1>1, <1>3, ContentTakeFront DEF delete_first_block, first_block_size, take_front
<1> QED BY <1>2, <1>3

(* circular_buffer_pop_back_uint8, n times. *)
LEMMA ContentPopBack ==
  ASSUME NEW r, GoodRing(r), NEW n \in 0 .. r.size
  PROVE  Content(pop_back_n(r, n)) = Deque!Take(Content(r), r.size - n)
<1> DEFINE q == pop_back_n(r, n)
<1>1. GoodRing(q)
  BY GoodPopBack
<1>2. q.iStart = r.iStart /\ q.size = r.size - n /\ q.buffer = r.buffer
  BY DEF pop_back_n
<1> HIDE DEF q
<1>3. r.size - n \in 0 .. r.size
  BY GoodRingIndices
<1>4. \A i \in 1 .. q.size : get_element(q, i - 1) = get_element(r, i - 1)
  BY <1>2 DEF get_element
<1>5. Content(q) = Deque!Take(Content(r), r.size - n)
  <2> DEFINE m == r.size - n
  <2>1. m \in 0 .. r.size /\ q.size = m
    BY <1>2, <1>3
  <2> HIDE DEF m
  <2>2. /\ Deque!Take(Content(r), m) \in Seq(Values)
        /\ Len(Deque!Take(Content(r), m)) = m
        /\ \A i \in 1 .. m : Deque!Take(Content(r), m)[i] = get_element(r, i - 1)
    BY <2>1, ContentParts
  <2>3. Content(q) = Deque!Take(Content(r), m)
    BY <1>1, <1>4, <2>1, <2>2, ContentIs
  <2> QED BY <2>3 DEF m
<1> QED BY <1>5 DEF q

(* circular_buffer_push_back_uint8: on a full ring the front is dropped. *)
LEMMA ContentPushBack ==
  ASSUME NEW r, GoodRing(r), NEW v \in Values
  PROVE  Content(push_back(r, v)) = Deque!KeepLast(Append(Content(r), v), Capacity)
<1> DEFINE q == push_back(r, v)
           C == Content(r)
           A == Append(C, v)
           K == Deque!KeepLast(A, Capacity)
<1>1. GoodRing(q)
  BY GoodPushBack
<1>2. /\ q.iStart = IF is_full(r) THEN Inc(r.iStart) ELSE r.iStart
      /\ q.size = IF is_full(r) THEN r.size ELSE r.size + 1
      /\ q.buffer = [r.buffer EXCEPT ![r.iStop] = v]
  BY DEF push_back
<1> HIDE DEF q
<1>3. /\ C \in Seq(Values) /\ Len(C) = r.size
      /\ \A i \in 1 .. r.size : C[i] = get_element(r, i - 1)
  BY ContentIsSeq
<1> HIDE DEF C
<1>4. /\ A \in Seq(Values) /\ Len(A) = r.size + 1
      /\ \A i \in 1 .. r.size : A[i] = C[i]
      /\ A[r.size + 1] = v
  BY <1>3, AppendProperties
<1> HIDE DEF A
<1>5. K = Queue!KeepLast(A, Capacity)
  BY DEF Queue!KeepLast, Deque!KeepLast, Queue!Drop, Deque!Drop
<1>6. /\ K \in Seq(Values)
      /\ Len(K) = IF Len(A) > Capacity THEN Capacity ELSE Len(A)
      /\ \A i \in 1 .. Len(K) : K[i] = A[Len(A) - Len(K) + i]
  <2>1. A \in Seq(Values) /\ Capacity \in Nat
    BY <1>4, CapacityType
  <2> HIDE DEF K
  <2> QED BY <1>5, <2>1, Queue!Keeping
<1> HIDE DEF K
<1>7. Len(K) = q.size
  BY <1>2, <1>4, <1>6, GoodRingIndices, CapacityType DEF is_full
<1>8. ASSUME NEW i \in 1 .. q.size PROVE K[i] = get_element(q, i - 1)
  <2> DEFINE at(j) == IF r.iStart + j < Capacity THEN r.iStart + j ELSE r.iStart + j - Capacity
             shift == IF is_full(r) THEN 1 ELSE 0
             k == i - 1 + shift
  <2>1. /\ i - 1 \in Nat /\ i - 1 < Capacity
        /\ k \in Nat /\ k <= r.size /\ (is_full(r) \/ k < Capacity)
        /\ K[i] = A[k + 1]
    <3>1. Len(A) - Len(K) + i = k + 1 /\ i - 1 \in Nat /\ i - 1 < Capacity /\ k \in Nat
          /\ k <= r.size /\ (is_full(r) \/ k < Capacity)
      BY <1>1, <1>2, <1>4, <1>7, GoodRingIndices, CapacityType DEF is_full
    <3> QED BY <1>6, <1>7, <3>1
  <2>2. get_element(q, i - 1) = q.buffer[IF q.iStart + (i - 1) < Capacity THEN q.iStart + (i - 1)
                                         ELSE q.iStart + (i - 1) - Capacity]
    BY <1>1, <2>1, GoodRingElements
  <2>3. q.iStart = IF is_full(r) THEN (IF r.iStart = Capacity - 1 THEN 0 ELSE r.iStart + 1)
                   ELSE r.iStart
    <3>1. r.iStart \in Index
      BY DEF GoodRing, Ring
    <3> QED BY <1>2, <3>1, IncDec
  <2>4. CASE k = r.size
    <3>1. K[i] = v
      BY <1>4, <2>1, <2>4
    <3>2. (IF q.iStart + (i - 1) < Capacity THEN q.iStart + (i - 1)
           ELSE q.iStart + (i - 1) - Capacity) = r.iStop
      BY <2>1, <2>3, <2>4, GoodRingIndices, CapacityType DEF is_full
    <3>3. q.buffer[r.iStop] = v
      BY <1>2 DEF GoodRing, Ring
    <3> QED BY <2>2, <3>1, <3>2, <3>3
  <2>5. CASE k # r.size
    <3>1. k < r.size /\ k < Capacity /\ k + 1 \in 1 .. r.size
      BY <2>1, <2>5, GoodRingIndices, CapacityType DEF is_full
    <3>2. K[i] = get_element(r, k)
      BY <1>3, <1>4, <2>1, <3>1
    <3>3. (IF q.iStart + (i - 1) < Capacity THEN q.iStart + (i - 1)
           ELSE q.iStart + (i - 1) - Capacity) = at(k) /\ at(k) # r.iStop /\ at(k) \in Index
      BY <2>1, <2>3, <3>1, GoodRingIndices, CapacityType DEF is_full, Index
    <3>4. q.buffer[at(k)] = r.buffer[at(k)]
      BY <1>2, <3>3 DEF GoodRing, Ring
    <3>5. get_element(r, k) = r.buffer[at(k)]
      BY <2>1, <3>1, GoodRingElements
    <3> QED BY <2>2, <3>2, <3>3, <3>4, <3>5
  <2> QED BY <2>4, <2>5
<1>9. Content(q) = K
  BY <1>1, <1>6, <1>7, <1>8, ContentIs
<1> QED BY <1>9 DEF q, K, A, C

(* circular_buffer_push_front_uint8: on a full ring the back is dropped. *)
LEMMA ContentPushFront ==
  ASSUME NEW r, GoodRing(r), NEW v \in Values
  PROVE  Content(push_front(r, v)) =
           Deque!Take(<<v>> \o Content(r),
                      IF r.size = Capacity THEN Capacity ELSE r.size + 1)
<1> DEFINE q == push_front(r, v)
           C == Content(r)
           A == <<v>> \o C
           n == IF r.size = Capacity THEN Capacity ELSE r.size + 1
           T == Deque!Take(A, n)
<1>1. GoodRing(q)
  BY GoodPushFront
<1>2. /\ q.iStart = Dec(r.iStart)
      /\ q.size = n
      /\ q.buffer = [r.buffer EXCEPT ![Dec(r.iStart)] = v]
  BY DEF push_front, is_full
<1> HIDE DEF q
<1>3. /\ C \in Seq(Values) /\ Len(C) = r.size
      /\ \A i \in 1 .. r.size : C[i] = get_element(r, i - 1)
  BY ContentIsSeq
<1> HIDE DEF C
<1>4. /\ A \in Seq(Values) /\ Len(A) = r.size + 1
      /\ A[1] = v
      /\ \A i \in 1 .. r.size : A[i + 1] = C[i]
  <2>1. <<v>> \in Seq(Values) /\ Len(<<v>>) = 1 /\ <<v>>[1] = v
    OBVIOUS
  <2>2. /\ A \in Seq(Values) /\ Len(A) = 1 + r.size
        /\ \A i \in 1 .. 1 + r.size : A[i] = IF i <= 1 THEN <<v>>[i] ELSE C[i - 1]
    BY <1>3, <2>1, ConcatProperties
  <2> HIDE DEF A
  <2>3. ASSUME NEW i \in 1 .. r.size PROVE A[i + 1] = C[i]
    <3>1. i + 1 \in 1 .. 1 + r.size /\ ~(i + 1 <= 1) /\ i + 1 - 1 = i
      BY GoodRingIndices
    <3> QED BY <2>2, <3>1
  <2> QED BY <2>1, <2>2, <2>3, GoodRingIndices
<1> HIDE DEF A
<1>5. n \in 0 .. Len(A) /\ n \in 1 .. Capacity /\ n <= r.size + 1
  BY <1>4, GoodRingIndices, CapacityType
<1> HIDE DEF n
<1>6. T \in Seq(Values) /\ Len(T) = n /\ \A i \in 1 .. n : T[i] = A[i]
  <2>1. T = Queue!Take(A, n)
    BY DEF Queue!Take, Deque!Take
  <2> QED BY <1>4, <1>5, <2>1, Queue!Taking
<1> HIDE DEF T
<1>7. r.iStart \in Index /\ q.iStart = IF r.iStart = 0 THEN Capacity - 1 ELSE r.iStart - 1
  <2>1. r.iStart \in Index
    BY DEF GoodRing, Ring
  <2> QED BY <1>2, <2>1, IncDec
<1>8. ASSUME NEW i \in 1 .. q.size PROVE T[i] = get_element(q, i - 1)
  <2>1. /\ i \in Nat /\ i - 1 \in Nat /\ i - 1 < Capacity /\ i <= r.size + 1 /\ T[i] = A[i]
        /\ q.iStart \in Index
    BY <1>1, <1>2, <1>5, <1>6, CapacityType, GoodRingIndices DEF GoodRing, Ring
  <2>2. get_element(q, i - 1) = q.buffer[IF q.iStart + (i - 1) < Capacity THEN q.iStart + (i - 1)
                                         ELSE q.iStart + (i - 1) - Capacity]
    BY <1>1, <2>1, GoodRingElements
  <2>3. CASE i = 1
    <3>1. (IF q.iStart + (i - 1) < Capacity THEN q.iStart + (i - 1)
           ELSE q.iStart + (i - 1) - Capacity) = q.iStart
      BY <2>1, <2>3, CapacityType DEF Index
    <3>2. q.buffer[q.iStart] = v
      BY <1>2, <2>1 DEF GoodRing, Ring
    <3> QED BY <1>4, <2>1, <2>2, <2>3, <3>1, <3>2
  <2>4. CASE i # 1
    <3> DEFINE at == IF r.iStart + (i - 2) < Capacity THEN r.iStart + (i - 2)
                     ELSE r.iStart + (i - 2) - Capacity
    <3>1. /\ i - 1 \in 1 .. r.size /\ i - 1 + 1 = i
          /\ i - 2 \in Nat /\ i - 2 < Capacity /\ i - 1 - 1 = i - 2
      BY <2>1, <2>4, GoodRingIndices, CapacityType
    <3>2. T[i] = get_element(r, i - 2)
      BY <1>3, <1>4, <2>1, <3>1
    <3>3. /\ (IF q.iStart + (i - 1) < Capacity THEN q.iStart + (i - 1)
              ELSE q.iStart + (i - 1) - Capacity) = at
          /\ at # q.iStart /\ at \in Index
      BY <1>7, <2>1, <3>1, CapacityType DEF Index
    <3>4. q.buffer[at] = r.buffer[at]
      BY <1>2, <3>3 DEF GoodRing, Ring
    <3>5. get_element(r, i - 2) = r.buffer[at]
      BY <3>1, GoodRingElements
    <3> QED BY <2>2, <3>2, <3>3, <3>4, <3>5
  <2> QED BY <2>3, <2>4
<1>9. Content(q) = T
  BY <1>1, <1>2, <1>6, <1>8, ContentIs
<1> QED BY <1>9 DEF q, T, A, C, n

(* circular_buffer_push_back_from_fd_uint8: read() appends what it stores, and   *)
(* what then is too much is dropped from the front.                              *)
LEMMA ContentPushBackFromFd ==
  ASSUME NEW r, GoodRing(r), NEW m \in Nat, m <= block_size_available(r),
         NEW read \in [1 .. m -> Values]
  PROVE  Content(push_back_from_fd(r, read)) =
           Deque!KeepLast(Content(r) \o read, Capacity)
<1> DEFINE q == push_back_from_fd(r, read)
           C == Content(r)
           A == C \o read
           K == Deque!KeepLast(A, Capacity)
<1>1. read \in Seq(Values) /\ Len(read) = m
  BY FunctionIsSeq
<1>2. GoodRing(q)
  BY <1>1, GoodPushBackFromFd
<1>3. /\ q.iStart = IF r.size + m >= Capacity THEN Wrap(r.iStart + (r.size + m) - Capacity)
                    ELSE r.iStart
      /\ q.size = IF r.size + m >= Capacity THEN Capacity ELSE r.size + m
      /\ q.buffer = [c \in Index |-> IF c \in r.iStop .. r.iStop + m - 1
                                       THEN read[c - r.iStop + 1] ELSE r.buffer[c]]
  BY <1>1 DEF push_back_from_fd
<1> HIDE DEF q
<1>4. PICK a \in Nat, z \in Nat, n \in Nat, start \in Nat, size \in Nat, c \in Nat :
        /\ a = r.iStart /\ z = r.iStop /\ n = r.size
        /\ start = q.iStart /\ size = q.size /\ c = Capacity
  BY <1>2, GoodRingIndices, CapacityType
<1>5. /\ a < c /\ n <= c /\ z = IF a + n < c THEN a + n ELSE a + n - c
      /\ start < c /\ size <= c
  BY <1>2, <1>4, GoodRingIndices
<1>6. m <= IF z >= a THEN c - z ELSE a - z
  BY <1>4 DEF block_size_available
<1>7. size = IF n + m >= c THEN c ELSE n + m
  BY <1>3, <1>4
<1>8. start = IF n + m >= c THEN (IF a + n + m < 2 * c THEN a + n + m - c
                                  ELSE a + n + m - 2 * c)
              ELSE a
  BY <1>3, <1>4, FdIndices
<1>9. /\ C \in Seq(Values) /\ Len(C) = n
      /\ \A i \in 1 .. n : C[i] = get_element(r, i - 1)
  BY <1>4, ContentIsSeq
<1> HIDE DEF C
<1>10. /\ A \in Seq(Values) /\ Len(A) = n + m
       /\ \A i \in 1 .. n + m : A[i] = IF i <= n THEN C[i] ELSE read[i - n]
  <2>1. /\ A \in Seq(Values) /\ Len(A) = Len(C) + Len(read)
        /\ \A i \in 1 .. Len(C) + Len(read) :
              A[i] = IF i <= Len(C) THEN C[i] ELSE read[i - Len(C)]
    BY <1>1, <1>9, ConcatProperties
  <2> QED BY <1>1, <1>9, <2>1
<1> HIDE DEF A
<1>11. K = Queue!KeepLast(A, Capacity)
  BY DEF Queue!KeepLast, Deque!KeepLast, Queue!Drop, Deque!Drop
<1>12. /\ K \in Seq(Values)
       /\ Len(K) = size
       /\ \A i \in 1 .. Len(K) : K[i] = A[Len(A) - Len(K) + i]
  <2>1. A \in Seq(Values) /\ Capacity \in Nat
    BY <1>10, CapacityType
  <2> HIDE DEF K
  <2>2. /\ K \in Seq(Values)
        /\ Len(K) = IF Len(A) > Capacity THEN Capacity ELSE Len(A)
        /\ \A i \in 1 .. Len(K) : K[i] = A[Len(A) - Len(K) + i]
    BY <1>11, <2>1, Queue!Keeping
  <2>3. Len(K) = size
    BY <1>4, <1>7, <1>10, <2>2
  <2> QED BY <2>2, <2>3
<1> HIDE DEF K
<1>13. ASSUME NEW i \in 1 .. size PROVE K[i] = get_element(q, i - 1)
  <2>1. PICK j \in Nat : j < size /\ i = j + 1 /\ i - 1 = j
    OBVIOUS
  (* It was element k of the content, or byte k - n of those read.  Only a *)
  (* ring that was full loses elements.                                    *)
  <2> DEFINE k == n + m - size + j
             at == IF start + j < c THEN start + j ELSE start + j - c
  <2>2. /\ k \in Nat /\ at \in Nat /\ k < n + m /\ n + m - size + (j + 1) = k + 1
        /\ at < c /\ at = IF start + j < c THEN start + j ELSE start + j - c
        /\ k < n => /\ k < c /\ at = IF a + k < c THEN a + k ELSE a + k - c
                    /\ at \notin z .. z + m - 1
        /\ n <= k => at - z + 1 = k + 1 - n /\ at \in z .. z + m - 1
    <3>1. k \in Nat /\ at \in Nat /\ k < n + m /\ n + m - size + (j + 1) = k + 1 /\ at < c
      BY <1>5, <1>7, <2>1
    <3>2. k < n => /\ k < c /\ at = IF a + k < c THEN a + k ELSE a + k - c
                  /\ at \notin z .. z + m - 1
      BY <1>5, <1>6, <1>7, <1>8, <2>1
    <3>3. n <= k => at - z + 1 = k + 1 - n /\ at \in z .. z + m - 1
      BY <1>5, <1>6, <1>7, <1>8, <2>1
    <3>4. at = IF start + j < c THEN start + j ELSE start + j - c
      OBVIOUS
    <3> HIDE DEF k, at
    <3> QED BY <3>1, <3>2, <3>3, <3>4
  <2> HIDE DEF k, at
  <2>3. get_element(q, j) = q.buffer[at] /\ at \in Index
    <3>1. j < Capacity
      BY <1>4, <1>5, <2>1
    <3>2. get_element(q, j) = q.buffer[at]
      BY <1>2, <1>4, <2>2, <3>1, GoodRingElements
    <3>3. at \in 0 .. Capacity - 1
      BY <1>4, <2>2
    <3> QED BY <3>2, <3>3 DEF Index
  <2>4. K[i] = A[k + 1]
    <3>1. Len(A) - Len(K) + i = k + 1
      BY <1>10, <1>12, <2>1, <2>2
    <3> QED BY <1>12, <3>1
  <2>5. k + 1 \in 1 .. n + m
    BY <2>2
  <2>6. CASE k < n
    <3>1. k + 1 \in 1 .. n /\ k + 1 - 1 = k /\ k + 1 <= n
      BY <2>2, <2>6
    <3>2. A[k + 1] = C[k + 1]
      BY <1>10, <2>5, <3>1
    <3>3. C[k + 1] = get_element(r, k)
      BY <1>9, <2>2, <3>1
    <3>4. get_element(r, k) = r.buffer[at]
      <4>1. /\ k < Capacity
            /\ at = IF r.iStart + k < Capacity THEN r.iStart + k ELSE r.iStart + k - Capacity
        BY <1>4, <2>2, <2>6
      <4> QED BY <2>2, <4>1, GoodRingElements
    <3>5. q.buffer[at] = r.buffer[at]
      BY <1>3, <1>4, <2>2, <2>3, <2>6
    <3> QED BY <2>1, <2>3, <2>4, <3>2, <3>3, <3>4, <3>5
  <2>7. CASE ~(k < n)
    <3>1. ~(k + 1 <= n) /\ n <= k
      BY <2>2, <2>7
    <3>2. A[k + 1] = read[k + 1 - n]
      BY <1>10, <2>2, <2>5, <3>1
    <3>3. q.buffer[at] = read[k + 1 - n]
      BY <1>3, <1>4, <2>2, <2>3, <3>1
    <3> QED BY <2>1, <2>3, <2>4, <3>2, <3>3
  <2> QED BY <2>6, <2>7
<1>14. Content(q) = K
  BY <1>2, <1>4, <1>12, <1>13, ContentIs
<1> QED BY <1>14 DEF q, K, A, C

----------------------------------------------------------------------------
(* Searching the ring and searching the queue it stands for.               *)

(* Element i of the ring is element i + 1 of the queue. *)
LEMMA ContentWhere ==
  ASSUME NEW r, GoodRing(r), NEW v
  PROVE  /\ Deque!Where(Content(r), v) \in SUBSET Nat
         /\ Deque!Where(Content(r), v) \in SUBSET (0 .. r.size)
         /\ \A i \in Nat : i \in PositionsOf(r, v) <=> i + 1 \in Deque!Where(Content(r), v)
         /\ \A i \in Deque!Where(Content(r), v) : i - 1 \in Nat /\ i - 1 \in PositionsOf(r, v)
         /\ \A i \in 1 .. r.size : Content(r)[i] = v <=> i - 1 \in PositionsOf(r, v)
<1> DEFINE C == Content(r)
           W == Deque!Where(C, v)
<1>1. PICK n \in Nat : n = r.size
  BY GoodRingIndices
<1>2. Len(C) = n /\ \A i \in 1 .. n : C[i] = get_element(r, i - 1)
  BY <1>1, ContentIsSeq
<1> HIDE DEF C
<1>3. W = {i \in 1 .. n : get_element(r, i - 1) = v}
  BY <1>2 DEF Deque!Where
<1>4. PositionsOf(r, v) = {i \in Nat : i < n /\ get_element(r, i) = v}
  BY <1>1 DEF PositionsOf, Positions
<1>5. \A i \in Nat : i \in PositionsOf(r, v) <=> i + 1 \in W
  <2> SUFFICES ASSUME NEW i \in Nat PROVE i \in PositionsOf(r, v) <=> i + 1 \in W
    OBVIOUS
  <2>1. i + 1 - 1 = i /\ (i + 1 \in 1 .. n <=> i < n)
    OBVIOUS
  <2> QED BY <1>3, <1>4, <2>1
<1>6. ASSUME NEW i \in 1 .. n
      PROVE  /\ i - 1 \in Nat /\ i - 1 < n
             /\ C[i] = v <=> i - 1 \in PositionsOf(r, v)
  BY <1>2, <1>4
<1>7. \A i \in W : i - 1 \in Nat /\ i - 1 \in PositionsOf(r, v)
  BY <1>2, <1>3, <1>6
<1>8. W \in SUBSET Nat /\ W \in SUBSET (0 .. n)
  BY <1>3
<1> HIDE DEF W
<1> QED BY <1>1, <1>5, <1>6, <1>7, <1>8 DEF C, W

(* The least and the greatest are the same in both modules. *)
LEMMA DequeExtremes == \A S : Deque!Min(S) = Min(S) /\ Deque!Max(S) = Max(S)
  BY Zenon DEF Deque!Min, Min, Deque!Max, Max

(* find_first and find_last of the ring and of the queue. *)
LEMMA ContentFind ==
  ASSUME NEW r, GoodRing(r), NEW v
  PROVE  LET P == PositionsOf(r, v)
             W == Deque!Where(Content(r), v)
         IN  /\ P = {} <=> W = {}
             /\ P # {} => /\ Min(P) \in P /\ Min(W) = Min(P) + 1
                         /\ Max(P) \in P /\ Max(W) = Max(P) + 1
<1> DEFINE P == PositionsOf(r, v)
           W == Deque!Where(Content(r), v)
<1>1. PICK n \in Nat : n = r.size
  BY GoodRingIndices
<1>2. /\ P \in SUBSET Nat /\ P \in SUBSET (0 .. n)
      /\ W \in SUBSET Nat /\ W \in SUBSET (0 .. n)
      /\ \A i \in Nat : i \in P <=> i + 1 \in W
      /\ \A i \in W : i - 1 \in Nat /\ i - 1 \in P
  BY <1>1, PositionsType, ContentWhere
<1> HIDE DEF P, W
<1>3. P = {} <=> W = {}
  BY <1>2
<1>4. ASSUME P # {}
      PROVE  /\ Min(P) \in P /\ Min(W) = Min(P) + 1
             /\ Max(P) \in P /\ Max(W) = Max(P) + 1
  <2>1. /\ Min(P) \in P /\ \A j \in P : Min(P) <= j
        /\ Max(P) \in P /\ \A j \in P : Max(P) >= j
    BY <1>2, <1>4, MinIsLeast, MaxIsGreatest
  <2>2. /\ Min(W) \in W /\ \A j \in W : Min(W) <= j
        /\ Max(W) \in W /\ \A j \in W : Max(W) >= j
    BY <1>2, <1>3, <1>4, MinIsLeast, MaxIsGreatest
  <2>3. PICK a \in Nat, b \in Nat, c \in Nat, d \in Nat :
          a = Min(P) /\ b = Max(P) /\ c = Min(W) /\ d = Max(W)
    BY <1>2, <2>1, <2>2
  <2>4. a + 1 \in W /\ b + 1 \in W /\ c - 1 \in P /\ d - 1 \in P
    BY <1>2, <2>1, <2>2, <2>3
  <2>5. c <= a + 1 /\ d >= b + 1 /\ a <= c - 1 /\ b >= d - 1
    BY <2>1, <2>2, <2>3, <2>4
  <2>6. c = a + 1 /\ d = b + 1
    BY <2>5
  <2> QED BY <2>1, <2>3, <2>6
<1> QED BY <1>3, <1>4 DEF P, W

(* circular_buffer_remove_front_to_uint8. *)
LEMMA ContentRemoveFrontTo ==
  ASSUME NEW r, GoodRing(r), NEW v, NEW inclusive \in BOOLEAN
  PROVE  Content(pop_front_n(r, front_to(r, v, inclusive))) =
           Deque!remove_front_to(Content(r), v, inclusive)
<1> DEFINE P == PositionsOf(r, v)
           W == Deque!Where(Content(r), v)
           n == front_to(r, v, inclusive)
<1>1. n \in 0 .. r.size /\ r.size \in Nat
  BY RemoveRange, GoodRingIndices
<1>2. Content(pop_front_n(r, n)) = Deque!Drop(Content(r), n)
  BY <1>1, ContentPopFront
<1>3. CASE P = {}
  <2>1. n = r.size
    BY <1>1, <1>3 DEF front_to, find_first
  <2>2. Deque!Drop(Content(r), n) = <<>>
    <3>1. Deque!Drop(Content(r), n) \in Seq(Values) /\ Len(Deque!Drop(Content(r), n)) = 0
      BY <1>1, <2>1, ContentParts
    <3> QED BY <3>1, EmptySeq
  <2>3. W = {}
    BY <1>3, ContentFind
  <2> QED BY <1>2, <2>2, <2>3 DEF Deque!remove_front_to
<1>4. CASE P # {}
  <2>1. PICK i \in Nat : i = Min(P) /\ i \in P /\ i < r.size /\ Min(W) = i + 1 /\ W # {}
    BY <1>4, ContentFind, PositionsType
  <2>2. n = IF inclusive THEN i + 1 ELSE i
    BY <1>4, <2>1 DEF front_to, find_first
  <2>3. n = IF inclusive THEN Min(W) ELSE Min(W) - 1
    BY <2>1, <2>2
  <2> HIDE DEF n, W
  <2> QED BY <1>2, <2>1, <2>3, DequeExtremes, Zenon DEF Deque!remove_front_to, W, n
<1> QED BY <1>3, <1>4

(* circular_buffer_remove_back_to_uint8. *)
LEMMA ContentRemoveBackTo ==
  ASSUME NEW r, GoodRing(r), NEW v, NEW inclusive \in BOOLEAN
  PROVE  Content(pop_back_n(r, back_to(r, v, inclusive))) =
           Deque!remove_back_to(Content(r), v, inclusive)
<1> DEFINE P == PositionsOf(r, v)
           W == Deque!Where(Content(r), v)
           n == back_to(r, v, inclusive)
<1>1. n \in 0 .. r.size /\ r.size \in Nat
  BY RemoveRange, GoodRingIndices
<1>2. Content(pop_back_n(r, n)) = Deque!Take(Content(r), r.size - n)
  BY <1>1, ContentPopBack
<1>3. CASE P = {}
  <2>1. n = r.size /\ r.size - n = 0 /\ 0 \in 0 .. r.size
    BY <1>1, <1>3 DEF back_to, find_last
  <2>2. Deque!Take(Content(r), 0) = <<>>
    <3>1. Deque!Take(Content(r), 0) \in Seq(Values) /\ Len(Deque!Take(Content(r), 0)) = 0
      BY <2>1, ContentParts
    <3> QED BY <3>1, EmptySeq
  <2>3. W = {}
    BY <1>3, ContentFind
  <2> QED BY <1>2, <2>1, <2>2, <2>3 DEF Deque!remove_back_to
<1>4. CASE P # {}
  <2>1. PICK i \in Nat : i = Max(P) /\ i \in P /\ i < r.size /\ Max(W) = i + 1 /\ W # {}
    BY <1>4, ContentFind, PositionsType
  <2>2. n = IF inclusive THEN r.size - i ELSE r.size - i - 1
    BY <1>1, <1>4, <2>1 DEF back_to, find_last
  <2> HIDE DEF n, W
  <2>3. r.size - n = IF inclusive THEN Max(W) - 1 ELSE Max(W)
    BY <1>1, <2>1, <2>2
  <2> QED BY <1>2, <2>1, <2>3, DequeExtremes, Zenon DEF Deque!remove_back_to, W, n
<1> QED BY <1>3, <1>4

(***************************************************************************)
(* A startChar b with no endChar between it and the endChar e behind it    *)
(* makes a frame: the search of remove_front_unfinished_frames stops at it *)
(* or before it.                                                           *)
(***************************************************************************)
LEMMA NoFrameBefore ==
  ASSUME NEW n \in Nat, NEW starts \in SUBSET (0 .. n), NEW ends \in SUBSET (0 .. n),
         \A e \in ends : e < n,
         NEW b \in starts, NEW e \in ends, b < e,
         \A x \in ends : x < b \/ e <= x
  PROVE  last_entry(starts, ends) <= b
<1> DEFINE before == {x \in ends : x < b}
<1>1. PICK k \in Nat : /\ k \in Entries(ends) /\ k <= b
                       /\ \A x \in ends : x < k \/ e <= x
  <2>1. CASE before = {}
    <3>1. 0 \in Entries(ends) /\ 0 <= b
      BY DEF Entries
    <3>2. \A x \in ends : x < 0 \/ e <= x
      BY <2>1
    <3> QED BY <3>1, <3>2
  <2>2. CASE before # {}
    <3>1. PICK m \in ends : m < b /\ \A x \in ends : x < b => m >= x
      <4>1. before \in SUBSET (0 .. n)
        OBVIOUS
      <4>2. Max(before) \in before /\ \A x \in before : Max(before) >= x
        BY <2>2, <4>1, MaxIsGreatest
      <4> QED BY <4>2
    <3>2. m + 1 \in Nat /\ m + 1 \in Entries(ends) /\ m + 1 <= b
      BY <3>1 DEF Entries
    <3>3. \A x \in ends : x < m + 1 \/ e <= x
      BY <3>1
    <3> QED BY <3>2, <3>3
  <2> QED BY <2>1, <2>2
<1>2. From(ends, k) \in SUBSET Nat /\ e \in From(ends, k)
  <2>1. \A x \in ends : x \in Nat
    OBVIOUS
  <2>2. k <= e
    BY <1>1, <2>1
  <2> QED BY <2>1, <2>2 DEF From
<1>3. Min(From(ends, k)) = e
  <2>1. Min(From(ends, k)) \in From(ends, k) /\ \A x \in From(ends, k) : Min(From(ends, k)) <= x
    BY <1>2, MinIsLeast
  <2>2. \A x \in From(ends, k) : e <= x
    BY <1>1 DEF From
  <2>3. Min(From(ends, k)) \in Nat
    BY <1>2, <2>1
  <2> QED BY <1>2, <2>1, <2>2, <2>3
<1>4. b \in From(starts, k)
  BY <1>1 DEF From
<1>5. ~Recurses(starts, ends, k)
  BY <1>3, <1>4 DEF Recurses
<1>6. /\ last_entry(starts, ends) \in 0 .. n
      /\ \A x \in Entries(ends) : x < last_entry(starts, ends) => Recurses(starts, ends, x)
  BY LastEntry
<1>7. ~(k < last_entry(starts, ends))
  BY <1>1, <1>5, <1>6
<1> QED BY <1>1, <1>6, <1>7

(***************************************************************************)
(* Where the last call's search ends: at stop, its first endChar, if a     *)
(* frame ends there, and behind the content if there is no endChar left.   *)
(***************************************************************************)
LEMMA LastSearch ==
  ASSUME NEW n \in Nat, NEW starts \in SUBSET (0 .. n), NEW ends \in SUBSET (0 .. n),
         \A e \in ends : e < n
  PROVE  LET k == last_entry(starts, ends)
         IN  \E stop \in 0 .. n :
               /\ k <= stop
               /\ \A x \in ends : x < k \/ stop <= x
               /\ \/ stop = n
                  \/ stop \in ends /\ \E b \in starts : k <= b /\ b < stop
<1> DEFINE k == last_entry(starts, ends)
<1>1. k \in 0 .. n /\ ~Recurses(starts, ends, k)
  BY LastEntry
<1> HIDE DEF k
<1>2. CASE From(ends, k) = {}
  <2>1. \A x \in ends : x < k
    BY <1>1, <1>2 DEF From
  <2>2. k <= n /\ n \in 0 .. n
    BY <1>1
  <2> QED BY <2>1, <2>2 DEF k
<1>3. CASE From(ends, k) # {}
  <2>1. From(ends, k) \in SUBSET Nat
    <3>1. \A x \in ends : x \in Nat
      OBVIOUS
    <3> QED BY <3>1 DEF From
  <2>2. PICK m \in From(ends, k) : m = Min(From(ends, k)) /\ \A x \in From(ends, k) : m <= x
    BY <1>3, <2>1, MinIsLeast
  <2>3. m \in ends /\ k <= m /\ m \in 0 .. n
    BY <1>1, <2>2 DEF From
  <2>4. \A x \in ends : x < k \/ m <= x
    BY <1>1, <2>2, <2>3 DEF From
  <2>5. PICK b \in From(starts, k) : ~(b >= m)
    BY <1>1, <1>3, <2>2 DEF Recurses
  <2>6. b \in starts /\ k <= b /\ b < m
    BY <1>1, <2>3, <2>5 DEF From
  <2> QED BY <2>3, <2>4, <2>6 DEF k
<1> QED BY <1>2, <1>3

(* The startChars the last call chooses from begin the frame in front. *)
LEMMA FrontFrameIs ==
  ASSUME NEW r, GoodRing(r), NEW v, NEW w
  PROVE  LET F == Deque!FrontFrame(Content(r), v, w)
             S == Candidates(PositionsOf(r, v), PositionsOf(r, w))
         IN  /\ F \in SUBSET (1 .. r.size)
             /\ \A b \in 1 .. r.size : b \in F <=> b - 1 \in S
<1> DEFINE C == Content(r)
           starts == PositionsOf(r, v)
           ends == PositionsOf(r, w)
           k == last_entry(starts, ends)
           complete == {e \in 1 .. Len(C) : Deque!Completes(C, e, v, w)}
<1>1. PICK n \in Nat : n = r.size
  BY GoodRingIndices
<1>2. /\ starts \in SUBSET (0 .. n) /\ ends \in SUBSET (0 .. n)
      /\ \A i \in starts : i < n
      /\ \A i \in ends : i < n
  BY <1>1, PositionsType
<1>3. /\ Len(C) = n
      /\ \A i \in 1 .. n : C[i] = v <=> i - 1 \in starts
      /\ \A i \in 1 .. n : C[i] = w <=> i - 1 \in ends
  BY <1>1, ContentIsSeq, ContentWhere
<1> HIDE DEF C, starts, ends
<1>4. k \in 0 .. n /\ k \in Entries(ends)
  BY <1>2, LastEntry
<1>5. PICK stop \in 0 .. n :
        /\ k <= stop
        /\ \A x \in ends : x < k \/ stop <= x
        /\ \/ stop = n
           \/ stop \in ends /\ \E b \in starts : k <= b /\ b < stop
  BY <1>2, LastSearch
<1>6. ASSUME NEW e \in complete PROVE e \in 1 .. n /\ stop < e
  <2>1. e \in 1 .. n /\ C[e] = w
    BY <1>3 DEF Deque!Completes
  <2>2. PICK b \in 1 .. e - 1 : C[b] = v /\ \A i \in b .. e - 1 : C[i] # w
    BY DEF Deque!Completes, Deque!Opens
  <2>3. b - 1 \in starts /\ e - 1 \in ends /\ b - 1 < e - 1
    BY <1>3, <2>1, <2>2
  <2>4. ASSUME NEW x \in ends PROVE x < b - 1 \/ e - 1 <= x
    <3>1. x \in 0 .. n /\ x < n
      BY <1>2
    <3>2. CASE b - 1 <= x /\ x < e - 1
      <4> DEFINE i == x + 1
      <4>1. i \in b .. e - 1 /\ i \in 1 .. n /\ i - 1 = x
        BY <2>1, <2>2, <3>1, <3>2
      <4> HIDE DEF i
      <4> QED BY <1>3, <2>2, <4>1
    <3> QED BY <2>1, <2>2, <3>1, <3>2
  <2>5. k <= b - 1
    BY <1>2, <2>3, <2>4, NoFrameBefore
  <2> HIDE DEF k
  <2>6. ~(e - 1 < k)
    BY <1>4, <2>1, <2>2, <2>5
  <2> QED BY <1>4, <1>5, <2>1, <2>3, <2>6
<1> HIDE DEF k
<1>7. (IF complete = {} THEN Len(C) + 1 ELSE Deque!Min(complete)) = stop + 1
  <2>1. CASE stop = n
    <3>1. complete = {}
      BY <1>6, <2>1
    <3> QED BY <1>3, <2>1, <3>1
  <2>2. CASE stop # n
    <3>1. PICK b \in starts : stop \in ends /\ k <= b /\ b < stop
      BY <1>5, <2>2
    <3>2. /\ stop + 1 \in 1 .. n /\ b + 1 \in 1 .. stop /\ b + 1 \in 1 .. n
          /\ b + 1 - 1 = b /\ stop + 1 - 1 = stop
      BY <1>2, <2>2, <3>1
    <3>3. C[stop + 1] = w /\ C[b + 1] = v
      <4> DEFINE i == stop + 1
                 j == b + 1
      <4>1. i \in 1 .. n /\ i - 1 = stop /\ j \in 1 .. n /\ j - 1 = b
        BY <1>2, <3>1, <3>2
      <4> HIDE DEF i, j
      <4>2. C[i] = w /\ C[j] = v
        BY <1>3, <3>1, <4>1
      <4> QED BY <4>2 DEF i, j
    <3>4. ASSUME NEW i \in b + 1 .. stop PROVE C[i] # w
      <4>1. i \in 1 .. n /\ ~(i - 1 < k) /\ ~(stop <= i - 1)
        BY <1>2, <1>4, <3>1, <3>2
      <4> QED BY <1>3, <1>5, <4>1
    <3>5. stop + 1 \in complete
      <4>1. Deque!Opens(C, b + 1, stop + 1, v, w)
        BY <3>2, <3>3, <3>4 DEF Deque!Opens
      <4> QED BY <1>3, <3>2, <3>3, <4>1 DEF Deque!Completes
    <3>6. complete \in SUBSET Nat
      BY <1>6
    <3> HIDE DEF complete
    <3>7. Deque!Min(complete) = Min(complete)
      BY DequeExtremes
    <3>8. Min(complete) \in complete /\ \A j \in complete : Min(complete) <= j
      BY <3>5, <3>6, MinIsLeast
    <3>9. Min(complete) \in 1 .. n /\ stop < Min(complete) /\ Min(complete) <= stop + 1
      BY <1>6, <3>5, <3>8
    <3>10. Min(complete) = stop + 1
      BY <3>9
    <3> QED BY <3>5, <3>7, <3>10
  <2> QED BY <2>1, <2>2
<1>8. Deque!FrontFrame(C, v, w) = {b \in 1 .. stop : Deque!Opens(C, b, stop + 1, v, w)}
  <2> DEFINE e == IF complete = {} THEN Len(C) + 1 ELSE Deque!Min(complete)
  <2>1. Deque!FrontFrame(C, v, w) = {b \in 1 .. e - 1 : Deque!Opens(C, b, e, v, w)}
    BY DEF Deque!FrontFrame
  <2> HIDE DEF e
  <2>2. e = stop + 1 /\ e - 1 = stop
    BY <1>7 DEF e
  <2> QED BY <2>1, <2>2
<1> HIDE DEF complete
<1>9. ASSUME NEW b \in 1 .. n
      PROVE  b \in Deque!FrontFrame(C, v, w) <=> b - 1 \in Candidates(starts, ends)
  <2>1. b \in Deque!FrontFrame(C, v, w) <=>
          /\ b \in 1 .. stop /\ b - 1 \in starts
          /\ \A i \in b .. stop : i - 1 \notin ends
    <3>1. stop + 1 - 1 = stop
      OBVIOUS
    <3>2. Deque!Opens(C, b, stop + 1, v, w) <=> C[b] = v /\ \A i \in b .. stop : C[i] # w
      BY <3>1 DEF Deque!Opens
    <3>3. \A i \in b .. stop : i \in 1 .. n
      OBVIOUS
    <3> QED BY <1>3, <1>8, <3>2, <3>3
  <2>2. b - 1 \in Candidates(starts, ends) <=>
          /\ b - 1 \in starts /\ k <= b - 1
          /\ \A e \in ends : k <= e => b - 1 < e
    BY <1>2, <1>4 DEF Candidates, From, k
  <2>3. ASSUME b \in 1 .. stop, \A i \in b .. stop : i - 1 \notin ends
        PROVE  k <= b - 1 /\ \A e \in ends : k <= e => b - 1 < e
    <3>1. k <= b - 1
      <4> SUFFICES ASSUME b <= k PROVE FALSE
        BY <1>4
      <4>1. k \in b .. stop /\ k # 0
        BY <1>4, <1>5
      <4>2. PICK e \in ends : k = e + 1
        BY <1>4, <4>1 DEF Entries
      <4>3. k - 1 = e
        BY <1>2, <4>2
      <4> QED BY <2>3, <4>1, <4>3
    <3>2. ASSUME NEW e \in ends, k <= e PROVE b - 1 < e
      <4>1. stop <= e
        BY <1>2, <1>4, <1>5, <3>2
      <4> QED BY <1>2, <2>3, <4>1
    <3> QED BY <3>1, <3>2
  <2>4. ASSUME k <= b - 1, \A e \in ends : k <= e => b - 1 < e, b - 1 \in starts
        PROVE  b \in 1 .. stop /\ \A i \in b .. stop : i - 1 \notin ends
    <3>1. b <= stop
      <4>1. CASE stop = n
        BY <4>1
      <4>2. CASE stop # n
        <5>1. stop \in ends
          BY <1>5, <4>2
        <5>2. b - 1 < stop
          BY <1>5, <2>4, <5>1
        <5> QED BY <5>2
      <4> QED BY <4>1, <4>2
    <3>2. ASSUME NEW i \in b .. stop, i - 1 \in ends PROVE FALSE
      <4>1. i - 1 < k \/ stop <= i - 1
        BY <1>5, <3>2
      <4> QED BY <1>4, <2>4, <3>1, <4>1
    <3> QED BY <3>1, <3>2
  <2> QED BY <2>1, <2>2, <2>3, <2>4
<1>10. Deque!FrontFrame(C, v, w) \in SUBSET (1 .. n)
  BY <1>8
<1> QED BY <1>1, <1>9, <1>10 DEF C, starts, ends

(* circular_buffer_remove_front_unfinished_frames_uint8. *)
LEMMA ContentUnfinished ==
  ASSUME NEW r, GoodRing(r), NEW v, NEW w
  PROVE  Content(take_front(r, unfinished(r, v, w))) =
           Deque!remove_front_unfinished_frames(Content(r), v, w)
<1> DEFINE C == Content(r)
           F == Deque!FrontFrame(C, v, w)
           S == Candidates(PositionsOf(r, v), PositionsOf(r, w))
           u == unfinished(r, v, w)
<1>1. PICK n \in Nat : n = r.size
  BY GoodRingIndices
<1>2. F \in SUBSET (1 .. n) /\ \A b \in 1 .. n : b \in F <=> b - 1 \in S
  BY <1>1, FrontFrameIs
<1>3. S \in SUBSET (0 .. n) /\ \A i \in S : i \in 0 .. n /\ i < n
  <2>1. /\ PositionsOf(r, v) \in SUBSET (0 .. n)
        /\ \A i \in PositionsOf(r, v) : i < n
    BY <1>1, PositionsType
  <2>2. S \in SUBSET PositionsOf(r, v)
    BY DEF Candidates, From
  <2> QED BY <2>1, <2>2
<1>4. u = IF S = {} THEN n ELSE Max(S)
  BY <1>1 DEF unfinished
<1>5. u \in 0 .. n
  BY <1>1, UnfinishedRange
<1>6. Content(take_front(r, u)) = Deque!Drop(C, u)
  BY <1>1, <1>5, ContentTakeFront
<1>7. Deque!remove_front_unfinished_frames(C, v, w) =
        IF F = {} THEN <<>> ELSE Deque!Drop(C, Deque!Max(F) - 1)
  BY DEF Deque!remove_front_unfinished_frames
<1>8. n \in 0 .. r.size
  BY <1>1
<1>9. Deque!Drop(C, n) = <<>>
  <2>1. /\ Deque!Drop(C, n) \in Seq(Values)
        /\ Len(Deque!Drop(C, n)) = 0
    BY <1>1, <1>8, ContentParts
  <2> QED BY <2>1, EmptySeq
<1> HIDE DEF C, F, S, u
<1>10. CASE S = {}
  <2>1. F = {}
    BY <1>2, <1>10
  <2> QED BY <1>4, <1>6, <1>7, <1>9, <1>10, <2>1 DEF C, u
<1>11. CASE S # {}
  <2>1. Max(S) \in S /\ \A j \in S : Max(S) >= j
    BY <1>3, <1>11, MaxIsGreatest
  <2> DEFINE m == Max(S)
             b == m + 1
  <2>2. m \in S /\ m \in 0 .. n /\ m < n /\ \A j \in S : m >= j
    BY <1>3, <2>1
  <2> HIDE DEF m
  <2>3. b \in 1 .. n /\ b - 1 = m
    BY <2>2
  <2> HIDE DEF b
  <2>4. b \in F
    BY <1>2, <2>2, <2>3
  <2>5. F \in SUBSET (0 .. n)
    BY <1>2
  <2>6. Max(F) \in F /\ \A j \in F : Max(F) >= j
    BY <2>4, <2>5, MaxIsGreatest
  <2>7. Max(F) \in 1 .. n /\ Max(F) - 1 \in S
    BY <1>2, <2>6
  <2>8. Max(F) = b
    BY <2>2, <2>3, <2>4, <2>6, <2>7
  <2>9. Deque!Max(F) - 1 = Max(S)
    BY <2>3, <2>8, DequeExtremes DEF m
  <2> QED BY <1>4, <1>6, <1>7, <1>11, <2>4, <2>9 DEF C, u
<1> QED BY <1>10, <1>11

----------------------------------------------------------------------------
(* The refinement.                                                           *)

(* The deque reports its results as the ring does. *)
LEMMA SameResults ==
  /\ \A fn : Deque!Done(fn) = Done(fn)
  /\ \A fn, err : Deque!Thrown(fn, err) = Thrown(fn, err)
  /\ \A fn, n, data : Deque!Returned(fn, n, data) = Returned(fn, n, data)
  BY DEF Deque!Done, Done, Deque!Thrown, Thrown, Deque!Returned, Returned

(* A call hands its caller the ring and the result of the model. *)
LEMMA CallContent ==
  ASSUME NEW ring, NEW result, Call(ring, result)
  PROVE  Content(cb)' = Content(ring) /\ out' = result
<1>1. cb' = ring /\ out' = result
  BY DEF Call
<1> QED BY <1>1

(* The bytes of the first block are the front of the queue. *)
LEMMA FirstBlockIsFront ==
  ASSUME NEW r, GoodRing(r), NEW n \in 0 .. first_block_size(r)
  PROVE  /\ n \in 0 .. r.size
         /\ first_block(r, n) = Deque!Take(Content(r), n)
<1>1. n \in 0 .. r.size
  BY FirstBlockSize, GoodRingIndices
<1>2. /\ first_block(r, n) \in Seq(Values)
      /\ Len(first_block(r, n)) = n
      /\ \A i \in 1 .. n : first_block(r, n)[i] = get_element(r, i - 1)
  BY FirstBlockBytes
<1>3. /\ Deque!Take(Content(r), n) \in Seq(Values)
      /\ Len(Deque!Take(Content(r), n)) = n
      /\ \A i \in 1 .. n : Deque!Take(Content(r), n)[i] = get_element(r, i - 1)
  BY <1>1, ContentParts
<1>4. first_block(r, n) = Deque!Take(Content(r), n)
  BY <1>2, <1>3, SeqEqual
<1> QED BY <1>1, <1>4

(* The byte pop_front hands over. *)
LEMMA FrontByte ==
  ASSUME NEW r, GoodRing(r), r.size # 0
  PROVE  <<get_element(r, 0)>> = Deque!Take(Content(r), 1)
<1>1. 1 \in 0 .. r.size
  BY GoodRingIndices
<1> DEFINE t == Deque!Take(Content(r), 1)
<1>2. t \in Seq(Values) /\ Len(t) = 1 /\ t[1] = get_element(r, 0)
  <2>1. /\ t \in Seq(Values) /\ Len(t) = 1
        /\ \A i \in 1 .. 1 : t[i] = get_element(r, i - 1)
    BY <1>1, ContentParts
  <2> HIDE DEF t
  <2>2. 1 \in 1 .. 1 /\ 1 - 1 = 0
    OBVIOUS
  <2>3. t[1] = get_element(r, 1 - 1)
    BY <2>1, <2>2
  <2> QED BY <2>1, <2>2, <2>3
<1> HIDE DEF t
<1>3. get_element(r, 0) \in Values
  BY <1>1, <1>2, ElementOfSeq
<1>4. /\ <<get_element(r, 0)>> \in Seq(Values)
      /\ Len(<<get_element(r, 0)>>) = 1
      /\ <<get_element(r, 0)>>[1] = get_element(r, 0)
  BY <1>3
<1>5. <<get_element(r, 0)>> = t
  BY <1>2, <1>4, SeqEqual
<1> QED BY <1>5 DEF t

(* The byte pop_back hands over. *)
LEMMA BackByte ==
  ASSUME NEW r, GoodRing(r), r.size # 0
  PROVE  <<r.buffer[Dec(r.iStop)]>> = Deque!Drop(Content(r), r.size - 1)
<1>1. PICK n \in Nat, a \in Nat, z \in Nat :
        /\ n = r.size /\ a = r.iStart /\ z = r.iStop
        /\ a < Capacity /\ z < Capacity /\ n <= Capacity
        /\ z = IF a + n < Capacity THEN a + n ELSE a + n - Capacity
  BY GoodRingIndices
<1>2. n # 0 /\ n - 1 \in Nat /\ n - 1 \in 0 .. r.size /\ r.size - (n - 1) = 1
  BY <1>1
<1>3. PICK k \in Nat : k = a + (n - 1) /\ k < 2 * Capacity /\ k + 1 = a + n
  BY <1>1, <1>2, CapacityType
<1>4. Dec(z) = IF k < Capacity THEN k ELSE k - Capacity
  BY <1>1, <1>2, <1>3, IncDec, CapacityType DEF Index
<1>5. Wrap(a + (n - 1)) = Dec(z)
  BY <1>3, <1>4, WrapCases
<1>6. r.buffer[Dec(r.iStop)] = get_element(r, n - 1)
  BY <1>1, <1>5 DEF get_element
<1> DEFINE t == Deque!Drop(Content(r), n - 1)
<1>7. /\ t \in Seq(Values) /\ Len(t) = 1
      /\ \A i \in 1 .. 1 : t[i] = get_element(r, n - 1 + i - 1)
  <2> DEFINE j == n - 1
  <2>1. j \in 0 .. r.size /\ r.size - j = 1 /\ t = Deque!Drop(Content(r), j)
    BY <1>2
  <2> HIDE DEF j, t
  <2>2. /\ t \in Seq(Values) /\ Len(t) = 1
        /\ \A i \in 1 .. 1 : t[i] = get_element(r, j + i - 1)
    <3>1. IsRest(t, r, j)
      BY <2>1, RestIs
    <3> QED BY <2>1, <3>1 DEF IsRest
  <2> QED BY <2>2 DEF j
<1> HIDE DEF t
<1>8. 1 \in 1 .. 1 /\ n - 1 + 1 - 1 = n - 1
  BY <1>1
<1> DEFINE byte == r.buffer[Dec(r.iStop)]
<1>9. t[1] = byte
  <2>1. t[1] = get_element(r, n - 1 + 1 - 1)
    BY <1>7, <1>8
  <2> QED BY <1>6, <1>8, <2>1
<1> HIDE DEF byte
<1>10. byte \in Values
  BY <1>7, <1>9, ElementOfSeq
<1>11. <<byte>> \in Seq(Values) /\ Len(<<byte>>) = 1 /\ <<byte>>[1] = byte
  BY <1>10
<1>12. <<byte>> = t
  BY <1>7, <1>9, <1>11, SeqEqual
<1> QED BY <1>1, <1>12 DEF byte, t

(* Every step of the ring is a step of the deque or leaves it alone: a push  *)
(* loop that starts, and nothing else, stutters.                             *)
LEMMA StepImplements == IInv /\ [Next]_vars => [Deque!Next]_(Deque!vars)
<1> SUFFICES ASSUME IInv, [Next]_vars PROVE [Deque!Next]_(Deque!vars)
  OBVIOUS
<1> USE SameResults
<1>0. /\ GoodRing(cb)
      /\ cb.size \in Nat
      /\ Content(cb) \in Seq(Values) /\ Len(Content(cb)) = cb.size
      /\ Content(cb) = <<>> <=> cb.size = 0
  <2>1. GoodRing(cb)
    BY DEF IInv, TypeOK, StopBehindContent, GoodRing
  <2> QED BY <2>1, GoodRingIndices, ContentIsSeq, ContentEmpty
<1>1. ASSUME NEW v \in Values, PushFront(v) PROVE Deque!PushFront(v)
  BY <1>0, <1>1, CallContent, ContentPushFront DEF PushFront, Deque!PushFront
<1>2. ASSUME NEW v \in Values, PushBack(v) PROVE Deque!PushBack(v)
  BY <1>0, <1>2, CallContent, ContentPushBack DEF PushBack, Deque!PushBack
<1>3. ASSUME NEW v \in Values, NEW inclusive \in BOOLEAN, RemoveFrontTo(v, inclusive)
      PROVE  Deque!RemoveFrontTo(v, inclusive)
  BY <1>0, <1>3, CallContent, ContentRemoveFrontTo DEF RemoveFrontTo, Deque!RemoveFrontTo
<1>4. ASSUME NEW v \in Values, NEW inclusive \in BOOLEAN, RemoveBackTo(v, inclusive)
      PROVE  Deque!RemoveBackTo(v, inclusive)
  BY <1>0, <1>4, CallContent, ContentRemoveBackTo DEF RemoveBackTo, Deque!RemoveBackTo
<1>5. ASSUME NEW v \in Values, NEW w \in Values, RemoveFrontUnfinishedFrames(v, w)
      PROVE  Deque!RemoveFrontUnfinishedFrames(v, w)
  <2>1. unfinished_result(cb, v, w) \in 0 .. Len(Content(cb))
    BY <1>0, UnfinishedResultRange
  <2>2. Content(cb)' = Deque!remove_front_unfinished_frames(Content(cb), v, w)
    BY <1>0, <1>5, CallContent, ContentUnfinished DEF RemoveFrontUnfinishedFrames
  <2>3. out' = Returned("remove_front_unfinished_frames", unfinished_result(cb, v, w), <<>>)
    BY <1>5, CallContent DEF RemoveFrontUnfinishedFrames
  <2> QED BY <2>1, <2>2, <2>3 DEF Deque!RemoveFrontUnfinishedFrames
<1>6. ASSUME PopFront PROVE Deque!PopFront
  <2>1. CASE cb.size = 0
    BY <1>0, <1>6, <2>1, CallContent DEF PopFront, Deque!PopFront
  <2>2. CASE cb.size # 0
    <3>1. 1 \in 0 .. cb.size
      BY <1>0, <2>2
    <3>2. Content(pop_front_n(cb, 1)) = Deque!Drop(Content(cb), 1)
      BY <1>0, <3>1, ContentPopFront
    <3> QED BY <1>0, <1>6, <2>2, <3>2, FrontByte, CallContent DEF PopFront, Deque!PopFront
  <2> QED BY <2>1, <2>2
<1>7. ASSUME PopBack PROVE Deque!PopBack
  <2>1. CASE cb.size = 0
    BY <1>0, <1>7, <2>1, CallContent DEF PopBack, Deque!PopBack
  <2>2. CASE cb.size # 0
    <3>1. 1 \in 0 .. cb.size
      BY <1>0, <2>2
    <3>2. Content(pop_back_n(cb, 1)) = Deque!Take(Content(cb), cb.size - 1)
      BY <1>0, <3>1, ContentPopBack
    <3> QED BY <1>0, <1>7, <2>2, <3>2, BackByte, CallContent DEF PopBack, Deque!PopBack
  <2> QED BY <2>1, <2>2
<1>8. ASSUME DeleteFirstBlock PROVE Deque!DeleteFirstBlock
  <2>1. PICK n \in Nat : n = first_block_size(cb) /\ n \in 0 .. n /\ n \in 0 .. cb.size
    BY <1>0, FirstBlockSize
  <2>2. n = 0 => cb.size = 0
    BY <1>0, <2>1, FirstBlockSize
  <2>3. first_block(cb, n) = Deque!Take(Content(cb), n)
    BY <1>0, <2>1, FirstBlockIsFront
  <2>4. /\ Content(cb)' = Deque!Drop(Content(cb), n)
        /\ out' = Returned("delete_first_block", n, first_block(cb, n))
    BY <1>0, <1>8, <2>1, CallContent, ContentDeleteFirstBlock DEF DeleteFirstBlock
  <2> QED BY <1>0, <2>1, <2>2, <2>3, <2>4 DEF Deque!DeleteFirstBlock
<1>9. ASSUME NEW dest_size \in 0 .. Capacity, PopFrontBlock(dest_size)
      PROVE  Deque!PopFrontBlock(dest_size)
  <2> DEFINE n == IF dest_size < first_block_size(cb) THEN dest_size ELSE first_block_size(cb)
  <2>1. /\ n \in 0 .. first_block_size(cb) /\ n <= dest_size
        /\ n = 0 => cb.size = 0 \/ dest_size = 0
    BY <1>0, FirstBlockSize, CapacityType
  <2>2. PopFrontBlock(dest_size) =
          Call(take_front(cb, n), Returned("pop_front_block", n, first_block(cb, n)))
    BY DEF PopFrontBlock
  <2> HIDE DEF n
  <2>3. n \in 0 .. cb.size /\ first_block(cb, n) = Deque!Take(Content(cb), n)
    BY <1>0, <2>1, FirstBlockIsFront
  <2>4. /\ Content(cb)' = Deque!Drop(Content(cb), n)
        /\ out' = Returned("pop_front_block", n, first_block(cb, n))
    BY <1>0, <1>9, <2>2, <2>3, CallContent, ContentTakeFront
  <2> QED BY <1>0, <2>1, <2>3, <2>4 DEF Deque!PopFrontBlock
<1>10. ASSUME PopFrontToFd PROVE Deque!PopFrontToFd
  <2>1. ASSUME NEW n \in 0 .. first_block_size(cb),
               Call(take_front(cb, n), Returned("pop_front_to_fd", n, first_block(cb, n)))
        PROVE  Deque!PopFrontToFd
    <3>1. n \in 0 .. cb.size /\ first_block(cb, n) = Deque!Take(Content(cb), n)
      BY <1>0, FirstBlockIsFront
    <3>2. /\ Content(cb)' = Deque!Drop(Content(cb), n)
          /\ out' = Returned("pop_front_to_fd", n, first_block(cb, n))
      BY <1>0, <2>1, <3>1, CallContent, ContentTakeFront
    <3> QED BY <1>0, <3>1, <3>2 DEF Deque!PopFrontToFd
  <2>2. CASE Call(cb, Thrown("pop_front_to_fd", "FILE_WRITE"))
    BY <2>2, CallContent DEF Deque!PopFrontToFd
  <2> QED BY <1>10, <2>1, <2>2 DEF PopFrontToFd
<1>11. ASSUME PushBackFromFd PROVE Deque!PushBackFromFd
  <2>1. ASSUME NEW n \in 0 .. block_size_available(cb), NEW read \in [1 .. n -> Values],
               Call(push_back_from_fd(cb, read), Returned("push_back_from_fd", n, <<>>))
        PROVE  Deque!PushBackFromFd
    <3>1. n \in Nat /\ n <= block_size_available(cb) /\ n \in 0 .. Capacity
      BY <1>0, FdRoom, CapacityType
    <3>2. /\ Content(cb)' = Deque!KeepLast(Content(cb) \o read, Capacity)
          /\ out' = Returned("push_back_from_fd", n, <<>>)
      BY <1>0, <2>1, <3>1, CallContent, ContentPushBackFromFd
    <3>3. Len(Content(cb)) < Capacity => n <= Capacity - Len(Content(cb))
      <4>1. ASSUME cb.size < Capacity PROVE n <= Capacity - cb.size
        BY <1>0, <3>1, <4>1, FdRoom, FdRoomIsFree, CapacityType
      <4> QED BY <1>0, <4>1
    <3> QED BY <3>1, <3>2, <3>3 DEF Deque!PushBackFromFd
  <2>2. CASE Call(cb, Thrown("push_back_from_fd", "FILE_READ"))
    BY <2>2, CallContent DEF Deque!PushBackFromFd
  <2> QED BY <1>11, <2>1, <2>2 DEF PushBackFromFd
<1>12. ASSUME Clear PROVE Deque!Clear
  BY <1>0, <1>12, CallContent, ContentClear DEF Clear, Deque!Clear
<1>13. ASSUME NEW fn \in PushLoops, NEW source \in Sources, StartPush(fn, source)
       PROVE  UNCHANGED Deque!vars
  BY <1>13 DEF StartPush, Deque!vars
<1>14. ASSUME PushNext PROVE \E v \in Values : Deque!PushBack(v)
  <2>1. loop.source \in Seq(Values) /\ loop.i \in Nat /\ Len(loop.source) \in Nat
    BY SourcesAssumption, LenProperties, EmptySeq DEF IInv, TypeOK
  <2>2. PICK v \in Values : v = loop.source[loop.i + 1]
    BY <1>14, <2>1, LenProperties DEF PushNext
  <2>3. cb' = push_back(cb, v) /\ out' = Done("push_back")
    BY <1>14, <2>2 DEF PushNext
  <2>4. Content(cb)' = Deque!KeepLast(Append(Content(cb), v), Capacity)
    BY <1>0, <2>3, ContentPushBack
  <2> QED BY <2>2, <2>3, <2>4 DEF Deque!PushBack
<1>15. ASSUME ReturnFromPush
       PROVE  \E fn \in {"push_back_block", "push_back_string"} : Deque!ReturnFromPush(fn)
  <2>1. loop.fn \in {"push_back_block", "push_back_string"}
    BY <1>15 DEF ReturnFromPush, IInv, TypeOK, PushLoops
  <2>2. cb' = cb /\ out' = Done(loop.fn)
    BY <1>15 DEF ReturnFromPush
  <2>3. Deque!ReturnFromPush(loop.fn)
    BY <2>2 DEF Deque!ReturnFromPush
  <2> QED BY <2>1, <2>3
<1>16. ASSUME UNCHANGED vars PROVE UNCHANGED Deque!vars
  BY <1>16 DEF vars, Deque!vars
<1> HIDE SameResults
<1> QED
  BY <1>1, <1>2, <1>3, <1>4, <1>5, <1>6, <1>7, <1>8, <1>9, <1>10, <1>11, <1>12,
     <1>13, <1>14, <1>15, <1>16 DEF Next, Deque!Next

(* Whatever the circular buffer's functions do to the indices and the memory, *)
(* the program sees the bounded queue circular_buffer.h describes.            *)
THEOREM Implements == Spec => ImplementsDeque
<1>1. Init => Deque!Init
  <2> SUFFICES ASSUME Init PROVE Deque!Init
    OBVIOUS
  <2>1. GoodRing(cb) /\ cb.size = 0
    BY GoodInit DEF Init, init
  <2>2. Content(cb) = <<>>
    BY <2>1, ContentEmpty
  <2> QED BY <2>2, SameResults DEF Init, Deque!Init
<1>2. Spec => []IInv
  BY Consistent, PTL DEF IInv
<1> QED BY <1>1, <1>2, StepImplements, PTL DEF Spec, ImplementsDeque, Deque!Spec

----------------------------------------------------------------------------
(* The memory blocks of get_blocks.                                          *)

(* The cells of blocks of known lengths. *)
LEMMA BlockCellsAre ==
  ASSUME NEW blocks, NEW nn,
         nn = [b \in 1 .. 2 |-> IF b \in DOMAIN blocks THEN blocks[b].len ELSE 0],
         NEW k \in Nat, nn[1] + nn[2] = k,
         \A i \in 1 .. k : (IF i <= nn[1] THEN blocks[1].at + i - 1
                             ELSE blocks[2].at + i - nn[1] - 1) \in Int
  PROVE  /\ Len(BlockCells(blocks)) = k
         /\ \A i \in 1 .. k : BlockCells(blocks)[i] =
              IF i <= nn[1] THEN blocks[1].at + i - 1 ELSE blocks[2].at + i - nn[1] - 1
<1> DEFINE c == BlockCells(blocks)
<1>1. c = [i \in 1 .. k |-> IF i <= nn[1] THEN blocks[1].at + i - 1
                            ELSE blocks[2].at + i - nn[1] - 1]
  BY DEF BlockCells
<1>2. c \in [1 .. k -> Int]
  BY <1>1
<1>3. Len(c) = k
  BY <1>2, FunctionIsSeq
<1> HIDE DEF c
<1>4. \A i \in 1 .. k : c[i] =
        IF i <= nn[1] THEN blocks[1].at + i - 1 ELSE blocks[2].at + i - nn[1] - 1
  BY <1>1
<1> QED BY <1>3, <1>4 DEF c

(* What the lemma asks of the blocks, and what it yields, in a word. *)
BlocksGive(blocks, nn, k) ==
  /\ nn = [b \in 1 .. 2 |-> IF b \in DOMAIN blocks THEN blocks[b].len ELSE 0]
  /\ k \in Nat /\ nn[1] + nn[2] = k
  /\ \A i \in 1 .. k : (IF i <= nn[1] THEN blocks[1].at + i - 1
                          ELSE blocks[2].at + i - nn[1] - 1) \in Int

CellsAre(c, blocks, nn, k) ==
  /\ Len(c) = k
  /\ \A i \in 1 .. k : c[i] =
       IF i <= nn[1] THEN blocks[1].at + i - 1 ELSE blocks[2].at + i - nn[1] - 1

(* The lemma again. *)
LEMMA GivenCells ==
  ASSUME NEW blocks, NEW nn, NEW k, BlocksGive(blocks, nn, k)
  PROVE  CellsAre(BlockCells(blocks), blocks, nn, k)
<1>1. /\ nn = [b \in 1 .. 2 |-> IF b \in DOMAIN blocks THEN blocks[b].len ELSE 0]
      /\ k \in Nat /\ nn[1] + nn[2] = k
      /\ \A i \in 1 .. k : (IF i <= nn[1] THEN blocks[1].at + i - 1
                              ELSE blocks[2].at + i - nn[1] - 1) \in Int
  BY DEF BlocksGive
<1>2. /\ Len(BlockCells(blocks)) = k
      /\ \A i \in 1 .. k : BlockCells(blocks)[i] =
           IF i <= nn[1] THEN blocks[1].at + i - 1 ELSE blocks[2].at + i - nn[1] - 1
  BY <1>1, BlockCellsAre
<1> QED BY <1>2 DEF CellsAre

(* The cells of one block. *)
LEMMA OneBlock ==
  ASSUME NEW p \in Nat, NEW l \in Nat, NEW c, c = BlockCells(<< [at |-> p, len |-> l] >>)
  PROVE  Len(c) = l /\ \A i \in 1 .. l : c[i] = p + i - 1
<1> DEFINE blocks == << [at |-> p, len |-> l] >>
           nn == [b \in 1 .. 2 |-> IF b \in DOMAIN blocks THEN blocks[b].len ELSE 0]
<1>1. blocks[1] = [at |-> p, len |-> l] /\ DOMAIN blocks = {1}
  BY Zenon, SMT
<1>2. nn[1] = l /\ nn[2] = 0 /\ blocks[1].at = p
  BY <1>1
<1> HIDE DEF blocks
<1>3. nn = [b \in 1 .. 2 |-> IF b \in DOMAIN blocks THEN blocks[b].len ELSE 0]
  OBVIOUS
<1> HIDE DEF nn
<1>4. \A i \in 1 .. l : (IF i <= nn[1] THEN blocks[1].at + i - 1
                          ELSE blocks[2].at + i - nn[1] - 1) = p + i - 1
  BY <1>2
<1>5. nn[1] + nn[2] = l
  BY <1>2
<1>6. \A i \in 1 .. l : (IF i <= nn[1] THEN blocks[1].at + i - 1
                          ELSE blocks[2].at + i - nn[1] - 1) \in Int
  BY <1>4
<1>7. /\ Len(BlockCells(blocks)) = l
      /\ \A i \in 1 .. l : BlockCells(blocks)[i] =
           IF i <= nn[1] THEN blocks[1].at + i - 1 ELSE blocks[2].at + i - nn[1] - 1
  <2>1. BlocksGive(blocks, nn, l)
    BY <1>3, <1>5, <1>6 DEF BlocksGive
  <2> QED BY <2>1, GivenCells DEF CellsAre
<1> QED BY <1>4, <1>7 DEF blocks

(* The cells of two blocks. *)
LEMMA TwoBlocks ==
  ASSUME NEW p \in Nat, NEW l \in Nat, NEW q \in Nat, NEW m \in Nat, NEW c,
         c = BlockCells(<< [at |-> p, len |-> l], [at |-> q, len |-> m] >>)
  PROVE  /\ Len(c) = l + m
         /\ \A i \in 1 .. l : c[i] = p + i - 1
         /\ \A i \in l + 1 .. l + m : c[i] = q + i - l - 1
<1> DEFINE blocks == << [at |-> p, len |-> l], [at |-> q, len |-> m] >>
           nn == [b \in 1 .. 2 |-> IF b \in DOMAIN blocks THEN blocks[b].len ELSE 0]
<1>1. /\ blocks[1] = [at |-> p, len |-> l] /\ blocks[2] = [at |-> q, len |-> m]
      /\ 1 \in DOMAIN blocks /\ 2 \in DOMAIN blocks
  OBVIOUS
<1>2. nn[1] = l /\ nn[2] = m /\ blocks[1].at = p /\ blocks[2].at = q
  BY <1>1
<1> HIDE DEF blocks
<1>3. nn = [b \in 1 .. 2 |-> IF b \in DOMAIN blocks THEN blocks[b].len ELSE 0]
  OBVIOUS
<1> HIDE DEF nn
<1>4. /\ \A i \in 1 .. l : (IF i <= nn[1] THEN blocks[1].at + i - 1
                             ELSE blocks[2].at + i - nn[1] - 1) = p + i - 1
      /\ \A i \in l + 1 .. l + m : (IF i <= nn[1] THEN blocks[1].at + i - 1
                                     ELSE blocks[2].at + i - nn[1] - 1) = q + i - l - 1
  BY <1>2
<1>5. nn[1] + nn[2] = l + m /\ l + m \in Nat
  BY <1>2
<1>6. \A i \in 1 .. l + m : (IF i <= nn[1] THEN blocks[1].at + i - 1
                              ELSE blocks[2].at + i - nn[1] - 1) \in Int
  BY <1>2
<1>7. /\ Len(BlockCells(blocks)) = l + m
      /\ \A i \in 1 .. l + m : BlockCells(blocks)[i] =
           IF i <= nn[1] THEN blocks[1].at + i - 1 ELSE blocks[2].at + i - nn[1] - 1
  <2>1. BlocksGive(blocks, nn, l + m)
    BY <1>3, <1>5, <1>6 DEF BlocksGive
  <2> QED BY <2>1, GivenCells DEF CellsAre
<1>8. \A i \in 1 .. l : i \in 1 .. l + m
  OBVIOUS
<1>9. \A i \in l + 1 .. l + m : i \in 1 .. l + m
  OBVIOUS
<1> QED BY <1>4, <1>7, <1>8, <1>9 DEF blocks

(* get_blocks names the cells of the elements asked for, in their order. *)
LEMMA BlocksAreRight == IInv => UnwrappedBlocksHoldTheElements
<1> SUFFICES ASSUME IInv,
                    NEW iFirst \in 0 .. cb.size, NEW nElem \in 0 .. cb.size - iFirst,
                    cb.iStart + iFirst <= Capacity
             PROVE  BlocksHold(iFirst, nElem)
  BY DEF UnwrappedBlocksHoldTheElements
<1>1. GoodRing(cb)
  BY DEF IInv, TypeOK, StopBehindContent, GoodRing
<1>2. PICK begin \in Nat :
        /\ begin = cb.iStart + iFirst /\ begin <= Capacity
        /\ nElem \in Nat /\ nElem <= Capacity /\ begin + nElem < 2 * Capacity
  BY <1>1, GoodRingIndices, CapacityType
<1> DEFINE cells == BlockCells(get_blocks(cb, iFirst, nElem))
<1>3. ASSUME NEW i \in 1 .. nElem
      PROVE  Wrap(cb.iStart + iFirst + i - 1) =
               IF begin + i <= Capacity THEN begin + i - 1 ELSE begin + i - 1 - Capacity
  <2>1. PICK j \in Nat : /\ j = cb.iStart + iFirst + i - 1 /\ j = begin + i - 1
                         /\ j < 2 * Capacity /\ (j < Capacity <=> begin + i <= Capacity)
    BY <1>1, <1>2, GoodRingIndices, CapacityType
  <2>2. Wrap(j) = IF j < Capacity THEN j ELSE j - Capacity
    BY <2>1, WrapCases
  <2>3. Wrap(cb.iStart + iFirst + i - 1) = Wrap(j)
    BY <2>1
  <2>4. Wrap(j) = IF begin + i <= Capacity THEN begin + i - 1 ELSE begin + i - 1 - Capacity
    BY <1>2, <2>1, <2>2, CapacityType
  <2> QED BY <2>3, <2>4, Zenon
<1>4. CASE begin + nElem > Capacity
  <2>1. PICK n0 \in Nat, m \in Nat, zero \in Nat :
          /\ zero = 0 /\ n0 = Capacity - begin /\ m = nElem - n0 /\ nElem = n0 + m
          /\ n0 < SizeRange /\ m < SizeRange
    BY <1>2, <1>4, CapacityType, SizeRangeAssumption
  <2>2. \A x \in Nat : x < SizeRange => x % SizeRange = x
    BY SizeRangeAssumption
  <2>3. get_blocks(cb, iFirst, nElem) = << [at |-> begin, len |-> n0], [at |-> zero, len |-> m] >>
    BY <1>2, <1>4, <2>1, <2>2 DEF get_blocks
  <2> HIDE DEF cells
  <2>4. /\ Len(cells) = n0 + m
        /\ \A i \in 1 .. n0 : cells[i] = begin + i - 1
        /\ \A i \in n0 + 1 .. n0 + m : cells[i] = zero + i - n0 - 1
    <3>1. cells = BlockCells(<< [at |-> begin, len |-> n0], [at |-> zero, len |-> m] >>)
      BY <2>3 DEF cells
    <3> QED BY <3>1, TwoBlocks
  <2>5. ASSUME NEW i \in 1 .. nElem
        PROVE  cells[i] = Wrap(cb.iStart + iFirst + i - 1)
    <3>1. CASE i <= n0
      <4>1. i \in 1 .. n0 /\ begin + i <= Capacity
        BY <1>2, <2>1, <3>1, CapacityType
      <4> QED BY <1>3, <2>4, <4>1
    <3>2. CASE i > n0
      <4>1. i \in n0 + 1 .. n0 + m /\ ~(begin + i <= Capacity)
        BY <1>2, <2>1, <3>2, CapacityType
      <4>2. zero + i - n0 - 1 = begin + i - 1 - Capacity
        BY <1>2, <2>1, CapacityType
      <4> QED BY <1>3, <2>4, <4>1, <4>2
    <3> QED BY <2>1, <3>1, <3>2
  <2> QED BY <2>1, <2>4, <2>5 DEF BlocksHold, cells
<1>5. CASE ~(begin + nElem > Capacity)
  <2>1. get_blocks(cb, iFirst, nElem) = << [at |-> begin, len |-> nElem] >>
    BY <1>2, <1>5 DEF get_blocks
  <2> HIDE DEF cells
  <2>2. Len(cells) = nElem /\ \A i \in 1 .. nElem : cells[i] = begin + i - 1
    <3>1. cells = BlockCells(<< [at |-> begin, len |-> nElem] >>)
      BY <2>1 DEF cells
    <3> QED BY <1>2, <3>1, OneBlock
  <2>3. \A i \in 1 .. nElem : cells[i] = Wrap(cb.iStart + iFirst + i - 1)
    BY <1>2, <1>3, <1>5, <2>2, CapacityType
  <2> QED BY <2>2, <2>3 DEF BlocksHold, cells
<1> QED BY <1>4, <1>5

(* Whoever walks the blocks of circular_buffer_get_blocks_uint8 sees exactly *)
(* the elements asked for, for every range that begins before the wrap.      *)
THEOREM BlocksHoldTheElements == Spec => []UnwrappedBlocksHoldTheElements
<1>1. Spec => []IInv
  BY Consistent, PTL DEF IInv
<1> QED BY <1>1, BlocksAreRight, PTL

(* The ring's record, the call's result and the loop of a running push keep *)
(* their types through every function of circular_buffer.c.                 *)
THEOREM WellTyped == Spec => []TypeOK
  BY Consistent, PTL

----------------------------------------------------------------------------
(***************************************************************************)
(* The recursion of remove_front_unfinished_frames, call by call.  What    *)
(* the whole function comes to, said of the call that is entered when k    *)
(* elements are gone:                                                      *)
(***************************************************************************)
EntriesFrom(ends, k) == {k} \cup {e + 1 : e \in From(ends, k)}
LastFrom(starts, ends, k) == Min({j \in EntriesFrom(ends, k) : ~Recurses(starts, ends, j)})

ChosenFrom(starts, ends, k) ==
  LET j == LastFrom(starts, ends, k)
  IN  {i \in From(starts, j) : \A e \in From(ends, j) : i < e}

InFrontFrom(starts, ends, k) ==
  {e \in From(ends, k) : e < LastFrom(starts, ends, k) /\ e \in EntriesFrom(ends, k)}

GoneFrom(starts, ends, size, k) ==
  LET S == ChosenFrom(starts, ends, k) IN IF S = {} THEN size ELSE Max(S)

CallFrom(starts, ends, size, k) ==
  LET gone == GoneFrom(starts, ends, size, k)
  IN  [gone |-> gone, result |-> gone - k - Cardinality(InFrontFrom(starts, ends, k))]

(* The elements of a ring of n that are a startChar, or an endChar.        *)
ArePositions(S, n) == \A i \in S : i \in Nat /\ i < n

(* Positions behind k, and the first of them. *)
LEMMA FromIs ==
  ASSUME NEW n \in Nat, NEW S, ArePositions(S, n), NEW k \in 0 .. n
  PROVE  /\ From(S, k) \in SUBSET Nat /\ From(S, k) \in SUBSET (0 .. n)
         /\ \A i \in From(S, k) : i \in S /\ k <= i /\ i < n
         /\ From(S, k) # {} => /\ Min(From(S, k)) \in From(S, k)
                               /\ Min(From(S, k)) \in k .. n - 1
                               /\ \A i \in From(S, k) : Min(From(S, k)) <= i
                               /\ Max(From(S, k)) \in k .. n - 1
<1>1. /\ From(S, k) \in SUBSET Nat /\ From(S, k) \in SUBSET (0 .. n)
      /\ \A i \in From(S, k) : i \in S /\ k <= i /\ i < n
  BY DEF ArePositions, From
<1> DEFINE F == From(S, k)
<1> HIDE DEF F
<1>2. ASSUME F # {} PROVE /\ Min(F) \in F /\ \A i \in F : Min(F) <= i
                          /\ Max(F) \in F
  BY <1>1, <1>2, MinIsLeast, MaxIsGreatest DEF F
<1>3. \A i \in F : i \in k .. n - 1
  BY <1>1 DEF F
<1> QED BY <1>1, <1>2, <1>3 DEF F

(* A search that may end ends at the first entry where it does.            *)
LEMMA LastFromIs ==
  ASSUME NEW n \in Nat, NEW starts, NEW ends, ArePositions(ends, n), NEW k \in 0 .. n
  PROVE  LET L == LastFrom(starts, ends, k)
         IN  /\ L \in EntriesFrom(ends, k) /\ L \in k .. n
             /\ ~Recurses(starts, ends, L)
             /\ \A j \in EntriesFrom(ends, k) : ~Recurses(starts, ends, j) => L <= j
<1> DEFINE S == {j \in EntriesFrom(ends, k) : ~Recurses(starts, ends, j)}
<1>1. EntriesFrom(ends, k) \in SUBSET (k .. n)
  BY FromIs DEF EntriesFrom
<1>2. S # {}
  <2>1. CASE From(ends, k) = {}
    BY <2>1 DEF EntriesFrom, Recurses
  <2>2. CASE From(ends, k) # {}
    <3> DEFINE F == From(ends, k)
               m == Max(F)
    <3>1. F \in SUBSET (0 .. n)
      BY FromIs
    <3>2. m \in F /\ \A e \in F : m >= e
      <4> HIDE DEF F
      <4> QED BY <2>2, <3>1, MaxIsGreatest DEF F
    <3>3. m + 1 \in EntriesFrom(ends, k)
      BY <3>2 DEF EntriesFrom
    <3> HIDE DEF m
    <3>4. From(ends, m + 1) = {}
      <4>1. m \in Nat /\ m >= k
        BY <3>1, <3>2, FromIs
      <4>2. \A e \in ends : e >= m + 1 => e \in F
        BY <4>1 DEF From, ArePositions
      <4> HIDE DEF F
      <4>3. ASSUME NEW e \in From(ends, m + 1) PROVE FALSE
        <5>1. e \in ends /\ e >= m + 1 /\ e \in Nat
          BY DEF From, ArePositions
        <5> QED BY <3>2, <4>1, <4>2, <5>1
      <4> QED BY <4>3
    <3> QED BY <3>3, <3>4 DEF Recurses
  <2> QED BY <2>1, <2>2
<1>3. S \in SUBSET Nat
  BY <1>1
<1>4. Min(S) \in S /\ \A j \in S : Min(S) <= j
  <2> HIDE DEF S
  <2> QED BY <1>2, <1>3, MinIsLeast
<1>5. LastFrom(starts, ends, k) = Min(S)
  BY DEF LastFrom
<1> HIDE DEF S
<1>6. Min(S) \in EntriesFrom(ends, k) /\ ~Recurses(starts, ends, Min(S))
  BY <1>4 DEF S
<1>7. \A j \in EntriesFrom(ends, k) : ~Recurses(starts, ends, j) => Min(S) <= j
  BY <1>4 DEF S
<1> QED BY <1>1, <1>5, <1>6, <1>7

(* Where the function does not call itself, it searches. *)
LEMMA SearchesHere ==
  ASSUME NEW n \in Nat, NEW starts, NEW ends, ArePositions(ends, n), NEW k \in 0 .. n,
         ~Recurses(starts, ends, k)
  PROVE  /\ LastFrom(starts, ends, k) = k
         /\ InFrontFrom(starts, ends, k) = {}
<1>1. k \in EntriesFrom(ends, k)
  BY DEF EntriesFrom
<1> DEFINE L == LastFrom(starts, ends, k)
<1>2. L \in k .. n /\ L <= k
  BY <1>1, LastFromIs
<1>3. L = k
  <2> HIDE DEF L
  <2> QED BY <1>2
<1>4. \A e \in From(ends, k) : ~(e < k)
  BY FromIs
<1> QED BY <1>3, <1>4 DEF InFrontFrom

(* Where it calls itself, the inner call does the search. *)
LEMMA SearchesBehind ==
  ASSUME NEW n \in Nat, NEW starts, NEW ends, ArePositions(ends, n), NEW k \in 0 .. n,
         Recurses(starts, ends, k), NEW m, m = Min(From(ends, k))
  PROVE  /\ m \in k .. n - 1 /\ m + 1 \in 0 .. n
         /\ LastFrom(starts, ends, k) = LastFrom(starts, ends, m + 1)
         /\ InFrontFrom(starts, ends, k)
              = IF m = k THEN InFrontFrom(starts, ends, m + 1) \cup {k}
                ELSE InFrontFrom(starts, ends, m + 1)
<1>1. From(ends, k) # {}
  BY DEF Recurses
<1>2. /\ m \in From(ends, k) /\ m \in k .. n - 1
      /\ \A e \in From(ends, k) : m <= e
  BY <1>1, FromIs
<1>3. m + 1 \in 0 .. n /\ m \in Nat /\ k <= m
  BY <1>2
<1>4. \A e : e \in From(ends, k) <=> e = m \/ e \in From(ends, m + 1)
  <2>1. \A e \in ends : e \in Nat
    BY DEF ArePositions
  <2>2. ASSUME NEW e PROVE e \in From(ends, k) => e = m \/ e \in From(ends, m + 1)
    <3> SUFFICES ASSUME e \in From(ends, k), e # m PROVE e \in From(ends, m + 1)
      OBVIOUS
    <3>1. e \in ends /\ e >= k /\ m <= e /\ e \in Nat
      BY <1>2, <2>1 DEF From
    <3> QED BY <1>3, <3>1 DEF From
  <2>3. ASSUME NEW e PROVE e \in From(ends, m + 1) => e \in From(ends, k)
    BY <1>3, <2>1 DEF From
  <2> QED BY <1>2, <2>2, <2>3
<1>5. EntriesFrom(ends, k) = EntriesFrom(ends, m + 1) \cup {k}
  BY <1>4, Zenon DEF EntriesFrom
<1> DEFINE L == LastFrom(starts, ends, k)
           M == LastFrom(starts, ends, m + 1)
<1>6. /\ L \in EntriesFrom(ends, k) /\ L \in k .. n /\ ~Recurses(starts, ends, L)
      /\ \A j \in EntriesFrom(ends, k) : ~Recurses(starts, ends, j) => L <= j
  BY LastFromIs
<1>7. /\ M \in EntriesFrom(ends, m + 1) /\ M \in m + 1 .. n /\ ~Recurses(starts, ends, M)
      /\ \A j \in EntriesFrom(ends, m + 1) : ~Recurses(starts, ends, j) => M <= j
  BY <1>3, LastFromIs
<1> HIDE DEF L, M
<1>8. L = M
  <2>1. L \in EntriesFrom(ends, m + 1)
    BY <1>5, <1>6
  <2>2. L <= M
    BY <1>5, <1>6, <1>7
  <2>3. M <= L
    BY <1>6, <1>7, <2>1
  <2> QED BY <1>6, <1>7, <2>2, <2>3
<1>9. \A e \in From(ends, m + 1) : e > m /\ e > k
  BY <1>3, FromIs
<1>10. m \in EntriesFrom(ends, m + 1) => FALSE
  <2>1. \A e \in From(ends, m + 1) : e + 1 # m
    BY <1>3, FromIs
  <2> QED BY <1>3, <2>1 DEF EntriesFrom
<1>11. m < L
  BY <1>3, <1>7, <1>8
<1>12. ASSUME NEW e
       PROVE  e \in InFrontFrom(starts, ends, k)
                <=> (m = k /\ e = m) \/ e \in InFrontFrom(starts, ends, m + 1)
  <2>1. e \in InFrontFrom(starts, ends, k)
          <=> e \in From(ends, k) /\ e < L /\ e \in EntriesFrom(ends, k)
    BY DEF InFrontFrom, L
  <2>2. e \in InFrontFrom(starts, ends, m + 1)
          <=> e \in From(ends, m + 1) /\ e < M /\ e \in EntriesFrom(ends, m + 1)
    BY DEF InFrontFrom, M
  <2>3. CASE e = m
    <3>1. e \notin From(ends, m + 1)
      BY <1>3, <1>9, <2>3
    <3>2. e \in EntriesFrom(ends, k) <=> m = k
      BY <1>5, <1>10, <2>3
    <3> QED BY <1>2, <1>11, <2>1, <2>2, <2>3, <3>1, <3>2
  <2>4. CASE e # m
    <3>1. e \in From(ends, m + 1) => e # k
      BY <1>3, <1>9
    <3> QED BY <1>4, <1>5, <1>8, <2>1, <2>2, <2>4, <3>1
  <2> QED BY <2>3, <2>4
<1>13. InFrontFrom(starts, ends, k)
         = IF m = k THEN InFrontFrom(starts, ends, m + 1) \cup {k}
           ELSE InFrontFrom(starts, ends, m + 1)
  BY <1>12
<1> QED BY <1>2, <1>3, <1>8, <1>13 DEF L, M

(* What a call comes to is what the function makes of its inner calls.     *)
LEMMA CallFromIsACall ==
  ASSUME NEW n \in Nat, NEW starts, NEW ends,
         ArePositions(starts, n), ArePositions(ends, n),
         NEW call, \A j \in 0 .. n : call[j] = CallFrom(starts, ends, n, j),
         NEW k \in 0 .. n
  PROVE  CallFrom(starts, ends, n, k) = unfinished_call(call, starts, ends, n, k)
<1> DEFINE m == Min(From(ends, k))
           before == {i \in From(starts, k) : i < m}
           L == LastFrom(starts, ends, k)
           gone == GoneFrom(starts, ends, n, k)
<1>1. CASE ~Recurses(starts, ends, k)
  <2>1. L = k /\ InFrontFrom(starts, ends, k) = {}
    BY <1>1, SearchesHere
  <2>2. CallFrom(starts, ends, n, k) = [gone |-> gone, result |-> gone - k - 0]
    BY <2>1, FS_EmptySet DEF CallFrom
  <2>3. CASE From(ends, k) = {}
    <3>1. ChosenFrom(starts, ends, k) = From(starts, k)
      BY <2>1, <2>3 DEF ChosenFrom
    <3>2. gone = IF From(starts, k) = {} THEN n ELSE Max(From(starts, k))
      BY <3>1 DEF GoneFrom
    <3>3. gone \in Int
      BY <3>2, FromIs
    <3>4. unfinished_call(call, starts, ends, n, k) = [gone |-> gone, result |-> gone - k]
      BY <2>3, <3>2, Zenon DEF unfinished_call
    <3> HIDE DEF gone
    <3> QED BY <2>2, <3>3, <3>4
  <2>4. CASE From(ends, k) # {}
    <3>1. m \in From(ends, k) /\ m \in k .. n - 1 /\ \A e \in From(ends, k) : m <= e /\ e \in Nat
      BY <2>4, FromIs
    <3>2. PICK i \in From(starts, k) : ~(i >= m)
      BY <1>1, <2>4 DEF Recurses
    <3>3. \A j \in From(starts, k) : j \in Nat /\ k <= j /\ j \in 0 .. n
      BY FromIs
    <3> HIDE DEF m
    <3>4. i \in before /\ m # k
      BY <3>1, <3>2, <3>3
    <3>5. ChosenFrom(starts, ends, k) = before
      <4>1. ASSUME NEW j \in From(starts, k)
            PROVE  (\A e \in From(ends, k) : j < e) <=> j < m
        BY <3>1, <3>3
      <4> QED BY <2>1, <4>1 DEF ChosenFrom
    <3>6. gone = Max(before)
      BY <3>4, <3>5 DEF GoneFrom
    <3>7. gone \in Int
      <4>1. before \in SUBSET (0 .. n) /\ before # {}
        BY <3>3, <3>4
      <4> HIDE DEF before, gone
      <4>2. Max(before) \in before
        BY <4>1, MaxIsGreatest
      <4>3. \A j \in 0 .. n : j \in Int
        OBVIOUS
      <4>4. Max(before) \in Int
        BY <4>1, <4>2, <4>3
      <4> QED BY <3>6, <4>4
    <3>8. unfinished_call(call, starts, ends, n, k) = [gone |-> Max(before), result |-> Max(before) - k]
      BY <2>4, <3>4, Zenon DEF unfinished_call, m
    <3> HIDE DEF gone, before
    <3> QED BY <2>2, <3>6, <3>7, <3>8
  <2> QED BY <2>3, <2>4
<1>2. CASE Recurses(starts, ends, k)
  <2> DEFINE inner == CallFrom(starts, ends, n, m + 1)
             behind == InFrontFrom(starts, ends, m + 1)
  <2>1. /\ m \in k .. n - 1 /\ m + 1 \in 0 .. n
        /\ LastFrom(starts, ends, k) = LastFrom(starts, ends, m + 1)
        /\ InFrontFrom(starts, ends, k) = IF m = k THEN behind \cup {k} ELSE behind
    BY <1>2, SearchesBehind
  <2>2. GoneFrom(starts, ends, n, m + 1) = gone
    BY <2>1, Zenon DEF GoneFrom, ChosenFrom
  <2>3. gone \in Int
    <3>1. ChosenFrom(starts, ends, k) \in SUBSET (0 .. n)
      <4>1. L \in 0 .. n
        BY LastFromIs
      <4> QED BY <4>1, FromIs DEF ChosenFrom
    <3> DEFINE S == ChosenFrom(starts, ends, k)
    <3>2. S # {} => Max(S) \in 0 .. n
      <4> HIDE DEF S
      <4> QED BY <3>1, MaxIsGreatest DEF S
    <3> QED BY <3>2 DEF GoneFrom
  <2>4. IsFiniteSet(behind) /\ Cardinality(behind) \in Nat
    <3>1. behind \in SUBSET (0 .. n)
      BY <2>1, FromIs DEF InFrontFrom
    <3>2. 0 \in Int /\ n \in Int
      OBVIOUS
    <3>3. IsFiniteSet(0 .. n)
      BY <3>2, FS_Interval
    <3> HIDE DEF behind
    <3> QED BY <3>1, <3>3, FS_Subset, FS_CardinalityType
  <2>5. inner = [gone |-> gone, result |-> gone - (m + 1) - Cardinality(behind)]
    BY <2>2 DEF CallFrom
  <2>6. call[m + 1] = inner
    BY <2>1
  <2>7. From(ends, k) # {} /\ before = {}
    <3>1. From(ends, k) # {} /\ \A i \in From(starts, k) : i >= m
      BY <1>2 DEF Recurses
    <3>2. \A i \in From(starts, k) : i \in Nat
      BY FromIs
    <3> HIDE DEF m
    <3> QED BY <2>1, <3>1, <3>2
  <2>8. CASE m = k
    <3>1. k \notin behind
      <4>1. \A e \in From(ends, m + 1) : e # k
        BY <2>1, <2>8, FromIs
      <4> QED BY <4>1 DEF InFrontFrom
    <3>2. Cardinality(InFrontFrom(starts, ends, k)) = Cardinality(behind) + 1
      <4>1. InFrontFrom(starts, ends, k) = behind \cup {k}
        BY <2>1, <2>8
      <4> HIDE DEF behind
      <4> QED BY <2>4, <3>1, <4>1, FS_AddElement
    <3>3. unfinished_call(call, starts, ends, n, k) = call[k + 1]
      BY <2>7, <2>8, Zenon DEF unfinished_call
    <3>4. CallFrom(starts, ends, n, k) = [gone |-> gone, result |-> gone - k - (Cardinality(behind) + 1)]
      BY <3>2 DEF CallFrom
    <3>5. call[k + 1] = [gone |-> gone, result |-> gone - (k + 1) - Cardinality(behind)]
      BY <2>5, <2>6, <2>8
    <3> HIDE DEF behind, gone
    <3> QED BY <2>3, <2>4, <3>3, <3>4, <3>5
  <2>9. CASE m # k
    <3>1. unfinished_call(call, starts, ends, n, k)
            = [gone |-> call[m + 1].gone, result |-> call[m + 1].result + (m + 1 - k)]
      BY <2>7, <2>9, Zenon DEF unfinished_call
    <3>2. CallFrom(starts, ends, n, k) = [gone |-> gone, result |-> gone - k - Cardinality(behind)]
      BY <2>1, <2>9 DEF CallFrom
    <3>3. /\ call[m + 1].gone = gone
          /\ call[m + 1].result = gone - (m + 1) - Cardinality(behind)
      BY <2>5, <2>6
    <3> HIDE DEF behind, gone, m
    <3>4. call[m + 1].result + (m + 1 - k) = gone - k - Cardinality(behind)
      BY <2>1, <2>3, <2>4, <3>3
    <3> QED BY <3>1, <3>2, <3>3, <3>4
  <2> QED BY <2>8, <2>9
<1> QED BY <1>1, <1>2

(***************************************************************************)
(* The calls are defined: a function that makes inner calls of itself is   *)
(* the one that CallFrom describes, from the last call to the first.       *)
(***************************************************************************)
LEMMA CallsAre ==
  ASSUME NEW r, GoodRing(r), NEW v, NEW w
  PROVE  unfinished_calls(r, v, w)
           = CallFrom(PositionsOf(r, v), PositionsOf(r, w), r.size, 0)
<1> DEFINE starts == PositionsOf(r, v)
           ends == PositionsOf(r, w)
           n == r.size
           IsCalls(c) == c = [k \in 0 .. n |-> unfinished_call(c, starts, ends, n, k)]
           call == CHOOSE c : IsCalls(c)
           witness == [k \in 0 .. n |-> CallFrom(starts, ends, n, k)]
<1>1. unfinished_calls(r, v, w) = call[0]
  BY DEF unfinished_calls
<1>2. n \in Nat /\ ArePositions(starts, n) /\ ArePositions(ends, n)
  BY PositionsType, GoodRingIndices DEF ArePositions
<1> HIDE DEF starts, ends, n
<1>3. IsCalls(witness)
  <2>1. \A k \in 0 .. n : CallFrom(starts, ends, n, k) = unfinished_call(witness, starts, ends, n, k)
    <3>1. \A j \in 0 .. n : witness[j] = CallFrom(starts, ends, n, j)
      OBVIOUS
    <3> HIDE DEF witness
    <3> QED BY <1>2, <3>1, CallFromIsACall
  <2> QED BY <2>1
<1> HIDE DEF witness
<1>4. IsCalls(call)
  <2> HIDE DEF IsCalls
  <2> QED BY <1>3
<1> HIDE DEF call
<1>5. \A k \in 0 .. n : call[k] = unfinished_call(call, starts, ends, n, k)
  BY <1>4
<1> DEFINE wrong == {g \in 0 .. n : call[n - g] # CallFrom(starts, ends, n, n - g)}
<1>6. wrong = {}
  <2> SUFFICES ASSUME wrong # {} PROVE FALSE
    OBVIOUS
  <2>1. wrong \in SUBSET Nat
    OBVIOUS
  <2> DEFINE g == Min(wrong)
  <2>2. g \in wrong /\ \A h \in wrong : g <= h
    <3> HIDE DEF wrong
    <3> QED BY <2>1, MinIsLeast
  <2> HIDE DEF g
  <2> DEFINE k == n - g
  <2>3. /\ k \in 0 .. n /\ call[k] # CallFrom(starts, ends, n, k)
        /\ \A j \in 0 .. n : j > k => call[j] = CallFrom(starts, ends, n, j)
    <3>1. k \in 0 .. n /\ call[k] # CallFrom(starts, ends, n, k)
      BY <1>2, <2>2
    <3>2. ASSUME NEW j \in 0 .. n, j > k PROVE call[j] = CallFrom(starts, ends, n, j)
      <4>1. n - j \in 0 .. n /\ n - (n - j) = j /\ ~(g <= n - j)
        BY <1>2, <2>2, <3>2
      <4> QED BY <2>2, <4>1
    <3> QED BY <3>1, <3>2
  <2> HIDE DEF k
  <2>4. unfinished_call(call, starts, ends, n, k) = unfinished_call(witness, starts, ends, n, k)
    <3>1. \A j \in 0 .. n : j > k => call[j] = witness[j]
      BY <2>3 DEF witness
    <3>2. From(ends, k) # {} => Min(From(ends, k)) \in k .. n - 1
      BY <1>2, <2>3, FromIs
    <3> DEFINE m == Min(From(ends, k))
    <3>3. From(ends, k) # {} => call[m + 1] = witness[m + 1]
      <4> HIDE DEF m
      <4> QED BY <1>2, <2>3, <3>1, <3>2 DEF m
    <3>4. From(ends, k) # {} /\ m = k => call[k + 1] = witness[k + 1]
      BY <3>3
    <3> QED BY <3>3, <3>4, Zenon DEF unfinished_call
  <2>5. unfinished_call(witness, starts, ends, n, k) = CallFrom(starts, ends, n, k)
    <3>1. \A j \in 0 .. n : witness[j] = CallFrom(starts, ends, n, j)
      BY DEF witness
    <3> QED BY <1>2, <2>3, <3>1, CallFromIsACall
  <2> QED BY <1>5, <2>3, <2>4, <2>5
<1>7. call[0] = CallFrom(starts, ends, n, 0)
  <2>1. n \in 0 .. n /\ n - n = 0
    BY <1>2
  <2> QED BY <1>6, <2>1
<1> QED BY <1>1, <1>7 DEF starts, ends, n

(* The first call is the function. *)
LEMMA FirstCall ==
  ASSUME NEW r, GoodRing(r), NEW v, NEW w
  PROVE  CallFrom(PositionsOf(r, v), PositionsOf(r, w), r.size, 0)
           = [gone |-> unfinished(r, v, w), result |-> unfinished_result(r, v, w)]
<1> DEFINE starts == PositionsOf(r, v)
           ends == PositionsOf(r, w)
<1>1. From(ends, 0) = ends
  BY PositionsType DEF From
<1>2. EntriesFrom(ends, 0) = Entries(ends)
  BY <1>1 DEF EntriesFrom, Entries
<1>3. LastFrom(starts, ends, 0) = last_entry(starts, ends)
  BY <1>2 DEF LastFrom, last_entry
<1>4. ChosenFrom(starts, ends, 0) = Candidates(starts, ends)
  BY <1>3 DEF ChosenFrom, Candidates
<1>5. InFrontFrom(starts, ends, 0) = {e \in ends : e < last_entry(starts, ends) /\ e \in Entries(ends)}
  BY <1>1, <1>2, <1>3 DEF InFrontFrom
<1>6. GoneFrom(starts, ends, r.size, 0) = unfinished(r, v, w)
  BY <1>4 DEF GoneFrom, unfinished
<1>7. unfinished(r, v, w) - 0 = unfinished(r, v, w)
  BY UnfinishedRange
<1> QED BY <1>5, <1>6, <1>7 DEF CallFrom, unfinished_result

(***************************************************************************)
(* remove_front_unfinished_frames removes and returns what its recursion   *)
(* comes to, for every content of a ring of every capacity: the inner      *)
(* calls behind each endChar end, and the last one decides.                *)
(***************************************************************************)
THEOREM RecursionIsUnderstood == Spec => []UnfinishedIsItsRecursion
<1>1. IInv => UnfinishedIsItsRecursion
  <2> SUFFICES ASSUME IInv, NEW v \in Values, NEW w \in Values
               PROVE  unfinished_calls(cb, v, w)
                        = [gone |-> unfinished(cb, v, w), result |-> unfinished_result(cb, v, w)]
    BY DEF UnfinishedIsItsRecursion
  <2>1. GoodRing(cb)
    BY DEF IInv, TypeOK, StopBehindContent, GoodRing
  <2> QED BY <2>1, CallsAre, FirstCall
<1>2. Spec => []IInv
  BY Consistent, PTL DEF IInv
<1> QED BY <1>1, <1>2, PTL

=============================================================================
