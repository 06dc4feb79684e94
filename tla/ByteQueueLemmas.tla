-------------------------- MODULE ByteQueueLemmas --------------------------
(***************************************************************************)
(* What the operators of ByteQueue yield, for every queue, and what the    *)
(* proofs need of sequences and of the least and the greatest number of a  *)
(* set.                                                                    *)
(***************************************************************************)
EXTENDS ByteQueue, SequenceTheorems, WellFoundedInduction, TLAPS

(* A function on 1 .. n is a sequence of length n. *)
LEMMA FunctionIsSeq ==
  ASSUME NEW S, NEW n \in Nat, NEW f \in [1 .. n -> S]
  PROVE  f \in Seq(S) /\ Len(f) = n /\ DOMAIN f = 1 .. n
<1>1. f \in Seq(S)
  BY SeqDef
<1>2. Len(f) \in Nat /\ 1 .. Len(f) = 1 .. n
  BY <1>1, LenProperties
<1> QED BY <1>1, <1>2

(* The same, the length being the sequence's own. *)
LEMMA RetypedSeq ==
  ASSUME NEW S, NEW s, Len(s) \in Nat, s \in [1 .. Len(s) -> S]
  PROVE  s \in Seq(S)
  BY FunctionIsSeq

(* A non-empty set of naturals has a least element, and Min is it. *)
LEMMA MinIsLeast ==
  ASSUME NEW S \in SUBSET Nat, S # {}
  PROVE  Min(S) \in S /\ \A j \in S : Min(S) <= j
<1> DEFINE R == {ss \in Nat \X Nat : ss[1] < ss[2]}
<1>1. R = OpToRel(<, Nat)
  BY Zenon DEF OpToRel
<1>2. IsWellFoundedOn(R, Nat)
  BY <1>1, NatLessThanWellFounded
<1> HIDE DEF R
<1>3. PICK k \in S : \A j \in S : ~(<<j, k>> \in R)
  BY <1>2, WFMin, Zenon
<1>4. \A j \in S : k <= j
  <2> SUFFICES ASSUME NEW j \in S, j < k PROVE FALSE
    OBVIOUS
  <2>1. <<j, k>> \in R
    BY DEF R
  <2> QED BY <1>3, <2>1
<1>5. \E i \in S : \A j \in S : i <= j
  BY <1>4
<1> QED BY <1>5, Zenon DEF Min

(* A non-empty bounded set of naturals has a greatest element, and Max is it. *)
LEMMA MaxIsGreatest ==
  ASSUME NEW n \in Nat, NEW S \in SUBSET (0 .. n), S # {}
  PROVE  Max(S) \in S /\ \A j \in S : Max(S) >= j
<1> DEFINE T == {n - i : i \in S}
<1>1. T \in SUBSET Nat /\ T # {}
  <2>1. \A i \in S : n - i \in Nat
    OBVIOUS
  <2> QED BY <2>1
<1>2. Min(T) \in T /\ \A j \in T : Min(T) <= j
  BY <1>1, MinIsLeast
<1>3. PICK k \in S : Min(T) = n - k
  BY <1>2
<1>4. \A j \in S : n - k <= n - j
  BY <1>2, <1>3
<1>5. \E i \in S : \A j \in S : i >= j
  BY <1>4
<1> QED BY <1>5, Zenon DEF Max

----------------------------------------------------------------------------
(* Dropping elements from the front. *)
LEMMA Dropping ==
  ASSUME NEW S, NEW s \in Seq(S), NEW n \in 0 .. Len(s)
  PROVE  /\ Drop(s, n) \in Seq(S)
         /\ Len(Drop(s, n)) = Len(s) - n
         /\ \A i \in 1 .. Len(s) - n : Drop(s, n)[i] = s[n + i]
<1>1. Len(s) \in Nat
  BY LenProperties
<1>2. \A i \in n + 1 .. Len(s) : s[i] \in S
  BY <1>1, ElementOfSeq
<1>3. n \in Int /\ n + 1 \in Int /\ Len(s) \in Int
  BY <1>1
<1>4. /\ SubSeq(s, n + 1, Len(s)) \in Seq(S)
      /\ Len(SubSeq(s, n + 1, Len(s))) = IF n + 1 <= Len(s) THEN Len(s) - (n + 1) + 1 ELSE 0
      /\ \A i \in 1 .. Len(s) - (n + 1) + 1 : SubSeq(s, n + 1, Len(s))[i] = s[n + 1 + i - 1]
  BY <1>2, <1>3, SubSeqProperties
<1>5. Len(Drop(s, n)) = Len(s) - n
  BY <1>3, <1>4 DEF Drop
<1>6. ASSUME NEW i \in 1 .. Len(s) - n PROVE Drop(s, n)[i] = s[n + i]
  <2>1. i \in 1 .. Len(s) - (n + 1) + 1 /\ n + 1 + i - 1 = n + i
    BY <1>3
  <2> QED BY <1>4, <2>1 DEF Drop
<1> QED BY <1>4, <1>5, <1>6 DEF Drop

(* Taking elements from the front. *)
LEMMA Taking ==
  ASSUME NEW S, NEW s \in Seq(S), NEW n \in 0 .. Len(s)
  PROVE  /\ Take(s, n) \in Seq(S)
         /\ Len(Take(s, n)) = n
         /\ \A i \in 1 .. n : Take(s, n)[i] = s[i]
<1>1. Len(s) \in Nat /\ n \in Int
  BY LenProperties
<1>2. \A i \in 1 .. n : s[i] \in S
  BY <1>1, ElementOfSeq
<1>3. /\ SubSeq(s, 1, n) \in Seq(S)
      /\ Len(SubSeq(s, 1, n)) = IF 1 <= n THEN n - 1 + 1 ELSE 0
      /\ \A i \in 1 .. n - 1 + 1 : SubSeq(s, 1, n)[i] = s[1 + i - 1]
  BY <1>1, <1>2, SubSeqProperties
<1> QED BY <1>1, <1>3 DEF Take

(* r is s without its first n elements, or those alone. *)
IsDropped(r, S, s, n) ==
  /\ r \in Seq(S) /\ Len(r) = Len(s) - n
  /\ \A i \in 1 .. Len(s) - n : r[i] = s[n + i]

IsTaken(r, S, s, n) ==
  /\ r \in Seq(S) /\ Len(r) = n
  /\ \A i \in 1 .. n : r[i] = s[i]

(* The two lemmas, in a word. *)
LEMMA DropIs ==
  ASSUME NEW S, NEW s \in Seq(S), NEW n \in 0 .. Len(s)
  PROVE  IsDropped(Drop(s, n), S, s, n)
  BY Dropping DEF IsDropped

(* The same of what is taken. *)
LEMMA TakeIs ==
  ASSUME NEW S, NEW s \in Seq(S), NEW n \in 0 .. Len(s)
  PROVE  IsTaken(Take(s, n), S, s, n)
  BY Taking DEF IsTaken

(* r is the part of s from m to n; the numbers and the elements it needs. *)
IsSpan(r, S, s, m, n) ==
  /\ r \in Seq(S) /\ Len(r) = IF m <= n THEN n - m + 1 ELSE 0
  /\ \A i \in 1 .. n - m + 1 : r[i] = s[m + i - 1]

HasSpan(S, s, m, n) == m \in Int /\ n \in Int /\ \A i \in m .. n : s[i] \in S

(* A part of a sequence, in a word. *)
LEMMA SpanIs ==
  ASSUME NEW S, NEW s, NEW m, NEW n, HasSpan(S, s, m, n)
  PROVE  IsSpan(SubSeq(s, m, n), S, s, m, n)
<1>1. m \in Int /\ n \in Int /\ \A i \in m .. n : s[i] \in S
  BY DEF HasSpan
<1> QED BY <1>1, SubSeqProperties DEF IsSpan

(* r is s followed by t. *)
IsJoined(r, S, s, t) ==
  /\ r \in Seq(S) /\ Len(r) = Len(s) + Len(t)
  /\ \A i \in 1 .. Len(s) + Len(t) : r[i] = IF i <= Len(s) THEN s[i] ELSE t[i - Len(s)]

(* One sequence behind another, in a word. *)
LEMMA JoinIs ==
  ASSUME NEW S, NEW s \in Seq(S), NEW t \in Seq(S)
  PROVE  IsJoined(s \o t, S, s, t)
  BY ConcatProperties DEF IsJoined

(* Dropping any number of bytes leaves a queue that is no longer. *)
LEMMA DropType ==
  ASSUME NEW S, NEW s \in Seq(S), NEW n \in Nat
  PROVE  Drop(s, n) \in Seq(S) /\ Len(Drop(s, n)) \in Nat /\ Len(Drop(s, n)) <= Len(s)
<1>1. Len(s) \in Nat
  BY LenProperties
<1>2. CASE n <= Len(s)
  <2>1. n \in 0 .. Len(s)
    BY <1>1, <1>2
  <2> QED BY <1>1, <2>1, Dropping
<1>3. CASE n > Len(s)
  <2>1. Drop(s, n) = <<>>
    BY <1>1, <1>3, SubSeqEmpty DEF Drop
  <2>2. <<>> \in Seq(S) /\ Len(<<>>) = 0
    BY EmptySeq
  <2> QED BY <1>1, <2>1, <2>2
<1> QED BY <1>1, <1>2, <1>3

(* A queue is what is taken from it, followed by what is left. *)
LEMMA TakeThenDrop ==
  ASSUME NEW S, NEW s \in Seq(S), NEW n \in 0 .. Len(s)
  PROVE  Take(s, n) \o Drop(s, n) = s
<1>1. Len(s) \in Nat
  BY LenProperties
<1>2. 1 \in 1 .. Len(s) + 1 /\ n \in 1 - 1 .. Len(s) /\ Len(s) \in n .. Len(s)
  BY <1>1
<1>3. SubSeq(s, 1, n) \o SubSeq(s, n + 1, Len(s)) = SubSeq(s, 1, Len(s))
  BY <1>2, ConcatAdjacentSubSeq
<1>4. SubSeq(s, 1, Len(s)) = s
  BY SubSeqFull
<1> QED BY <1>3, <1>4 DEF Take, Drop

(* Dropping twice. *)
LEMMA DropDrop ==
  ASSUME NEW S, NEW s \in Seq(S), NEW a \in Nat, NEW b \in Nat, a + b <= Len(s)
  PROVE  Drop(Drop(s, a), b) = Drop(s, a + b)
<1> DEFINE u == Drop(s, a)
           v == Drop(u, b)
           w == Drop(s, a + b)
<1>1. Len(s) \in Nat /\ a \in 0 .. Len(s) /\ a + b \in 0 .. Len(s)
  BY LenProperties
<1>2. u \in Seq(S) /\ Len(u) = Len(s) - a /\ \A i \in 1 .. Len(s) - a : u[i] = s[a + i]
  BY <1>1, Dropping
<1>3. /\ w \in Seq(S) /\ Len(w) = Len(s) - (a + b)
      /\ \A i \in 1 .. Len(s) - (a + b) : w[i] = s[a + b + i]
  BY <1>1, Dropping
<1> HIDE DEF u, w
<1>4. /\ v \in Seq(S) /\ Len(v) = Len(u) - b
      /\ \A i \in 1 .. Len(u) - b : v[i] = u[b + i]
  <2>1. b \in 0 .. Len(u)
    BY <1>1, <1>2
  <2>2. u \in Seq(S)
    BY <1>2
  <2> QED BY <2>1, <2>2, Dropping
<1> HIDE DEF v
<1>5. Len(v) = Len(w)
  BY <1>1, <1>2, <1>3, <1>4
<1>6. ASSUME NEW i \in 1 .. Len(v) PROVE v[i] = w[i]
  <2>1. /\ i \in 1 .. Len(u) - b /\ i \in 1 .. Len(s) - (a + b)
        /\ b + i \in 1 .. Len(s) - a /\ a + (b + i) = a + b + i
    BY <1>1, <1>2, <1>3, <1>4
  <2>2. v[i] = u[b + i] /\ u[b + i] = s[a + (b + i)] /\ w[i] = s[a + b + i]
    BY <1>2, <1>3, <1>4, <2>1
  <2> QED BY <2>1, <2>2
<1>7. v = w
  BY <1>3, <1>4, <1>5, <1>6, SeqEqual
<1> QED BY <1>7 DEF u, v, w

(* Where a value stands. *)
LEMMA WhereType ==
  ASSUME NEW S, NEW s \in Seq(S), NEW v
  PROVE  Where(s, v) \in SUBSET Nat /\ Where(s, v) \in SUBSET (0 .. Len(s)) /\ Len(s) \in Nat
  BY LenProperties DEF Where

(* find_first finds the first, or nothing. *)
LEMMA FirstFound ==
  ASSUME NEW S, NEW s \in Seq(S), NEW v
  PROVE  /\ find_first(s, v) \in 0 .. Len(s)
         /\ find_first(s, v) < Len(s) => s[find_first(s, v) + 1] = v
         /\ \A i \in 1 .. find_first(s, v) : s[i] # v
<1>1. Where(s, v) \in SUBSET Nat /\ Len(s) \in Nat
  BY WhereType
<1>2. CASE Where(s, v) = {}
  BY <1>1, <1>2 DEF find_first, Where
<1>3. CASE Where(s, v) # {}
  <2>1. Min(Where(s, v)) \in Where(s, v) /\ \A j \in Where(s, v) : Min(Where(s, v)) <= j
    BY <1>1, <1>3, MinIsLeast
  <2> DEFINE m == Min(Where(s, v))
  <2>2. m \in 1 .. Len(s) /\ s[m] = v
    BY <2>1 DEF Where
  <2>3. find_first(s, v) = m - 1
    BY <1>3 DEF find_first
  <2>4. ASSUME NEW i \in 1 .. m - 1, s[i] = v PROVE FALSE
    <3>1. i \in Where(s, v)
      BY <1>1, <2>2, <2>4 DEF Where
    <3>2. m <= i
      BY <2>1, <3>1
    <3> QED BY <1>1, <2>2, <3>2
  <2> HIDE DEF m
  <2>5. m - 1 \in 0 .. Len(s) /\ m - 1 + 1 = m
    BY <1>1, <2>2
  <2> QED BY <2>2, <2>3, <2>4, <2>5
<1> QED BY <1>2, <1>3

(* The first is what find_first finds. *)
LEMMA FirstIs ==
  ASSUME NEW S, NEW s \in Seq(S), NEW v, NEW f \in 0 .. Len(s) - 1,
         s[f + 1] = v, \A i \in 1 .. f : s[i] # v
  PROVE  find_first(s, v) = f
<1>1. /\ find_first(s, v) \in 0 .. Len(s)
      /\ find_first(s, v) < Len(s) => s[find_first(s, v) + 1] = v
      /\ \A i \in 1 .. find_first(s, v) : s[i] # v
  BY FirstFound
<1>2. Len(s) \in Nat
  BY LenProperties
<1> QED BY <1>1, <1>2

(* The first v of s is behind f others. *)
IsFirst(s, v, f) == f \in 0 .. Len(s) - 1 /\ s[f + 1] = v /\ \A i \in 1 .. f : s[i] # v

(* The lemma, in a word. *)
LEMMA FoundIs ==
  ASSUME NEW S, NEW s \in Seq(S), NEW v, NEW f, IsFirst(s, v, f)
  PROVE  find_first(s, v) = f
<1>1. f \in 0 .. Len(s) - 1 /\ s[f + 1] = v /\ \A i \in 1 .. f : s[i] # v
  BY DEF IsFirst
<1> QED BY <1>1, FirstIs

(* The last is what find_last finds. *)
LEMMA LastIs ==
  ASSUME NEW S, NEW s \in Seq(S), NEW v, NEW f \in 0 .. Len(s) - 1,
         s[f + 1] = v, \A i \in f + 2 .. Len(s) : s[i] # v
  PROVE  find_last(s, v) = f
<1>1. /\ Where(s, v) \in SUBSET (0 .. Len(s)) /\ Len(s) \in Nat
  BY WhereType
<1>2. f + 1 \in Where(s, v)
  BY <1>1 DEF Where
<1>3. Max(Where(s, v)) \in Where(s, v) /\ \A j \in Where(s, v) : Max(Where(s, v)) >= j
  BY <1>1, <1>2, MaxIsGreatest
<1>4. Max(Where(s, v)) = f + 1
  BY <1>1, <1>2, <1>3 DEF Where
<1> QED BY <1>2, <1>4 DEF find_last

(* find_last yields an index, or the length. *)
LEMMA LastType ==
  ASSUME NEW S, NEW s \in Seq(S), NEW v
  PROVE  find_last(s, v) \in 0 .. Len(s)
<1>1. Where(s, v) \in SUBSET (0 .. Len(s)) /\ Len(s) \in Nat
  BY WhereType
<1>2. CASE Where(s, v) = {}
  BY <1>1, <1>2 DEF find_last
<1>3. CASE Where(s, v) # {}
  <2> DEFINE m == Max(Where(s, v))
  <2>1. m \in Where(s, v)
    BY <1>1, <1>3, MaxIsGreatest
  <2>2. m \in 1 .. Len(s)
    BY <2>1 DEF Where
  <2>3. find_last(s, v) = m - 1
    BY <1>3 DEF find_last
  <2> HIDE DEF m
  <2> QED BY <1>1, <2>2, <2>3
<1> QED BY <1>2, <1>3

(* What stays of a queue in a ring for n elements: its last n. *)
LEMMA Keeping ==
  ASSUME NEW S, NEW s \in Seq(S), NEW n \in Nat
  PROVE  /\ KeepLast(s, n) \in Seq(S)
         /\ Len(KeepLast(s, n)) = IF Len(s) > n THEN n ELSE Len(s)
         /\ \A i \in 1 .. Len(KeepLast(s, n)) :
               KeepLast(s, n)[i] = s[Len(s) - Len(KeepLast(s, n)) + i]
<1>1. Len(s) \in Nat
  BY LenProperties
<1>2. CASE Len(s) > n
  <2> DEFINE k == Len(s) - n
             r == Drop(s, k)
  <2>1. k \in 0 .. Len(s) /\ Len(s) - k = n
    BY <1>1, <1>2
  <2>2. KeepLast(s, n) = r
    BY <1>2 DEF KeepLast
  <2> HIDE DEF k
  <2>3. r \in Seq(S) /\ Len(r) = Len(s) - k /\ \A i \in 1 .. Len(s) - k : r[i] = s[k + i]
    BY <2>1, Dropping
  <2> HIDE DEF r
  <2>4. Len(r) = n /\ Len(s) - Len(r) = k
    BY <1>1, <2>1, <2>3
  <2> QED BY <1>2, <2>2, <2>3, <2>4
<1>3. CASE ~(Len(s) > n)
  <2>1. KeepLast(s, n) = s
    BY <1>3 DEF KeepLast
  <2>2. \A i \in 1 .. Len(s) : Len(s) - Len(s) + i = i
    BY <1>1
  <2> QED BY <1>3, <2>1, <2>2
<1> QED BY <1>2, <1>3

(***************************************************************************)
(* What remove_front_unfinished_frames leaves, if there is an endChar in   *)
(* it, begins with a startChar and has no other before the endChar.        *)
(***************************************************************************)
LEMMA Synchronising ==
  ASSUME NEW S, NEW s \in Seq(S), NEW startChar, NEW endChar, startChar # endChar,
         LET r == remove_front_unfinished_frames(s, startChar, endChar)
         IN  find_first(r, endChar) < Len(r)
  PROVE  \E n \in 0 .. Len(s) - 1 :
           LET r == remove_front_unfinished_frames(s, startChar, endChar)
           IN  /\ r = Drop(s, n)
               /\ r[1] = startChar
               /\ \A i \in 2 .. find_first(r, endChar) : r[i] # startChar
<1> DEFINE r == remove_front_unfinished_frames(s, startChar, endChar)
           complete == {e \in 1 .. Len(s) : Completes(s, e, startChar, endChar)}
           e == IF complete = {} THEN Len(s) + 1 ELSE Min(complete)
           F == {b \in 1 .. e - 1 : Opens(s, b, e, startChar, endChar)}
           b == Max(F)
<1>1. Len(s) \in Nat
  BY LenProperties
<1>2. complete \in SUBSET Nat
  BY <1>1
<1>3. /\ complete = {} => e = Len(s) + 1
      /\ complete # {} => e \in complete
  BY <1>2, MinIsLeast
<1>4. e \in 1 .. Len(s) + 1
  BY <1>1, <1>3
<1>5. F = FrontFrame(s, startChar, endChar)
  BY DEF FrontFrame
<1>6. r = IF F = {} THEN <<>> ELSE Drop(s, b - 1)
  BY <1>5 DEF remove_front_unfinished_frames
<1>7. F # {}
  <2>1. SUFFICES ASSUME F = {} PROVE FALSE
    OBVIOUS
  <2>2. r = <<>>
    BY <1>6, <2>1
  <2>3. <<>> \in Seq(S) /\ Len(<<>>) = 0
    BY EmptySeq
  <2>4. find_first(<<>>, endChar) \in 0 .. Len(<<>>)
    BY <2>3, FirstFound
  <2> QED BY <2>2, <2>3, <2>4
<1>8. F \in SUBSET (0 .. Len(s))
  <2> HIDE DEF e
  <2> QED BY <1>1, <1>4
<1>9. b \in F /\ \A j \in F : b >= j
  <2> HIDE DEF F
  <2> QED BY <1>1, <1>7, <1>8, MaxIsGreatest
<1>10. /\ b \in 1 .. Len(s) /\ b <= e - 1
       /\ s[b] = startChar
       /\ \A i \in b .. e - 1 : s[i] # endChar
  <2> HIDE DEF e, b
  <2> QED BY <1>1, <1>4, <1>9 DEF Opens
<1> HIDE DEF e, b, F, complete
<1>11. /\ r \in Seq(S)
       /\ Len(r) = Len(s) - (b - 1)
       /\ \A i \in 1 .. Len(s) - (b - 1) : r[i] = s[b - 1 + i]
       /\ r = Drop(s, b - 1)
  <2>1. b - 1 \in 0 .. Len(s)
    BY <1>1, <1>10
  <2>2. r = Drop(s, b - 1)
    BY <1>6, <1>7
  <2>3. IsDropped(Drop(s, b - 1), S, s, b - 1)
    BY <2>1, DropIs
  <2> HIDE DEF r
  <2> QED BY <2>2, <2>3 DEF IsDropped
<1> HIDE DEF r
<1>12. /\ find_first(r, endChar) \in 0 .. Len(r) - 1
       /\ r[find_first(r, endChar) + 1] = endChar
       /\ \A i \in 1 .. find_first(r, endChar) : r[i] # endChar
  <2>1. find_first(r, endChar) < Len(r)
    BY DEF r
  <2>2. /\ find_first(r, endChar) \in 0 .. Len(r)
        /\ find_first(r, endChar) < Len(r) => r[find_first(r, endChar) + 1] = endChar
        /\ \A i \in 1 .. find_first(r, endChar) : r[i] # endChar
    BY <1>11, FirstFound
  <2> QED BY <1>1, <1>10, <1>11, <2>1, <2>2
<1> DEFINE f == find_first(r, endChar)
<1> HIDE DEF f
<1>13. complete # {}
  <2> SUFFICES ASSUME complete = {} PROVE FALSE
    OBVIOUS
  <2>1. e = Len(s) + 1
    BY <1>3
  <2>2. f \in 0 .. Len(s) - b /\ r[f + 1] = endChar
    BY <1>1, <1>10, <1>11, <1>12 DEF f
  <2>3. f + 1 \in 1 .. Len(s) - (b - 1) /\ b - 1 + (f + 1) = b + f
    BY <1>1, <1>10, <2>2
  <2>4. s[b + f] = endChar
    BY <1>11, <2>2, <2>3
  <2>5. b + f \in b .. e - 1
    BY <1>1, <1>10, <2>1, <2>2
  <2> QED BY <1>10, <2>4, <2>5
<1>14. s[e] = endChar /\ e \in 1 .. Len(s)
  BY <1>3, <1>13 DEF complete, Completes
<1>15. e - b = f
  <2>1. e - b \in 1 .. Len(s) - b /\ e - b \in 0 .. Len(r) - 1
    BY <1>1, <1>10, <1>11, <1>14
  <2>2. r[e - b + 1] = endChar
    <3>1. e - b + 1 \in 1 .. Len(s) - (b - 1) /\ b - 1 + (e - b + 1) = e
      BY <1>1, <1>10, <1>14, <2>1
    <3> QED BY <1>11, <1>14, <3>1
  <2>3. ASSUME NEW i \in 1 .. e - b PROVE r[i] # endChar
    <3>1. i \in 1 .. Len(s) - (b - 1) /\ b - 1 + i \in b .. e - 1
      BY <1>1, <1>10, <1>14, <2>1
    <3>2. r[i] = s[b - 1 + i]
      BY <1>11, <3>1
    <3> QED BY <1>10, <3>1, <3>2
  <2>4. IsFirst(r, endChar, e - b)
    BY <2>1, <2>2, <2>3 DEF IsFirst
  <2> QED BY <1>11, <2>4, FoundIs DEF f
<1>16. ASSUME NEW i \in 2 .. f, r[i] = startChar PROVE FALSE
  <2> DEFINE j == b - 1 + i
  <2>1. i \in 1 .. Len(s) - (b - 1) /\ j \in b + 1 .. e - 1
    BY <1>1, <1>10, <1>14, <1>15
  <2>2. s[j] = startChar
    BY <1>11, <1>16, <2>1
  <2> HIDE DEF j
  <2>3. j \in 1 .. e - 1 /\ \A k \in j .. e - 1 : s[k] # endChar
    BY <1>10, <1>14, <2>1
  <2>4. j \in F
    BY <2>2, <2>3 DEF F, Opens
  <2> QED BY <1>9, <1>10, <1>14, <2>1, <2>4
<1>17. r[1] = startChar
  <2>1. 1 \in 1 .. Len(s) - (b - 1) /\ b - 1 + 1 = b
    BY <1>1, <1>10
  <2>2. r[1] = s[b - 1 + 1]
    BY <1>11, <2>1
  <2> QED BY <1>10, <2>1, <2>2
<1> QED
  <2>1. b - 1 \in 0 .. Len(s) - 1
    BY <1>1, <1>10
  <2> QED BY <1>11, <1>16, <1>17, <2>1 DEF r, f

=============================================================================
