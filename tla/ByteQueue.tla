----------------------------- MODULE ByteQueue ------------------------------
(***************************************************************************)
(* A queue of bytes as a sequence, front first: what a ring of             *)
(* circular_buffer.c stands for, and what its functions do to it.  The     *)
(* module BoundedDeque makes them a state machine, which CircularBuffer    *)
(* implements; AscInput uses them for the input buffer.                    *)
(***************************************************************************)
EXTENDS Naturals, Sequences, FiniteSetsExt

Take(s, n)    == SubSeq(s, 1, n)
Drop(s, n)    == SubSeq(s, n + 1, Len(s))
KeepLast(s, n) == IF Len(s) > n THEN Drop(s, Len(s) - n) ELSE s

Where(s, v) == {i \in 1 .. Len(s) : s[i] = v}

(* Index of the first or last v, counted from 0; the length if there is none. *)
find_first(s, v) == IF Where(s, v) = {} THEN Len(s) ELSE Min(Where(s, v)) - 1
find_last(s, v)  == IF Where(s, v) = {} THEN Len(s) ELSE Max(Where(s, v)) - 1

(* Everything in front of the first v goes, v too if inclusive.            *)
remove_front_to(s, v, inclusive) ==
  IF Where(s, v) = {} THEN <<>>
  ELSE Drop(s, IF inclusive THEN Min(Where(s, v)) ELSE Min(Where(s, v)) - 1)

(* Everything behind the last v goes, v too if inclusive.                  *)
remove_back_to(s, v, inclusive) ==
  IF Where(s, v) = {} THEN <<>>
  ELSE Take(s, IF inclusive THEN Max(Where(s, v)) - 1 ELSE Max(Where(s, v)))

(***************************************************************************)
(* The frame that remove_front_unfinished_frames brings to the front: an   *)
(* endChar completes a frame if a startChar stands between it and the      *)
(* endChar before it.  The frame starts at the last such startChar.  With  *)
(* no complete frame, it is the one begun by the last startChar, if it     *)
(* stands behind every endChar.                                            *)
(***************************************************************************)
Opens(s, b, e, startChar, endChar) ==
  /\ s[b] = startChar
  /\ \A i \in b .. e - 1 : s[i] # endChar

Completes(s, e, startChar, endChar) ==
  /\ s[e] = endChar
  /\ \E b \in 1 .. e - 1 : Opens(s, b, e, startChar, endChar)

FrontFrame(s, startChar, endChar) ==
  LET complete == {e \in 1 .. Len(s) : Completes(s, e, startChar, endChar)}
      e == IF complete = {} THEN Len(s) + 1 ELSE Min(complete)
  IN  {b \in 1 .. e - 1 : Opens(s, b, e, startChar, endChar)}

remove_front_unfinished_frames(s, startChar, endChar) ==
  LET S == FrontFrame(s, startChar, endChar)
  IN  IF S = {} THEN <<>> ELSE Drop(s, Max(S) - 1)

=============================================================================
