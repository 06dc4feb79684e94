-------------------------- MODULE MCCircularBuffer ---------------------------
(* CircularBuffer on a ring of four bytes and three byte values.           *)
EXTENDS CircularBuffer

CONSTANTS at, gt, nl

MCValues == {at, gt, nl}

(* Empty, and longer than the ring. *)
MCSources == { <<>>, <<gt, at, nl, gt, nl>> }

=============================================================================
