-------------------------- MODULE MCMillisecTimer ---------------------------
(* MillisecTimer with a counter of a few bits.                             *)
EXTENDS MillisecTimer

MCRels == 0 .. Range - 1

=============================================================================
