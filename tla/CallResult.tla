----------------------------- MODULE CallResult ------------------------------
(***************************************************************************)
(* What a call of a function of circular_buffer.c leaves with its caller:  *)
(* the function, the exception it threw ("none" if it returned), the count *)
(* it returned and the bytes it handed over.                               *)
(***************************************************************************)
EXTENDS Naturals, Sequences

Returned(fn, n, data) == [fn |-> fn, err |-> "none", n |-> n, data |-> data]
Thrown(fn, err)       == [fn |-> fn, err |-> err, n |-> 0, data |-> <<>>]

(* A function of type void.                                                *)
Done(fn) == Returned(fn, 0, <<>>)

FunctionNames ==
  {"init", "push_front", "push_back", "pop_front", "pop_back", "remove_front_to",
   "remove_back_to", "delete_first_block", "pop_front_block", "pop_front_to_fd",
   "push_back_from_fd", "clear", "remove_front_unfinished_frames",
   "push_back_block", "push_back_string"}
ErrorNames == {"none", "CB_POP_EMPTY", "FILE_READ", "FILE_WRITE"}

=============================================================================
