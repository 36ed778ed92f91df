------------------------------ MODULE StackOps ------------------------------
(***************************************************************************)
(* What the operations of src/src/stack.h that the server uses on its      *)
(* stack of client sockets do to the sequence of the stack's items.        *)
(* Indices are the 0-based ones of the code.  Stack shows that the code's  *)
(* array does the same.                                                    *)
(***************************************************************************)
EXTENDS Integers, Sequences

stack_push(s, capacity, item) ==
  IF Len(s) >= capacity THEN s ELSE Append(s, item)

stack_get(s, i) == s[i + 1]

\* The last item moves into the hole, so the order is not kept.
stack_remove_at_fast(s, i) ==
  IF i >= Len(s) THEN s
  ELSE SubSeq([s EXCEPT ![i + 1] = s[Len(s)]], 1, Len(s) - 1)
=============================================================================
