------------------------------ MODULE MCStack -------------------------------
(* A stack of four cells: with three items the fast and the ordered removal *)
(* differ, and three ints reach the capacity in the header.                 *)
EXTENDS Stack
=============================================================================
