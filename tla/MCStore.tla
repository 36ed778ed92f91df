------------------------------ MODULE MCStore -------------------------------
(* A store of three slots and three items, one of them the zeroed item. *)
EXTENDS Store
=============================================================================
