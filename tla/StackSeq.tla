------------------------------ MODULE StackSeq ------------------------------
(***************************************************************************)
(* What stack.h promises: a bounded sequence of items, with the operators  *)
(* that the model of the server uses for its client stack.                 *)
(***************************************************************************)
EXTENDS StackOps

CONSTANTS Capacity, Item, Zero, NULL

VARIABLES items,  \* the items, oldest first
          call,   \* the last call, with its arguments
          ret     \* what it returned

vars == <<items, call, ret>>

Call(op, i, x) == [op |-> op, i |-> i, x |-> x]

InBounds(i) == i \in 0 .. Len(items) - 1

Init ==
  /\ items = <<>>
  /\ call = Call("new", 0, Zero)
  /\ ret = 0

Added(x) ==
  /\ items' = stack_push(items, Capacity, x)
  /\ ret' = IF Len(items) = Capacity THEN -1 ELSE Len(items)

Push(x) == call' = Call("push", 0, x) /\ Added(x)

PushNew == call' = Call("push_new", 0, Zero) /\ Added(Zero)

Pop ==
  /\ call' = Call("pop", 0, Zero)
  /\ IF items = <<>> THEN ret' = NULL /\ UNCHANGED items
     ELSE ret' = items[Len(items)] /\ items' = SubSeq(items, 1, Len(items) - 1)

Get(i) ==
  /\ call' = Call("get", i, Zero)
  /\ ret' = IF InBounds(i) THEN stack_get(items, i) ELSE NULL
  /\ UNCHANGED items

\* The order is kept.
RemoveAt(i) ==
  /\ call' = Call("remove_at", i, Zero)
  /\ IF InBounds(i)
     THEN ret' = 1 /\ items' = SubSeq(items, 1, i) \o SubSeq(items, i + 2, Len(items))
     ELSE ret' = 0 /\ UNCHANGED items

RemoveAtFast(i) ==
  /\ call' = Call("remove_at_fast", i, Zero)
  /\ IF InBounds(i)
     THEN ret' = 1 /\ items' = stack_remove_at_fast(items, i)
     ELSE ret' = 0 /\ UNCHANGED items

Reset ==
  /\ call' = Call("reset", 0, Zero)
  /\ items' = <<>>
  /\ ret' = 1

Next ==
  \/ \E x \in Item : Push(x)
  \/ PushNew \/ Pop
  \/ \E i \in -1 .. Capacity : Get(i) \/ RemoveAt(i) \/ RemoveAtFast(i)
  \/ Reset

Spec == Init /\ [][Next]_vars
=============================================================================
