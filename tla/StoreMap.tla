------------------------------ MODULE StoreMap ------------------------------
(***************************************************************************)
(* What the store of src/src/store.h promises its callers: a bounded map   *)
(* from keys to items.  A push picks some key that is not in use; it fails *)
(* exactly when every key is in use.  Nothing but the named key changes.   *)
(***************************************************************************)
EXTENDS Integers

CONSTANTS Capacity, Item, Zero

VARIABLES map,   \* a function from the keys in use to their items
          call,  \* the last call, with its arguments
          ret    \* what it returned

Key == 0 .. Capacity - 1

vars == <<map, call, ret>>

Call(op, i, item) == [op |-> op, i |-> i, item |-> item]

Init ==
  /\ map = [k \in {} |-> Zero]
  /\ call = Call("new", 0, Zero)
  /\ ret = 0

\* A free key, or failure when there is none.
Added(v) ==
  \/ \E k \in Key \ DOMAIN map :
        /\ map' = [j \in DOMAIN map \cup {k} |-> IF j = k THEN v ELSE map[j]]
        /\ ret' = k
  \/ /\ DOMAIN map = Key
     /\ ret' = -1
     /\ UNCHANGED map

Push(v) ==
  /\ call' = Call("push", 0, v)
  /\ Added(v)

PushEmpty ==
  /\ call' = Call("push_empty", 0, Zero)
  /\ Added(Zero)

RemoveAt(i) ==
  /\ call' = Call("remove_at", i, Zero)
  /\ map' = [j \in DOMAIN map \ {i} |-> map[j]]
  /\ ret' = IF i \in DOMAIN map THEN 1 ELSE 0

Replace(i, v) ==
  /\ call' = Call("replace", i, v)
  /\ map' = [j \in DOMAIN map |-> IF j = i THEN v ELSE map[j]]
  /\ ret' = IF i \in DOMAIN map THEN 1 ELSE 0

Reset ==
  /\ call' = Call("reset", 0, Zero)
  /\ map' = [k \in {} |-> Zero]
  /\ UNCHANGED ret

Next ==
  \/ \E v \in Item : Push(v)
  \/ PushEmpty
  \/ \E i \in 0 .. Capacity : RemoveAt(i)
  \/ \E i \in 0 .. Capacity, v \in Item : Replace(i, v)
  \/ Reset

Spec == Init /\ [][Next]_vars
=============================================================================
