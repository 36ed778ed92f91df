------------------------------- MODULE Store --------------------------------
(***************************************************************************)
(* One store of src/src/store.h under every sequence of calls.             *)
(***************************************************************************)
EXTENDS StoreOps, FiniteSets

CONSTANTS Capacity, Item, Zero

ASSUME StoreAssumption ==
  /\ Capacity \in Nat \ {0}
  /\ Zero \in Item

VARIABLES store,  \* the struct
          call,   \* the last call, with its arguments
          ret     \* what it returned

vars == <<store, call, ret>>

Call(op, i, item) == [op |-> op, i |-> i, item |-> item]

CallType == [op : {"new", "push", "push_empty", "remove_at", "replace", "reset"},
             i : 0 .. Capacity, item : Item]

Init ==
  /\ store = store_new(Capacity, Zero)
  /\ call = Call("new", 0, Zero)
  /\ ret = 0

Push(item) ==
  /\ call' = Call("push", 0, item)
  /\ store' = store_push(store, item)
  /\ ret' = get_push_index(store)

PushEmpty ==
  /\ call' = Call("push_empty", 0, Zero)
  /\ store' = store_push_empty(store, Zero)
  /\ ret' = get_push_index(store)

\* An index equal to the capacity is the smallest the bounds check rejects.
RemoveAt(i) ==
  /\ call' = Call("remove_at", i, Zero)
  /\ store' = store_remove_at(store, i)
  /\ ret' = IF i < Capacity /\ store.used[i] THEN 1 ELSE 0

Replace(i, item) ==
  /\ call' = Call("replace", i, item)
  /\ store' = store_replace(store, i, item)
  /\ ret' = IF i < Capacity /\ store.used[i] THEN 1 ELSE 0

Reset ==
  /\ call' = Call("reset", 0, Zero)
  /\ store' = store_reset(store, Zero)
  /\ UNCHANGED ret

Next ==
  \/ \E item \in Item : Push(item)
  \/ PushEmpty
  \/ \E i \in 0 .. Capacity : RemoveAt(i)
  \/ \E i \in 0 .. Capacity, item \in Item : Replace(i, item)
  \/ Reset

Spec == Init /\ [][Next]_vars

-----------------------------------------------------------------------------
\* Every field of the struct stays in its range; in particular open_cnt never
\* passes the capacity, so store_remove_at never writes beyond open[].
TypeOK ==
  /\ store \in StoreType(Capacity, Item)
  /\ call \in CallType
  /\ ret \in -1 .. Capacity

\* The free list of store.h names every unused slot exactly once, however
\* pushes, removals (of used and unused slots) and resets are interleaved.
FreeListSound == FreeListExact(store)

\* store_length counts the items in use.
LengthCounts == store_length(store) = Cardinality(UsedSlots(store))

\* Seen through its used slots the store is the bounded map of StoreMap.
Map == INSTANCE StoreMap WITH
         map <- [k \in UsedSlots(store) |-> store.data[k]]

\* The store implements the bounded map, call by call: a push takes a free key or
\* fails on a full store, and no call disturbs the item of another key.
ImplementsMap == Map!Spec
=============================================================================
