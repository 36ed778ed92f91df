---------------------------- MODULE StoreProofs -----------------------------
(***************************************************************************)
(* The invariants of the store and its refinement of the bounded map, for  *)
(* every capacity and every set of items.                                  *)
(***************************************************************************)
EXTENDS Store, StructureLemmas

\* The inductive invariant.  Type correctness alone is not inductive: that
\* open_cnt stays within the capacity follows from the exact free list.
Inv == TypeOK /\ FreeListSound

\* The invariant makes the store sound in the sense of the store lemmas.
LEMMA InvSound == Inv => Sound(store, Capacity, Item) /\ store.capacity = Capacity
BY DEF Inv, TypeOK, FreeListSound, Sound, StoreType

\* What the proofs use of the assumption on the constants.
LEMMA Constants == Capacity \in Nat /\ Zero \in Item
BY StoreAssumption

\* What get_push_index returns is a legal result.
LEMMA PushResult ==
  ASSUME Inv
  PROVE  get_push_index(store) \in -1 .. Capacity
BY InvSound, StoreAssumption, PushIndex DEF NoKey, Slot

\* store_replace rewrites one item of a used slot and nothing else.
LEMMA ReplaceEffect ==
  ASSUME Inv, NEW i \in 0 .. Capacity, NEW item \in Item
  PROVE  /\ i \in UsedSlots(store) => store_replace(store, i, item) = written(store, i, item)
         /\ i \notin UsedSlots(store) => store_replace(store, i, item) = store
BY StoreAssumption DEF store_replace, written, UsedSlots, Slot, Inv, TypeOK, StoreType

\* store_new establishes the invariant.
LEMMA InitInv == Init => Inv
<1> SUFFICES ASSUME Init PROVE Inv
  OBVIOUS
<1>1. Sound(store, Capacity, Item)
  BY StoreAssumption, NewSound DEF Init
<1>2. ret \in -1 .. Capacity
  BY StoreAssumption DEF Init
<1>3. call \in CallType
  BY StoreAssumption DEF Init, Call, CallType
<1> QED  BY <1>1, <1>2, <1>3 DEF Inv, TypeOK, FreeListSound, Sound

\* Every call is recorded with arguments of its range.
LEMMA CallTyped == Inv /\ [Next]_vars => call' \in CallType
<1> SUFFICES ASSUME Inv, [Next]_vars PROVE call' \in CallType
  OBVIOUS
<1> USE StoreAssumption DEF Call, CallType
<1>1. CASE \E item \in Item : Push(item)
  BY <1>1 DEF Push
<1>2. CASE PushEmpty \/ Reset
  BY <1>2 DEF PushEmpty, Reset
<1>3. CASE \E i \in 0 .. Capacity : RemoveAt(i)
  BY <1>3 DEF RemoveAt
<1>4. CASE \E i \in 0 .. Capacity, item \in Item : Replace(i, item)
  BY <1>4 DEF Replace
<1>5. CASE UNCHANGED vars
  BY <1>5 DEF vars, Inv, TypeOK
<1> QED  BY <1>1, <1>2, <1>3, <1>4, <1>5 DEF Next

\* Every call of store.h keeps the invariant.
LEMMA NextInv == Inv /\ [Next]_vars => Inv'
<1> SUFFICES ASSUME Inv, [Next]_vars
             PROVE  Sound(store, Capacity, Item)' /\ ret' \in -1 .. Capacity
  BY CallTyped DEF Inv, TypeOK, FreeListSound, Sound
<1> USE InvSound, Constants
<1>1. ASSUME NEW item \in Item, Push(item)
      PROVE  Sound(store, Capacity, Item)' /\ ret' \in -1 .. Capacity
  BY <1>1, PushSound, PushResult DEF Push
<1>2. CASE PushEmpty
  BY <1>2, PushSound, PushResult DEF PushEmpty, store_push_empty
<1>3. ASSUME NEW i \in 0 .. Capacity, RemoveAt(i)
      PROVE  Sound(store, Capacity, Item)' /\ ret' \in -1 .. Capacity
  BY <1>3, RemoveSound DEF RemoveAt
<1>4. ASSUME NEW i \in 0 .. Capacity, NEW item \in Item, Replace(i, item)
      PROVE  Sound(store, Capacity, Item)' /\ ret' \in -1 .. Capacity
  <2>1. store' = store_replace(store, i, item) /\ ret' \in -1 .. Capacity
    BY <1>4 DEF Replace
  <2>2. CASE i \in UsedSlots(store)
    <3>1. i \in Slot(Capacity)
      BY <2>2 DEF UsedSlots, Inv, TypeOK, StoreType
    <3>2. store' = written(store, i, item)
      BY <2>1, <2>2, ReplaceEffect
    <3> QED  BY <2>1, <3>1, <3>2, WrittenSound
  <2>3. CASE i \notin UsedSlots(store)
    BY <2>1, <2>3, ReplaceEffect
  <2> QED  BY <2>2, <2>3
<1>5. CASE Reset
  <2>1. store' = store_new(Capacity, Zero) /\ ret' = ret
    BY <1>5 DEF Reset, store_reset, Inv, TypeOK, StoreType
  <2> QED  BY <2>1, NewSound DEF Inv, TypeOK
<1>6. CASE UNCHANGED vars
  BY <1>6 DEF vars, Inv, TypeOK
<1> QED  BY <1>1, <1>2, <1>3, <1>4, <1>5, <1>6 DEF Next

\* Every field of struct Store stays in its range under every sequence of
\* calls; in particular store_remove_at never writes beyond open[].
THEOREM TypeCorrect == Spec => []TypeOK
<1>1. Inv => TypeOK
  BY DEF Inv
<1> QED  BY InitInv, NextInv, <1>1, PTL DEF Spec

\* The free list names every unused slot exactly once, always.
THEOREM FreeListAlwaysSound == Spec => []FreeListSound
<1>1. Inv => FreeListSound
  BY DEF Inv
<1> QED  BY InitInv, NextInv, <1>1, PTL DEF Spec

\* store_length always returns the number of items in use.
THEOREM LengthAlwaysCounts == Spec => []LengthCounts
<1>1. Inv => LengthCounts
  BY InvSound, StoreAssumption, LengthExact
     DEF LengthCounts, store_length, Inv, TypeOK, StoreType
<1> QED  BY InitInv, NextInv, <1>1, PTL DEF Spec

-----------------------------------------------------------------------------
\* The refinement mapping: the store as a map from its used slots.
view == [k \in UsedSlots(store) |-> store.data[k]]

\* A new store is the empty map.
LEMMA InitRefines == Init => Map!Init
<1> SUFFICES ASSUME Init PROVE Map!Init
  OBVIOUS
<1>1. UsedSlots(store) = {}
  BY DEF Init, store_new, UsedSlots, Slot
<1> QED  BY <1>1 DEF Init, Call, Map!Init, Map!Call

\* A push that finds room takes a free key and keeps every other item.
LEMMA PushRefines ==
  ASSUME Inv, NEW item \in Item,
         store' = store_push(store, item), ret' = get_push_index(store)
  PROVE  Map!Added(item)
<1> DEFINE idx == get_push_index(store)
<1> USE InvSound, Constants
<1>1. UsedSlots(store) \subseteq Slot(Capacity) /\ store.data \in [Slot(Capacity) -> Item]
  BY DEF UsedSlots, Inv, TypeOK, StoreType
<1>2. Map!Key = Slot(Capacity)
  BY DEF Map!Key, Slot
<1>3. CASE idx = NoKey
  <2>1. UsedSlots(store) = Slot(Capacity)
    BY <1>3, PushIndex DEF NoKey, Slot
  <2>2. store' = store
    BY <1>3 DEF store_push, NoKey
  <2> QED  BY <1>2, <1>3, <2>1, <2>2 DEF Map!Added, NoKey
<1>4. CASE idx # NoKey
  <2>1. /\ idx \in Slot(Capacity) \ UsedSlots(store)
        /\ store'.data = [store.data EXCEPT ![idx] = item]
        /\ UsedSlots(store') = UsedSlots(store) \cup {idx}
    <3>1. idx \in Slot(Capacity) /\ IsPush(store, store', idx, item)
      BY <1>4, PushEffect
    <3> QED  BY <3>1 DEF IsPush
  <2>2. idx \in Map!Key \ DOMAIN view
    BY <1>2, <2>1 DEF view
  <2>3. view' = [j \in DOMAIN view \cup {idx} |-> IF j = idx THEN item ELSE view[j]]
    BY <1>1, <2>1 DEF view
  <2> QED  BY <2>2, <2>3 DEF Map!Added, view
<1> QED  BY <1>3, <1>4

\* store_remove_at removes its key, and nothing if the key is not in use.
LEMMA RemoveRefines ==
  ASSUME Inv, NEW i \in 0 .. Capacity, RemoveAt(i)
  PROVE  Map!RemoveAt(i)
<1> USE InvSound, Constants
<1>1. store' = store_remove_at(store, i)
  BY DEF RemoveAt
<1>2. (i < Capacity /\ store.used[i]) <=> i \in UsedSlots(store)
  BY DEF UsedSlots, Slot
<1>3. ret' = IF i \in DOMAIN view THEN 1 ELSE 0
  BY <1>2 DEF RemoveAt, view
<1>4. view' = [j \in DOMAIN view \ {i} |-> view[j]]
  <2>1. CASE i \in UsedSlots(store)
    <3>1. store'.data = store.data /\ UsedSlots(store') = UsedSlots(store) \ {i}
      <4>1. IsRemove(store, store', i)
        BY <1>1, <2>1, RemoveEffect
      <4> QED  BY <4>1 DEF IsRemove
    <3> QED  BY <3>1 DEF view
  <2>2. CASE i \notin UsedSlots(store)
    <3>1. store' = store
      BY <1>1, <2>2, RemoveUnused
    <3> QED  BY <2>2, <3>1 DEF view
  <2> QED  BY <2>1, <2>2
<1> QED  BY <1>3, <1>4 DEF RemoveAt, Call, Map!RemoveAt, Map!Call, view

\* store_replace rewrites the item of its key, and nothing if it is not in use.
LEMMA ReplaceRefines ==
  ASSUME Inv, NEW i \in 0 .. Capacity, NEW item \in Item, Replace(i, item)
  PROVE  Map!Replace(i, item)
<1> USE InvSound, Constants
<1>1. store' = store_replace(store, i, item)
  BY DEF Replace
<1>2. (i < Capacity /\ store.used[i]) <=> i \in UsedSlots(store)
  BY DEF UsedSlots, Slot
<1>3. ret' = IF i \in DOMAIN view THEN 1 ELSE 0
  BY <1>2 DEF Replace, view
<1>4. view' = [j \in DOMAIN view |-> IF j = i THEN item ELSE view[j]]
  <2>1. CASE i \in UsedSlots(store)
    <3>1. i \in Slot(Capacity) /\ UsedSlots(store) \subseteq Slot(Capacity)
      BY <2>1 DEF UsedSlots, Inv, TypeOK, StoreType
    <3>2. store' = written(store, i, item)
      BY <1>1, <2>1, ReplaceEffect
    <3>3. IsWrite(store, store', i, item)
      BY <3>1, <3>2, WrittenSound
    <3>4. store'.data = [store.data EXCEPT ![i] = item] /\ UsedSlots(store') = UsedSlots(store)
      BY <3>3 DEF IsWrite
    <3>5. store.data \in [Slot(Capacity) -> Item]
      BY DEF Inv, TypeOK, StoreType
    <3> QED  BY <3>1, <3>4, <3>5 DEF view
  <2>2. CASE i \notin UsedSlots(store)
    <3>1. store' = store
      BY <1>1, <2>2, ReplaceEffect
    <3> QED  BY <2>2, <3>1 DEF view
  <2> QED  BY <2>1, <2>2
<1> QED  BY <1>3, <1>4 DEF Replace, Call, Map!Replace, Map!Call, view

\* Every call is a call on the map.
LEMMA NextRefines == Inv /\ [Next]_vars => [Map!Next]_(Map!vars)
<1> SUFFICES ASSUME Inv, [Next]_vars
             PROVE  Map!Next \/ UNCHANGED Map!vars
  OBVIOUS
<1>1. ASSUME NEW item \in Item, Push(item) PROVE Map!Next
  BY <1>1, PushRefines DEF Push, Call, Map!Next, Map!Push, Map!Call
<1>2. CASE PushEmpty
  BY <1>2, PushRefines, StoreAssumption
     DEF PushEmpty, store_push_empty, Call, Map!Next, Map!PushEmpty, Map!Call
<1>3. ASSUME NEW i \in 0 .. Capacity, RemoveAt(i) PROVE Map!Next
  BY <1>3, RemoveRefines DEF Map!Next
<1>4. ASSUME NEW i \in 0 .. Capacity, NEW item \in Item, Replace(i, item) PROVE Map!Next
  BY <1>4, ReplaceRefines DEF Map!Next
<1>5. CASE Reset
  <2>1. store' = store_new(Capacity, Zero) /\ ret' = ret
    BY <1>5 DEF Reset, store_reset, Inv, TypeOK, StoreType
  <2>2. UsedSlots(store') = {}
    BY <2>1 DEF store_new, UsedSlots, Slot
  <2>3. Map!Reset
    BY <1>5, <2>1, <2>2 DEF Reset, Call, Map!Reset, Map!Call
  <2> QED  BY <2>3 DEF Map!Next
<1>6. CASE UNCHANGED vars
  BY <1>6 DEF vars, Map!vars, UsedSlots
<1> QED  BY <1>1, <1>2, <1>3, <1>4, <1>5, <1>6 DEF Next

\* The store implements the bounded map of StoreMap: whatever the sequence of
\* calls, no call disturbs the item of another key.
THEOREM Refinement == Spec => ImplementsMap
<1>1. Spec => []Inv
  BY InitInv, NextInv, PTL DEF Spec
<1> QED  BY <1>1, InitRefines, NextRefines, PTL DEF Spec, ImplementsMap, Map!Spec
=============================================================================
