-------------------------- MODULE StructureLemmas ---------------------------
(***************************************************************************)
(* What the operations of the slot store and of the stack preserve, for    *)
(* every capacity and every set of items, and facts about numbers and      *)
(* sequences that the proofs of several components need.                   *)
(***************************************************************************)
EXTENDS StoreOps, StackOps, FiniteSetTheorems, SequenceTheorems, TLAPS

\* A store whose fields are in range and whose free list is exact.
Sound(s, capacity, Item) ==
  /\ s \in StoreType(capacity, Item)
  /\ FreeListExact(s)

\* The store t is s with item pushed into slot k.
IsPush(s, t, k, item) ==
  /\ k \notin UsedSlots(s)
  /\ t.open_cnt = s.open_cnt - 1
  /\ t.open = s.open
  /\ t.used = [s.used EXCEPT ![k] = TRUE]
  /\ t.data = [s.data EXCEPT ![k] = item]
  /\ UsedSlots(t) = UsedSlots(s) \cup {k}

\* The store t is s with slot i given back; the item stays behind.
IsRemove(s, t, i) ==
  /\ t.open_cnt = s.open_cnt + 1
  /\ t.open = [s.open EXCEPT ![s.open_cnt] = i]
  /\ t.used = [s.used EXCEPT ![i] = FALSE]
  /\ t.data = s.data
  /\ UsedSlots(t) = UsedSlots(s) \ {i}

\* The store t is s with item written into slot i.
IsWrite(s, t, i, item) ==
  /\ t.open_cnt = s.open_cnt
  /\ t.used = s.used
  /\ t.data = [s.data EXCEPT ![i] = item]
  /\ UsedSlots(t) = UsedSlots(s)

\* store_new of store.h: every slot is unused and named once by `open`.
LEMMA NewSound ==
  ASSUME NEW capacity \in Nat, NEW Item, NEW zero \in Item
  PROVE  Sound(store_new(capacity, zero), capacity, Item)
<1> DEFINE s == store_new(capacity, zero)
<1>1. s \in StoreType(capacity, Item)
  BY DEF store_new, reset_open, StoreType, Slot
<1>2. \A j, k \in 0 .. s.open_cnt - 1 : s.open[j] = s.open[k] => j = k
  BY DEF store_new, reset_open, Slot
<1>3. ASSUME NEW i \in Slot(s.capacity)
      PROVE  \E k \in 0 .. s.open_cnt - 1 : s.open[k] = i
  <2>1. (capacity - 1) - i \in 0 .. s.open_cnt - 1
    BY DEF store_new, Slot
  <2>2. s.open[(capacity - 1) - i] = i
    BY DEF store_new, reset_open, Slot
  <2> QED  BY <2>1, <2>2
<1>4. \A i \in Slot(s.capacity) : ~ s.used[i]
  BY DEF store_new, Slot
<1> QED  BY <1>1, <1>2, <1>3, <1>4 DEF Sound, FreeListExact

\* There are n indices below n.
LEMMA CountBelow ==
  ASSUME NEW n \in Nat
  PROVE  IsFiniteSet(0 .. n - 1) /\ Cardinality(0 .. n - 1) = n
<1>1. 0 \in Int /\ n - 1 \in Int
  OBVIOUS
<1>2. /\ IsFiniteSet(0 .. n - 1)
      /\ Cardinality(0 .. n - 1) = IF 0 > n - 1 THEN 0 ELSE (n - 1) - 0 + 1
  BY <1>1, FS_Interval
<1> QED  BY <1>2

\* The free list counts: store_length of store.h is the number of used slots.
LEMMA LengthExact ==
  ASSUME NEW capacity \in Nat, NEW Item, NEW s, Sound(s, capacity, Item)
  PROVE  /\ IsFiniteSet(UsedSlots(s))
         /\ Cardinality(UsedSlots(s)) = capacity - s.open_cnt
<1> DEFINE live == 0 .. s.open_cnt - 1
           free == Slot(capacity) \ UsedSlots(s)
           f == [k \in live |-> s.open[k]]
<1>1. /\ s.capacity = capacity
      /\ s.open_cnt \in 0 .. capacity
      /\ s.open \in [Slot(capacity) -> Slot(capacity)]
  BY DEF Sound, StoreType
<1>2. IsFiniteSet(live) /\ Cardinality(live) = s.open_cnt
  BY <1>1, CountBelow
<1>3. IsFiniteSet(Slot(capacity)) /\ Cardinality(Slot(capacity)) = capacity
  BY CountBelow DEF Slot
<1>4. f \in Bijection(live, free)
  <2>1. f \in [live -> free]
    <3>1. \A k \in live : k \in Slot(capacity)
      BY <1>1 DEF Slot
    <3>2. \A k \in live : s.open[k] \in Slot(capacity) /\ ~ s.used[s.open[k]]
      BY <1>1, <3>1 DEF Sound, FreeListExact
    <3> QED  BY <3>2, <1>1 DEF UsedSlots
  <2>2. \A j, k \in live : f[j] = f[k] => j = k
    BY DEF Sound, FreeListExact
  <2>3. \A x \in free : \E k \in live : f[k] = x
    BY <1>1 DEF Sound, FreeListExact, UsedSlots
  <2> QED  BY <2>1, <2>2, <2>3 DEF Bijection, Injection, Surjection, IsInjective
<1>5. IsFiniteSet(free) /\ Cardinality(free) = s.open_cnt
  BY <1>2, <1>4, FS_Bijection DEF ExistsBijection
<1>6. UsedSlots(s) \subseteq Slot(capacity)
  BY <1>1 DEF UsedSlots
<1>7. IsFiniteSet(UsedSlots(s))
  BY <1>3, <1>6, FS_Subset
<1>8. free = Slot(capacity) \ UsedSlots(s) /\ UsedSlots(s) \cap Slot(capacity) = UsedSlots(s)
  BY <1>6
<1>9. Cardinality(free) = Cardinality(Slot(capacity)) - Cardinality(UsedSlots(s))
  BY <1>3, <1>7, <1>8, FS_Difference
<1>10. Cardinality(UsedSlots(s)) \in Nat
  BY <1>7, FS_CardinalityType
<1> QED  BY <1>1, <1>3, <1>5, <1>7, <1>9, <1>10

\* store_remove_at never writes beyond open[]: a used slot leaves room in it.
LEMMA RoomForRemoved ==
  ASSUME NEW capacity \in Nat, NEW Item, NEW s, Sound(s, capacity, Item),
         NEW i \in UsedSlots(s)
  PROVE  s.open_cnt < capacity
<1>1. IsFiniteSet(UsedSlots(s)) /\ Cardinality(UsedSlots(s)) = capacity - s.open_cnt
  BY LengthExact
<1>2. Cardinality(UsedSlots(s)) # 0
  BY <1>1, FS_EmptySet
<1>3. s.open_cnt \in 0 .. capacity
  BY DEF Sound, StoreType
<1> QED  BY <1>1, <1>2, <1>3

\* A push fails exactly when no slot is unused; otherwise it takes one.
LEMMA PushIndex ==
  ASSUME NEW capacity \in Nat, NEW Item, NEW s, Sound(s, capacity, Item)
  PROVE  \/ /\ get_push_index(s) = NoKey
            /\ s.open_cnt = 0
            /\ UsedSlots(s) = Slot(capacity)
         \/ /\ get_push_index(s) \in Slot(capacity) \ UsedSlots(s)
            /\ s.open_cnt > 0
<1>1. /\ s.capacity = capacity
      /\ s.open_cnt \in 0 .. capacity
      /\ s.open \in [Slot(capacity) -> Slot(capacity)]
  BY DEF Sound, StoreType
<1>2. CASE s.open_cnt = 0
  BY <1>1, <1>2 DEF get_push_index, Sound, FreeListExact, UsedSlots
<1>3. CASE s.open_cnt > 0
  <2>1. s.open_cnt - 1 \in 0 .. s.open_cnt - 1 /\ s.open_cnt - 1 \in Slot(capacity)
    <3>1. s.open_cnt \in Nat /\ s.open_cnt <= capacity
      BY <1>1
    <3> QED  BY <1>3, <3>1 DEF Slot
  <2>2. get_push_index(s) = s.open[s.open_cnt - 1]
    BY <1>3 DEF get_push_index
  <2> QED  BY <1>1, <1>3, <2>1, <2>2 DEF Sound, FreeListExact, UsedSlots
<1> QED  BY <1>1, <1>2, <1>3

\* The effect of a store_push that finds room, field by field.
LEMMA PushEffect ==
  ASSUME NEW capacity \in Nat, NEW Item, NEW s, Sound(s, capacity, Item),
         NEW item \in Item, get_push_index(s) # NoKey
  PROVE  /\ get_push_index(s) \in Slot(capacity)
         /\ store_push(s, item) \in StoreType(capacity, Item)
         /\ IsPush(s, store_push(s, item), get_push_index(s), item)
<1> DEFINE idx == get_push_index(s)
           t == store_push(s, item)
           u == [s.used EXCEPT ![idx] = TRUE]
           d == [s.data EXCEPT ![idx] = item]
           n == s.open_cnt - 1
<1>1. /\ s.capacity = capacity
      /\ s.open_cnt \in 0 .. capacity
      /\ s.used \in [Slot(capacity) -> BOOLEAN]
      /\ s.data \in [Slot(capacity) -> Item]
  BY DEF Sound, StoreType
<1>2. idx \in Slot(capacity) \ UsedSlots(s) /\ s.open_cnt > 0
  BY PushIndex
<1>3. t = [s EXCEPT !.open_cnt = n, !.used = u, !.data = d]
  <2>1. ~ (idx < 0)
    BY <1>2 DEF Slot
  <2> QED  BY <2>1 DEF store_push
<1>4. /\ u \in [Slot(capacity) -> BOOLEAN]
      /\ d \in [Slot(capacity) -> Item]
      /\ n \in 0 .. capacity
  BY <1>1, <1>2
<1> HIDE DEF u, d, n, t
<1>5. /\ t \in StoreType(capacity, Item)
      /\ t.open_cnt = n /\ t.open = s.open /\ t.used = u /\ t.data = d
  BY <1>3, <1>4 DEF StoreType, Sound
<1>6. t.capacity = capacity
  BY <1>5 DEF StoreType
<1>7. UsedSlots(t) = UsedSlots(s) \cup {idx}
  BY <1>1, <1>2, <1>5, <1>6 DEF UsedSlots, u
<1> QED  BY <1>2, <1>5, <1>7 DEF u, d, n, t, IsPush

\* store_push takes the slot it marks off the free list.
LEMMA PushSound ==
  ASSUME NEW capacity \in Nat, NEW Item, NEW s, Sound(s, capacity, Item),
         NEW item \in Item
  PROVE  Sound(store_push(s, item), capacity, Item)
<1> DEFINE idx == get_push_index(s)
           t == store_push(s, item)
<1>1. /\ s.capacity = capacity
      /\ s.open_cnt \in 0 .. capacity
      /\ s.open \in [Slot(capacity) -> Slot(capacity)]
      /\ s.used \in [Slot(capacity) -> BOOLEAN]
  BY DEF Sound, StoreType
<1>2. CASE idx = NoKey
  BY <1>2 DEF store_push, NoKey
<1>3. CASE idx # NoKey
  <2>1. idx \in Slot(capacity) /\ s.open_cnt > 0 /\ ~ s.used[idx]
    BY <1>1, <1>3, PushIndex DEF UsedSlots
  <2>2. /\ t \in StoreType(capacity, Item)
        /\ t.open_cnt = s.open_cnt - 1
        /\ t.open = s.open
        /\ t.used = [s.used EXCEPT ![idx] = TRUE]
    <3>1. t \in StoreType(capacity, Item) /\ IsPush(s, t, idx, item)
      BY <1>3, PushEffect
    <3> QED  BY <3>1 DEF IsPush
  <2>3. t.capacity = capacity
    BY <2>2 DEF StoreType
  <2>4. idx = s.open[s.open_cnt - 1]
    BY <2>1 DEF get_push_index
  <2> HIDE DEF t, idx
  <2>5. \A j, k \in 0 .. t.open_cnt - 1 : t.open[j] = t.open[k] => j = k
    BY <1>1, <2>2 DEF Sound, FreeListExact
  <2>6. ASSUME NEW i \in Slot(capacity)
        PROVE  ~ t.used[i] <=> \E k \in 0 .. t.open_cnt - 1 : t.open[k] = i
    <3>1. CASE i = idx
      BY <1>1, <2>1, <2>2, <2>4, <3>1 DEF Sound, FreeListExact
    <3>2. CASE i # idx
      <4>1. t.used[i] = s.used[i]
        BY <1>1, <2>2, <3>2
      <4>2. (\E k \in 0 .. s.open_cnt - 1 : s.open[k] = i)
              <=> \E k \in 0 .. t.open_cnt - 1 : t.open[k] = i
        BY <1>1, <2>1, <2>2, <2>4, <3>2
      <4> QED  BY <1>1, <4>1, <4>2 DEF Sound, FreeListExact
    <3> QED  BY <3>1, <3>2
  <2> QED  BY <2>2, <2>3, <2>5, <2>6 DEF Sound, FreeListExact, t
<1> QED  BY <1>2, <1>3

\* Writing an item through a pointer leaves the book-keeping alone.
LEMMA WrittenSound ==
  ASSUME NEW capacity \in Nat, NEW Item, NEW s, Sound(s, capacity, Item),
         NEW i \in Slot(capacity), NEW item \in Item
  PROVE  /\ Sound(written(s, i, item), capacity, Item)
         /\ IsWrite(s, written(s, i, item), i, item)
<1> DEFINE t == written(s, i, item)
<1>1. /\ t.capacity = s.capacity
      /\ t.open_cnt = s.open_cnt
      /\ t.open = s.open
      /\ t.used = s.used
      /\ t.data = [s.data EXCEPT ![i] = item]
      /\ t \in StoreType(capacity, Item)
  BY DEF written, Sound, StoreType
<1> HIDE DEF t
<1>2. Sound(t, capacity, Item)
  BY <1>1 DEF Sound, FreeListExact
<1>3. IsWrite(s, t, i, item)
  BY <1>1 DEF IsWrite, UsedSlots
<1> QED  BY <1>2, <1>3 DEF t

\* The effect of store_remove_at on a used slot; the item stays behind.
LEMMA RemoveEffect ==
  ASSUME NEW capacity \in Nat, NEW Item, NEW s, Sound(s, capacity, Item),
         NEW i \in UsedSlots(s)
  PROVE  /\ store_remove_at(s, i) \in StoreType(capacity, Item)
         /\ IsRemove(s, store_remove_at(s, i), i)
<1> DEFINE t == store_remove_at(s, i)
           u == [s.used EXCEPT ![i] = FALSE]
           o == [s.open EXCEPT ![s.open_cnt] = i]
           n == s.open_cnt + 1
<1>1. /\ s.capacity = capacity
      /\ s.open_cnt \in 0 .. capacity
      /\ s.open \in [Slot(capacity) -> Slot(capacity)]
      /\ s.used \in [Slot(capacity) -> BOOLEAN]
  BY DEF Sound, StoreType
<1>2. i \in Slot(capacity) /\ s.used[i] /\ i < capacity /\ i \in Nat
  BY <1>1 DEF UsedSlots, Slot
<1>3. s.open_cnt < capacity
  BY RoomForRemoved
<1>4. t = [s EXCEPT !.used = u, !.open = o, !.open_cnt = n]
  BY <1>1, <1>2 DEF store_remove_at
<1>5. /\ u \in [Slot(capacity) -> BOOLEAN]
      /\ o \in [Slot(capacity) -> Slot(capacity)]
      /\ n \in 0 .. capacity
  <2>1. s.open_cnt \in Slot(capacity)
    BY <1>1, <1>3 DEF Slot
  <2> QED  BY <1>1, <1>2, <1>3, <2>1
<1> HIDE DEF u, o, n, t
<1>6. /\ t \in StoreType(capacity, Item)
      /\ t.open_cnt = n /\ t.open = o /\ t.used = u /\ t.data = s.data
  BY <1>4, <1>5 DEF StoreType, Sound
<1>7. t.capacity = capacity
  BY <1>6 DEF StoreType
<1>8. UsedSlots(t) = UsedSlots(s) \ {i}
  BY <1>1, <1>2, <1>6, <1>7 DEF UsedSlots, u
<1> QED  BY <1>6, <1>8 DEF u, o, n, t, IsRemove

\* Removing what is not there changes nothing.
LEMMA RemoveUnused ==
  ASSUME NEW capacity \in Nat, NEW Item, NEW s, Sound(s, capacity, Item),
         NEW i \in Nat, i \notin UsedSlots(s)
  PROVE  store_remove_at(s, i) = s
BY DEF store_remove_at, UsedSlots, Slot, Sound, StoreType

\* store_remove_at names the slot it clears once more in the free list.
LEMMA RemoveSound ==
  ASSUME NEW capacity \in Nat, NEW Item, NEW s, Sound(s, capacity, Item),
         NEW i \in Nat
  PROVE  Sound(store_remove_at(s, i), capacity, Item)
<1> DEFINE t == store_remove_at(s, i)
<1>1. /\ s.capacity = capacity
      /\ s.open_cnt \in 0 .. capacity
      /\ s.open \in [Slot(capacity) -> Slot(capacity)]
      /\ s.used \in [Slot(capacity) -> BOOLEAN]
  BY DEF Sound, StoreType
<1>2. CASE i \notin UsedSlots(s)
  BY <1>2, RemoveUnused
<1>3. CASE i \in UsedSlots(s)
  <2>1. i \in Slot(capacity) /\ s.used[i]
    BY <1>1, <1>3 DEF UsedSlots
  <2>2. s.open_cnt < capacity /\ s.open_cnt \in Slot(capacity)
    BY <1>1, <1>3, RoomForRemoved DEF Slot
  <2>3. /\ t \in StoreType(capacity, Item)
        /\ t.open_cnt = s.open_cnt + 1
        /\ t.open = [s.open EXCEPT ![s.open_cnt] = i]
        /\ t.used = [s.used EXCEPT ![i] = FALSE]
    <3>1. t \in StoreType(capacity, Item) /\ IsRemove(s, t, i)
      BY <1>3, RemoveEffect
    <3> QED  BY <3>1 DEF IsRemove
  <2>4. t.capacity = capacity
    BY <2>3 DEF StoreType
  <2> HIDE DEF t
  <2>5. /\ \A k \in 0 .. s.open_cnt - 1 : t.open[k] = s.open[k] /\ t.open[k] # i
        /\ t.open[s.open_cnt] = i
    <3>1. \A k \in 0 .. s.open_cnt - 1 : k \in Slot(capacity) /\ k # s.open_cnt
      BY <1>1 DEF Slot
    <3>2. \A k \in 0 .. s.open_cnt - 1 : s.open[k] # i
      BY <1>1, <2>1 DEF Sound, FreeListExact
    <3> QED  BY <1>1, <2>2, <2>3, <3>1, <3>2
  <2>6. \A j, k \in 0 .. t.open_cnt - 1 : t.open[j] = t.open[k] => j = k
    BY <1>1, <2>3, <2>5 DEF Sound, FreeListExact
  <2>7. ASSUME NEW x \in Slot(capacity)
        PROVE  ~ t.used[x] <=> \E k \in 0 .. t.open_cnt - 1 : t.open[k] = x
    <3>1. CASE x = i
      BY <1>1, <2>1, <2>3, <2>5, <3>1
    <3>2. CASE x # i
      <4>1. t.used[x] = s.used[x]
        BY <1>1, <2>3, <3>2
      <4>2. (\E k \in 0 .. s.open_cnt - 1 : s.open[k] = x)
              <=> \E k \in 0 .. t.open_cnt - 1 : t.open[k] = x
        BY <1>1, <2>3, <2>5, <3>2
      <4> QED  BY <1>1, <4>1, <4>2 DEF Sound, FreeListExact
    <3> QED  BY <3>1, <3>2
  <2> QED  BY <2>3, <2>4, <2>6, <2>7 DEF Sound, FreeListExact, t
<1> QED  BY <1>2, <1>3

\* A non-empty set of numbers has a lowest one.
LEMMA Lowest ==
  ASSUME NEW M \in SUBSET Nat, M # {}
  PROVE  \E x \in M : \A y \in M : x <= y
<1> DEFINE R == {ss \in Nat \X Nat : ss[1] < ss[2]}
<1>1. IsWellFoundedOn(R, Nat)
  BY NatLessThanWellFounded DEF OpToRel
<1>2. PICK x \in M : \A y \in M : ~ (<<y, x>> \in R)
  <2> HIDE DEF R
  <2> QED  BY <1>1, WFMin
<1>3. ASSUME NEW y \in M PROVE x <= y
  <2>1. x \in Nat /\ y \in Nat
    OBVIOUS
  <2>2. y < x => <<y, x>> \in R
    BY <2>1
  <2> QED  BY <1>2, <2>1, <2>2
<1> QED  BY <1>3

\* Induction over the numbers as a property of sets: a set of numbers that is not all of
\* Nat misses a least one.
LEMMA Induction ==
  ASSUME NEW S \in SUBSET Nat, 0 \in S, \A n \in S : n + 1 \in S
  PROVE  \A n \in Nat : n \in S
<1> SUFFICES ASSUME NEW n \in Nat, n \notin S PROVE FALSE
  OBVIOUS
<1> DEFINE M == Nat \ S
<1>1. PICK x \in M : \A y \in M : x <= y
  <2>1. M \in SUBSET Nat /\ M # {}
    OBVIOUS
  <2> HIDE DEF M
  <2> QED  BY <2>1, Lowest
<1>2. x # 0 /\ x \in Nat
  OBVIOUS
<1>3. x - 1 \in Nat /\ ~ (x <= x - 1)
  BY <1>2
<1>4. x - 1 \in S
  BY <1>1, <1>3
<1> QED  BY <1>2, <1>3, <1>4

\* A non-empty set of slots has a largest one, where a downward scan stops.
LEMMA LargestSlot ==
  ASSUME NEW n \in Nat, NEW M \in SUBSET Slot(n), M # {}
  PROVE  \E k \in M : \A j \in M : j <= k
<1> DEFINE T == {x \in Nat : \E k \in M : x = n - k}
<1>1. \A k \in M : k \in Int /\ n - k \in T
  BY DEF Slot
<1>2. T \in SUBSET Nat /\ T # {}
  BY <1>1
<1>3. PICK x \in T : \A y \in T : x <= y
  <2> HIDE DEF T
  <2> QED  BY <1>2, Lowest
<1>4. PICK k \in M : x = n - k
  BY <1>3
<1> QED  BY <1>1, <1>3, <1>4

-----------------------------------------------------------------------------
\* The stack.

\* stack_remove_at_fast shortens the stack by one and brings in no new item.
LEMMA RemoveFast ==
  ASSUME NEW S, NEW s \in Seq(S), NEW i \in 0 .. Len(s) - 1
  PROVE  /\ stack_remove_at_fast(s, i) \in Seq(S)
         /\ Len(stack_remove_at_fast(s, i)) = Len(s) - 1
         /\ \A j \in 1 .. Len(s) - 1 :
               stack_remove_at_fast(s, i)[j] = IF j = i + 1 THEN s[Len(s)] ELSE s[j]
<1> DEFINE e == [s EXCEPT ![i + 1] = s[Len(s)]]
<1>1. /\ Len(s) \in Nat /\ Len(s) \in 1 .. Len(s) /\ i + 1 \in 1 .. Len(s)
      /\ ~ (i >= Len(s)) /\ Len(s) - 1 \in Int /\ 1 \in Int
  BY LenProperties
<1>2. s[Len(s)] \in S
  BY <1>1, ElementOfSeq
<1>3. /\ e \in Seq(S) /\ Len(e) = Len(s)
      /\ \A j \in 1 .. Len(s) : e[j] = IF j = i + 1 THEN s[Len(s)] ELSE s[j]
  BY <1>1, <1>2, ExceptSeq
<1>4. stack_remove_at_fast(s, i) = SubSeq(e, 1, Len(s) - 1)
  BY <1>1 DEF stack_remove_at_fast
<1> HIDE DEF e
<1>5. \A j \in 1 .. Len(s) - 1 : e[j] \in S
  BY <1>1, <1>3, ElementOfSeq
<1> DEFINE n == Len(s) - 1
           r == SubSeq(e, 1, n)
<1>6. n \in Nat
  BY <1>1
<1>7. r \in Seq(S) /\ Len(r) = n /\ \A j \in 1 .. n : r[j] = e[j]
  <2> HIDE DEF n
  <2>1. \A j \in 1 .. n : e[j] \in S
    BY <1>5 DEF n
  <2>2. /\ r \in Seq(S)
        /\ Len(r) = IF 1 <= n THEN n - 1 + 1 ELSE 0
        /\ \A j \in 1 .. n - 1 + 1 : r[j] = e[1 + j - 1]
    BY <1>6, <2>1, SubSeqProperties
  <2> HIDE DEF r
  <2>3. Len(r) = n
    BY <1>6, <2>2
  <2>4. \A j \in 1 .. n : j \in 1 .. n - 1 + 1 /\ 1 + j - 1 = j
    BY <1>6
  <2> QED  BY <2>2, <2>3, <2>4
<1>8. \A j \in 1 .. n : r[j] = IF j = i + 1 THEN s[Len(s)] ELSE s[j]
  BY <1>1, <1>3, <1>7
<1> QED  BY <1>4, <1>7, <1>8

\* No item of the sequence occurs twice.
Distinct(s) == \A j, k \in 1 .. Len(s) : s[j] = s[k] => j = k

Items(s) == {s[j] : j \in 1 .. Len(s)}

\* stack_remove_at_fast on a stack without duplicates removes just the one item.
LEMMA RemoveDistinct ==
  ASSUME NEW S, NEW s \in Seq(S), NEW i \in 0 .. Len(s) - 1, Distinct(s)
  PROVE  /\ Distinct(stack_remove_at_fast(s, i))
         /\ Items(stack_remove_at_fast(s, i)) = Items(s) \ {s[i + 1]}
<1> DEFINE r == stack_remove_at_fast(s, i)
           n == Len(s)
<1>1. /\ r \in Seq(S) /\ Len(r) = n - 1
      /\ \A j \in 1 .. n - 1 : r[j] = IF j = i + 1 THEN s[n] ELSE s[j]
  BY RemoveFast
<1>2. n \in Nat /\ n > 0 /\ i \in Nat /\ i < n
  BY LenProperties
<1> HIDE DEF r, n
<1>3. \A j, k \in 1 .. n : s[j] = s[k] => j = k
  BY DEF Distinct, n
<1>4. ASSUME NEW j \in 1 .. n - 1, NEW k \in 1 .. n - 1, r[j] = r[k]
      PROVE  j = k
  <2>1. j \in 1 .. n /\ k \in 1 .. n /\ n \in 1 .. n /\ j # n /\ k # n
    BY <1>2
  <2> QED  BY <1>1, <1>3, <1>4, <2>1
<1>5. ASSUME NEW j \in 1 .. n - 1 PROVE r[j] \in Items(s) \ {s[i + 1]}
  <2>1. j \in 1 .. n /\ n \in 1 .. n /\ i + 1 \in 1 .. n /\ j # n
    BY <1>2
  <2>2. CASE j = i + 1
    <3>1. r[j] = s[n] /\ n # i + 1
      BY <1>1, <2>1, <2>2
    <3> QED  BY <1>3, <2>1, <3>1 DEF Items, n
  <2>3. CASE j # i + 1
    <3>1. r[j] = s[j]
      BY <1>1, <2>3
    <3> QED  BY <1>3, <2>1, <2>3, <3>1 DEF Items, n
  <2> QED  BY <2>2, <2>3
<1>6. ASSUME NEW j \in 1 .. n, s[j] # s[i + 1]
      PROVE  \E k \in 1 .. n - 1 : r[k] = s[j]
  <2>1. CASE j = n
    <3>1. i + 1 \in 1 .. n - 1
      BY <1>2, <1>6, <2>1
    <3> QED  BY <1>1, <2>1, <3>1
  <2>2. CASE j # n
    <3>1. j \in 1 .. n - 1 /\ j # i + 1
      BY <1>2, <1>6, <2>2
    <3> QED  BY <1>1, <3>1
  <2> QED  BY <2>1, <2>2
<1>7. Distinct(r)
  BY <1>1, <1>4 DEF Distinct
<1>8. Items(r) = {r[j] : j \in 1 .. n - 1} /\ Items(s) = {s[j] : j \in 1 .. n}
  BY <1>1 DEF Items, n
<1>9. Items(r) = Items(s) \ {s[i + 1]}
  BY <1>5, <1>6, <1>8
<1> QED  BY <1>7, <1>9 DEF r

\* Append of an item that is not there.
LEMMA AppendDistinct ==
  ASSUME NEW S, NEW s \in Seq(S), NEW x \in S, Distinct(s), x \notin Items(s)
  PROVE  Distinct(Append(s, x)) /\ Items(Append(s, x)) = Items(s) \cup {x}
<1> DEFINE t == Append(s, x)
           n == Len(s)
<1>1. /\ t \in Seq(S) /\ Len(t) = n + 1 /\ t[n + 1] = x
      /\ \A j \in 1 .. n : t[j] = s[j]
  BY AppendProperties
<1>2. n \in Nat
  BY LenProperties
<1> HIDE DEF t, n
<1>3. \A j \in 1 .. n + 1 : j \in 1 .. n \/ j = n + 1
  BY <1>2
<1>4. \A j \in 1 .. n : j \in 1 .. n + 1 /\ j # n + 1
  BY <1>2
<1>5. n + 1 \in 1 .. n + 1
  BY <1>2
<1>6. /\ \A j, k \in 1 .. n : s[j] = s[k] => j = k
      /\ \A j \in 1 .. n : s[j] # x
  BY DEF Distinct, Items, n
<1>7. \A j, k \in 1 .. n + 1 : t[j] = t[k] => j = k
  BY <1>1, <1>3, <1>6
<1>8. {t[j] : j \in 1 .. n + 1} = {s[j] : j \in 1 .. n} \cup {x}
  BY <1>1, <1>3, <1>4, <1>5
<1> QED  BY <1>1, <1>7, <1>8 DEF Distinct, Items, t, n

\* The tail of a sequence without duplicates loses just its head.
LEMMA TailDistinct ==
  ASSUME NEW S, NEW s \in Seq(S), s # <<>>, Distinct(s)
  PROVE  Distinct(Tail(s)) /\ Items(Tail(s)) = Items(s) \ {Head(s)} /\ Head(s) \in Items(s)
<1> DEFINE t == Tail(s)
           n == Len(s)
<1>1. /\ t \in Seq(S) /\ Len(t) = n - 1 /\ Head(s) = s[1]
      /\ \A j \in 1 .. n - 1 : t[j] = s[j + 1]
  BY HeadTailProperties
<1>2. n \in Nat /\ n > 0
  BY LenProperties, EmptySeq
<1> HIDE DEF t, n
<1>3. \A j, k \in 1 .. n : s[j] = s[k] => j = k
  BY DEF Distinct, n
<1>4. 1 \in 1 .. n /\ \A j \in 1 .. n - 1 : j + 1 \in 1 .. n /\ j + 1 # 1
  BY <1>2
<1>5. ASSUME NEW j \in 1 .. n - 1, NEW k \in 1 .. n - 1, t[j] = t[k] PROVE j = k
  <2>1. j + 1 = k + 1
    BY <1>1, <1>3, <1>4, <1>5
  <2> QED  BY <1>2, <2>1
<1>6. ASSUME NEW j \in 1 .. n, s[j] # s[1] PROVE \E k \in 1 .. n - 1 : t[k] = s[j]
  <2>1. j - 1 \in 1 .. n - 1 /\ (j - 1) + 1 = j
    BY <1>2, <1>6
  <2> QED  BY <1>1, <2>1
<1>7. \A j \in 1 .. n - 1 : t[j] # s[1]
  BY <1>1, <1>3, <1>4
<1>8. {t[j] : j \in 1 .. n - 1} = {s[j] : j \in 1 .. n} \ {s[1]}
  BY <1>1, <1>4, <1>6, <1>7
<1> QED  BY <1>1, <1>4, <1>5, <1>8 DEF Distinct, Items, t, n
=============================================================================
