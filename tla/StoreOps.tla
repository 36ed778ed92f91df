------------------------------ MODULE StoreOps ------------------------------
(***************************************************************************)
(* The operations of the slot store of src/src/store.h as functions from a *)
(* store to a store.  A store is a record with the fields of struct Store: *)
(* the array `open` holds, in its first open_cnt cells, the indices of the *)
(* unused slots (the cells above keep whatever was there).  The slot array *)
(* is split into `used` (the ITEM_USED byte in front of an item) and       *)
(* `data`; removing an item clears its byte and leaves its data behind.    *)
(***************************************************************************)
EXTENDS Integers

\* The key of KEYVALUE_NONE.
NoKey == -1

Slot(capacity) == 0 .. capacity - 1

reset_open(capacity) == [i \in Slot(capacity) |-> (capacity - 1) - i]

store_new(capacity, zero) ==
  [ capacity |-> capacity,
    open_cnt |-> capacity,
    open     |-> reset_open(capacity),
    used     |-> [i \in Slot(capacity) |-> FALSE],
    data     |-> [i \in Slot(capacity) |-> zero] ]

\* Mutant: the free list is consumed from its bottom.
BottomPushIndex(s) == IF s.open_cnt > 0 THEN s.open[0] ELSE NoKey

\* The index the next push takes; the decrement of open_cnt is part of the
\* pushes below.
get_push_index(s) == IF s.open_cnt > 0 THEN s.open[s.open_cnt - 1] ELSE NoKey

\* Mutant: the slot is written but not marked used.
PushUnmarked(s, item) ==
  LET idx == get_push_index(s)
  IN  IF idx < 0 THEN s
      ELSE [s EXCEPT !.open_cnt = @ - 1, !.data[idx] = item]

store_push(s, item) ==
  LET idx == get_push_index(s)
  IN  IF idx < 0 THEN s
      ELSE [s EXCEPT !.open_cnt = @ - 1, !.used[idx] = TRUE, !.data[idx] = item]

\* Mutant: the memset of the new item is missing, the last tenant shows through.
PushDirty(s, zero) ==
  LET idx == get_push_index(s)
  IN  IF idx < 0 THEN s ELSE store_push(s, s.data[idx])

store_push_empty(s, zero) == store_push(s, zero)

\* A caller assigns an item through the pointer that a push returned.
written(s, i, item) == [s EXCEPT !.data[i] = item]

store_is_used(s, i) == s.used[i]

store_replace(s, i, item) ==
  IF i >= s.capacity \/ ~ s.used[i] THEN s ELSE [s EXCEPT !.data[i] = item]

\* Mutant: an unused slot is put on the free list again.
RemoveUnchecked(s, i) ==
  IF i >= s.capacity THEN s
  ELSE [s EXCEPT !.used[i] = FALSE,
                 !.open[s.open_cnt] = i,
                 !.open_cnt = @ + 1]

\* Mutant: the slot is freed but never returned to the free list.
RemoveForgets(s, i) ==
  IF i >= s.capacity \/ ~ s.used[i] THEN s ELSE [s EXCEPT !.used[i] = FALSE]

store_remove_at(s, i) ==
  IF i >= s.capacity \/ ~ s.used[i] THEN s
  ELSE [s EXCEPT !.used[i] = FALSE,
                 !.open[s.open_cnt] = i,
                 !.open_cnt = @ + 1]

store_length(s) == s.capacity - s.open_cnt

store_reset(s, zero) == store_new(s.capacity, zero)

-----------------------------------------------------------------------------
UsedSlots(s) == {i \in Slot(s.capacity) : s.used[i]}

StoreType(capacity, Item) ==
  [ capacity : {capacity},
    open_cnt : 0 .. capacity,
    open     : [Slot(capacity) -> Slot(capacity)],
    used     : [Slot(capacity) -> BOOLEAN],
    data     : [Slot(capacity) -> Item] ]

\* The live part of the free list names every unused slot, and each one once.
FreeListExact(s) ==
  /\ \A j, k \in 0 .. s.open_cnt - 1 : s.open[j] = s.open[k] => j = k
  /\ \A i \in Slot(s.capacity) :
        ~ s.used[i] <=> \E k \in 0 .. s.open_cnt - 1 : s.open[k] = i
=============================================================================
