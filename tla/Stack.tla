------------------------------- MODULE Stack --------------------------------
(***************************************************************************)
(* One stack of src/src/stack.h under every sequence of calls, with the    *)
(* array and the header as the code lays them out.  Items are ints, the    *)
(* only items dpatch keeps on a stack, on a machine with 8-byte size_t.    *)
(***************************************************************************)
EXTENDS Integers

CONSTANTS Capacity, Item, Zero, NULL,
          RESET_MAX     \* stack_reset is called with this many items at most

ASSUME StackAssumption ==
  /\ Capacity \in Nat \ {0}
  /\ Zero \in Item
  /\ RESET_MAX \in Nat

VARIABLES count, capacity,   \* the fields of struct Stack
          data,              \* the array behind it
          call,              \* the last call, with its arguments
          ret                \* what it returned

vars == <<count, capacity, data, call, ret>>

Call(op, i, x) == [op |-> op, i |-> i, x |-> x]

Cell == 0 .. Capacity - 1

Init ==
  /\ count = 0
  /\ capacity = Capacity
  /\ data \in [Cell -> {Zero}]
  /\ call = Call("new", 0, Zero)
  /\ ret = 0

\* An int index is compared as a size_t, so a negative one is beyond the count.
InBounds(i) == i >= 0 /\ i < count

\* Mutant: the test of the capacity lets one item too many through.
PushedOverfull(x) ==
  IF count > capacity THEN ret' = -1 /\ UNCHANGED <<count, data>>
  ELSE /\ data' = [data EXCEPT ![count] = x]
       /\ count' = count + 1
       /\ ret' = count

Pushed(x) ==
  IF count >= capacity THEN ret' = -1 /\ UNCHANGED <<count, data>>
  ELSE /\ data' = [data EXCEPT ![count] = x]
       /\ count' = count + 1
       /\ ret' = count

Push(x) ==
  /\ call' = Call("push", 0, x)
  /\ Pushed(x)
  /\ UNCHANGED capacity

\* The new item is zeroed; the pointer is given as its index, NULL as -1.
PushNew ==
  /\ call' = Call("push_new", 0, Zero)
  /\ Pushed(Zero)
  /\ UNCHANGED capacity

\* The popped item stays in its cell.
Pop ==
  /\ call' = Call("pop", 0, Zero)
  /\ IF count < 1 THEN ret' = NULL /\ UNCHANGED count
     ELSE ret' = data[count - 1] /\ count' = count - 1
  /\ UNCHANGED <<capacity, data>>

Get(i) ==
  /\ call' = Call("get", i, Zero)
  /\ ret' = IF InBounds(i) THEN data[i] ELSE NULL
  /\ UNCHANGED <<count, capacity, data>>

\* The items above i move down one cell and the last cell is zeroed.
RemoveAt(i) ==
  /\ call' = Call("remove_at", i, Zero)
  /\ IF InBounds(i)
     THEN /\ data' = [k \in Cell |-> CASE k \in i .. count - 2 -> data[k + 1]
                                       [] k = count - 1        -> Zero
                                       [] OTHER                -> data[k]]
          /\ count' = count - 1
          /\ ret' = 1
     ELSE ret' = 0 /\ UNCHANGED <<count, data>>
  /\ UNCHANGED capacity

\* Mutant: the last item is zeroed and not moved into the hole.
RemoveLoses(i) ==
  /\ call' = Call("remove_at_fast", i, Zero)
  /\ IF InBounds(i)
     THEN /\ data' = [data EXCEPT ![count - 1] = Zero]
          /\ count' = count - 1
          /\ ret' = 1
     ELSE ret' = 0 /\ UNCHANGED <<count, data>>
  /\ UNCHANGED capacity

RemoveAtFast(i) ==
  /\ call' = Call("remove_at_fast", i, Zero)
  /\ IF InBounds(i)
     THEN /\ data' = [data EXCEPT ![i] = data[count - 1], ![count - 1] = Zero]
          /\ count' = count - 1
          /\ ret' = 1
     ELSE ret' = 0 /\ UNCHANGED <<count, data>>
  /\ UNCHANGED capacity

\* The memset of item_size * count bytes starts at the struct, not at its array:
\* with three ints it reaches the capacity, which follows an 8-byte count.  The
\* two fields behind it are not read again while the capacity is 0.
SizeofInt == 4
SizeofCount == 8

Reset ==
  /\ count <= RESET_MAX
  /\ call' = Call("reset", 0, Zero)
  /\ capacity' = IF SizeofInt * count > SizeofCount THEN 0 ELSE capacity
  /\ count' = 0
  /\ ret' = 1
  /\ UNCHANGED data

Next ==
  \/ \E x \in Item : Push(x)
  \/ PushNew \/ Pop
  \/ \E i \in -1 .. Capacity : Get(i) \/ RemoveAt(i) \/ RemoveAtFast(i)
  \/ Reset

Spec == Init /\ [][Next]_vars

-----------------------------------------------------------------------------
\* Every cell the code writes is one of the array.
TypeOK ==
  /\ count \in 0 .. Capacity
  /\ capacity \in {0, Capacity}
  /\ data \in [Cell -> Item]
  /\ call \in [op : {"new", "push", "push_new", "pop", "get", "remove_at", "remove_at_fast", "reset"},
               i : -1 .. Capacity, x : Item]
  /\ ret \in -1 .. Capacity \cup Item \cup {NULL}

Sequence == INSTANCE StackSeq WITH items <- [j \in 1 .. count |-> data[j - 1]]

\* The array of stack.h with its shifted, moved and zeroed cells does what the
\* operators of the server's client stack say, call by call, for every index,
\* negative ones included, and with resets of at most two items.
ImplementsSequence == Sequence!Spec
=============================================================================
