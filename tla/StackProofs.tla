---------------------------- MODULE StackProofs -----------------------------
(***************************************************************************)
(* The stack of src/src/stack.h for every capacity and every set of items: *)
(* no call writes outside the array, and the array behaves as the sequence *)
(* that the model of the server uses.                                      *)
(***************************************************************************)
EXTENDS Stack, StructureLemmas

\* The capacity is a positive number and the zeroed item is one.
LEMMA Constants == Capacity \in Nat /\ Capacity > 0 /\ Zero \in Item /\ RESET_MAX \in Nat
BY StackAssumption

\* A push writes below the capacity or not at all.
LEMMA PushType ==
  ASSUME TypeOK, NEW x \in Item, Pushed(x)
  PROVE  /\ count' \in 0 .. Capacity
         /\ data' \in [Cell -> Item]
         /\ ret' \in -1 .. Capacity
BY Constants DEF TypeOK, Pushed, Cell

\* One call keeps the type.
LEMMA NextType ==
  ASSUME TypeOK, [Next]_vars
  PROVE  TypeOK'
<1> USE Constants
<1>1. ASSUME NEW x \in Item, Push(x) PROVE TypeOK'
  BY <1>1, PushType DEF Push, Call, TypeOK
<1>2. CASE PushNew
  BY <1>2, PushType DEF PushNew, Call, TypeOK
<1>3. CASE Pop
  <2>1. count' \in 0 .. Capacity /\ ret' \in Item \cup {NULL}
    BY <1>3 DEF Pop, TypeOK, Cell
  <2> QED  BY <1>3, <2>1 DEF Pop, Call, TypeOK
<1>4. ASSUME NEW i \in -1 .. Capacity, Get(i) PROVE TypeOK'
  <2>1. ret' \in Item \cup {NULL}
    BY <1>4 DEF Get, InBounds, TypeOK, Cell
  <2> QED  BY <1>4, <2>1 DEF Get, Call, TypeOK
<1>5. ASSUME NEW i \in -1 .. Capacity, RemoveAt(i) PROVE TypeOK'
  <2>1. CASE InBounds(i)
    <3>1. /\ data' = [k \in Cell |-> CASE k \in i .. count - 2 -> data[k + 1]
                                       [] k = count - 1        -> Zero
                                       [] OTHER                -> data[k]]
          /\ count' = count - 1 /\ ret' = 1
      BY <1>5, <2>1 DEF RemoveAt
    <3>2. \A k \in Cell : k \in i .. count - 2 => k + 1 \in Cell
      BY DEF TypeOK, Cell
    <3>3. data' \in [Cell -> Item]
      BY <3>1, <3>2 DEF TypeOK
    <3>4. count' \in 0 .. Capacity
      BY <2>1, <3>1 DEF InBounds, TypeOK
    <3> QED  BY <1>5, <3>1, <3>3, <3>4 DEF RemoveAt, Call, TypeOK
  <2>2. CASE ~ InBounds(i)
    BY <1>5, <2>2 DEF RemoveAt, Call, TypeOK
  <2> QED  BY <2>1, <2>2
<1>6. ASSUME NEW i \in -1 .. Capacity, RemoveAtFast(i) PROVE TypeOK'
  <2>1. CASE InBounds(i)
    <3>1. /\ count' = count - 1 /\ ret' = 1
          /\ data' = [data EXCEPT ![i] = data[count - 1], ![count - 1] = Zero]
      BY <1>6, <2>1 DEF RemoveAtFast
    <3>2. count - 1 \in Cell /\ count' \in 0 .. Capacity
      BY <2>1, <3>1 DEF InBounds, TypeOK, Cell
    <3>3. data' \in [Cell -> Item]
      BY <3>1, <3>2 DEF TypeOK
    <3> QED  BY <1>6, <3>1, <3>2, <3>3 DEF RemoveAtFast, Call, TypeOK
  <2>2. CASE ~ InBounds(i)
    BY <1>6, <2>2 DEF RemoveAtFast, Call, TypeOK
  <2> QED  BY <2>1, <2>2
<1>7. CASE Reset
  BY <1>7 DEF Reset, Call, TypeOK
<1>8. CASE UNCHANGED vars
  BY <1>8 DEF vars, TypeOK
<1> QED  BY <1>1, <1>2, <1>3, <1>4, <1>5, <1>6, <1>7, <1>8 DEF Next

\* stack_new makes a stack of the type.
LEMMA InitType == Init => TypeOK
BY Constants DEF Init, Call, Cell, TypeOK

\* Every cell the code of stack.h writes is one of its array, for every sequence of
\* calls, indices beyond the count and negative ones included, and also after a reset
\* that has cleared the capacity.
THEOREM StackTypeCorrect == Spec => []TypeOK
<1>1. TypeOK /\ [Next]_vars => TypeOK'
  BY NextType
<1> QED  BY <1>1, InitType, PTL DEF Spec

-----------------------------------------------------------------------------
\* The refinement of StackSeq.

\* The refinement mapping.
View == [j \in 1 .. count |-> data[j - 1]]

\* The invariant: as long as no reset of three items or more is made, the capacity
\* is what the stack was created with.
Inv == TypeOK /\ capacity = Capacity

\* The view is a sequence of count items.
LEMMA ViewIs ==
  ASSUME TypeOK
  PROVE  /\ View \in Seq(Item) /\ Len(View) = count
         /\ \A j \in 1 .. count : View[j] = data[j - 1] /\ data[j - 1] \in Item
<1>1. count \in Nat /\ \A j \in 1 .. count : data[j - 1] \in Item
  BY Constants DEF TypeOK, Cell
<1> QED  BY <1>1 DEF View

\* The index tests of the array and of the sequence agree.
LEMMA SameBounds ==
  ASSUME TypeOK, NEW i \in -1 .. Capacity
  PROVE  /\ InBounds(i) <=> i \in 0 .. Len(View) - 1
         /\ InBounds(i) => i + 1 \in 1 .. count /\ i \in Nat
<1>1. count \in 0 .. Capacity /\ Len(View) = count
  BY ViewIs DEF TypeOK
<1> QED  BY <1>1, Constants DEF InBounds

\* Two sequences of items with the same length and items are the same.
LEMMA ViewNext ==
  ASSUME TypeOK', NEW t \in Seq(Item), Len(t) = count',
         \A j \in 1 .. count' : t[j] = data'[j - 1]
  PROVE  View' = t
<1>1. /\ count' \in Nat
      /\ \A j \in 1 .. count' : data'[j - 1] \in Item
  BY Constants DEF TypeOK, Cell
<1>2. View' = [j \in 1 .. count' |-> data'[j - 1]]
  BY DEF View
<1> QED  BY <1>1, <1>2

\* A push appends, or finds the stack full.
LEMMA PushRefines ==
  ASSUME Inv, TypeOK', NEW x \in Item, Pushed(x)
  PROVE  /\ View' = stack_push(View, Capacity, x)
         /\ ret' = IF Len(View) = Capacity THEN -1 ELSE Len(View)
<1>1. /\ View \in Seq(Item) /\ Len(View) = count
      /\ \A j \in 1 .. count : View[j] = data[j - 1] /\ data[j - 1] \in Item
      /\ count \in 0 .. Capacity /\ capacity = Capacity
  BY ViewIs DEF Inv, TypeOK
<1>2. CASE count = Capacity
  <2>1. ret' = -1 /\ UNCHANGED <<count, data>>
    BY <1>1, <1>2, Constants DEF Pushed
  <2>2. View' = View
    BY <2>1 DEF View
  <2> QED  BY <1>1, <1>2, <2>1, <2>2, Constants DEF stack_push
<1>3. CASE count # Capacity
  <2>1. ret' = count /\ count' = count + 1 /\ data' = [data EXCEPT ![count] = x]
    BY <1>1, <1>3, Constants DEF Pushed
  <2>2. stack_push(View, Capacity, x) = Append(View, x)
    BY <1>1, <1>3, Constants DEF stack_push
  <2>3. /\ Append(View, x) \in Seq(Item) /\ Len(Append(View, x)) = count + 1
        /\ \A j \in 1 .. count : Append(View, x)[j] = View[j]
        /\ Append(View, x)[count + 1] = x
    BY <1>1, AppendProperties
  <2>4. ASSUME NEW j \in 1 .. count + 1 PROVE Append(View, x)[j] = data'[j - 1]
    <3>1. count \in Cell /\ j - 1 \in Cell
      BY <1>1, <1>3, Constants DEF Cell
    <3>2. data'[j - 1] = IF j - 1 = count THEN x ELSE data[j - 1]
      BY <2>1, <3>1 DEF Inv, TypeOK
    <3> QED  BY <1>1, <2>3, <3>2
  <2>5. View' = Append(View, x)
    BY <2>1, <2>3, <2>4, ViewNext
  <2> QED  BY <1>1, <1>3, <2>1, <2>2, <2>5
<1> QED  BY <1>2, <1>3

\* A pop takes the last item.
LEMMA PopRefines ==
  ASSUME Inv, TypeOK', Pop
  PROVE  Sequence!Pop
<1>1. /\ View \in Seq(Item) /\ Len(View) = count
      /\ \A j \in 1 .. count : View[j] = data[j - 1] /\ data[j - 1] \in Item
      /\ count \in 0 .. Capacity /\ data' = data
      /\ call' = Call("pop", 0, Zero)
  BY ViewIs DEF Inv, TypeOK, Pop
<1>2. CASE count < 1
  <2>1. View = <<>> /\ ret' = NULL /\ View' = View
    BY <1>1, <1>2, Constants DEF Pop, View
  <2> QED  BY <1>1, <2>1 DEF Sequence!Pop, Sequence!Call, Call, View
<1>3. CASE ~ (count < 1)
  <2>1. View # <<>> /\ ret' = View[Len(View)] /\ count' = count - 1 /\ count \in Nat
    BY <1>1, <1>3, Constants, EmptySeq DEF Pop
  <2> DEFINE t == SubSeq(View, 1, count - 1)
  <2>2. \A j \in 1 .. count - 1 : View[j] \in Item
    BY <1>1, <2>1
  <2>3. /\ t \in Seq(Item) /\ Len(t) = count - 1
        /\ \A j \in 1 .. count - 1 : t[j] = View[j]
    <3> DEFINE n == count - 1
    <3>1. n \in Nat
      BY <1>1, <1>3, Constants
    <3> HIDE DEF n
    <3>2. /\ SubSeq(View, 1, n) \in Seq(Item)
          /\ Len(SubSeq(View, 1, n)) = IF 1 <= n THEN n - 1 + 1 ELSE 0
          /\ \A j \in 1 .. n - 1 + 1 : SubSeq(View, 1, n)[j] = View[1 + j - 1]
      BY <2>2, <3>1, SubSeqProperties DEF n
    <3>3. Len(SubSeq(View, 1, n)) = n
      BY <3>1, <3>2
    <3>4. \A j \in 1 .. n : j \in 1 .. n - 1 + 1 /\ 1 + j - 1 = j
      BY <3>1
    <3>5. \A j \in 1 .. n : SubSeq(View, 1, n)[j] = View[j]
      BY <3>2, <3>4
    <3> QED  BY <3>2, <3>3, <3>5 DEF n
  <2> HIDE DEF t
  <2>4. \A j \in 1 .. count - 1 : t[j] = data'[j - 1]
    BY <1>1, <2>1, <2>3
  <2>5. View' = t
    BY <2>1, <2>3, <2>4, ViewNext
  <2> QED  BY <1>1, <2>1, <2>5 DEF Sequence!Pop, Sequence!Call, Call, View, t
<1> QED  BY <1>2, <1>3

\* A push and a push of a zeroed item are pushes of the sequence.
LEMMA AddedRefines ==
  ASSUME Inv, TypeOK', NEW x \in Item, Pushed(x)
  PROVE  Sequence!Added(x)
<1>1. /\ View' = stack_push(View, Capacity, x)
      /\ ret' = IF Len(View) = Capacity THEN -1 ELSE Len(View)
  BY PushRefines
<1> QED  BY <1>1 DEF Sequence!Added, Sequence!stack_push, stack_push, View

\* A get reads the same item, or none, and changes nothing.
LEMMA GetRefines ==
  ASSUME Inv, NEW i \in -1 .. Capacity, Get(i)
  PROVE  Sequence!Get(i)
<1>1. /\ InBounds(i) <=> i \in 0 .. Len(View) - 1
      /\ InBounds(i) => i + 1 \in 1 .. count /\ i \in Nat
  BY SameBounds DEF Inv
<1>2. /\ call' = Call("get", i, Zero)
      /\ ret' = IF InBounds(i) THEN data[i] ELSE NULL
      /\ View' = View
  BY DEF Get, View
<1>3. InBounds(i) => View[i + 1] = data[i]
  <2>1. ASSUME InBounds(i) PROVE View[i + 1] = data[i]
    <3>1. i + 1 \in 1 .. count /\ (i + 1) - 1 = i
      BY <1>1, <2>1
    <3>2. View[i + 1] = data[(i + 1) - 1]
      BY <3>1, ViewIs DEF Inv
    <3> QED  BY <3>1, <3>2
  <2> QED  BY <2>1
<1>4. ret' = IF i \in 0 .. Len(View) - 1 THEN View[i + 1] ELSE NULL
  BY <1>1, <1>2, <1>3
<1> QED  BY <1>2, <1>4 DEF Sequence!Get, Sequence!Call, Call, Sequence!InBounds,
                           Sequence!stack_get, View

\* What cutting item i out of a sequence leaves.
LEMMA Cut ==
  ASSUME NEW S, NEW s \in Seq(S), NEW i \in 0 .. Len(s) - 1
  PROVE  LET c == SubSeq(s, 1, i) \o SubSeq(s, i + 2, Len(s))
         IN  /\ c \in Seq(S) /\ Len(c) = Len(s) - 1
             /\ \A j \in 1 .. Len(s) - 1 : c[j] = IF j <= i THEN s[j] ELSE s[j + 1]
<1> DEFINE n == Len(s)
           a == SubSeq(s, 1, i)
           b == SubSeq(s, i + 2, n)
           c == a \o b
<1>1. n \in Nat /\ i \in Nat /\ i < n /\ \A j \in 1 .. n : s[j] \in S
  BY LenProperties, ElementOfSeq
<1> HIDE DEF n
<1>2. /\ a \in Seq(S) /\ Len(a) = i /\ \A j \in 1 .. i : a[j] = s[j]
  <2>1. 1 \in Int /\ i \in Int /\ \A j \in 1 .. i : s[j] \in S
    BY <1>1
  <2>2. /\ a \in Seq(S)
        /\ Len(a) = IF 1 <= i THEN i - 1 + 1 ELSE 0
        /\ \A j \in 1 .. i - 1 + 1 : a[j] = s[1 + j - 1]
    BY <2>1, SubSeqProperties
  <2> HIDE DEF a
  <2>3. Len(a) = i
    BY <1>1, <2>2
  <2>4. \A j \in 1 .. i : j \in 1 .. i - 1 + 1 /\ 1 + j - 1 = j
    BY <1>1
  <2> QED  BY <2>2, <2>3, <2>4
<1>3. /\ b \in Seq(S) /\ Len(b) = n - i - 1
      /\ \A j \in 1 .. n - i - 1 : b[j] = s[j + i + 1]
  <2> DEFINE m == i + 2
  <2>1. m \in Int /\ n \in Int /\ \A j \in m .. n : s[j] \in S
    BY <1>1
  <2>5. m = i + 2
    OBVIOUS
  <2> HIDE DEF m
  <2>2. /\ SubSeq(s, m, n) \in Seq(S)
        /\ Len(SubSeq(s, m, n)) = IF m <= n THEN n - m + 1 ELSE 0
        /\ \A j \in 1 .. n - m + 1 : SubSeq(s, m, n)[j] = s[m + j - 1]
    BY <2>1, SubSeqProperties
  <2>3. b = SubSeq(s, m, n)
    BY <2>5
  <2> HIDE DEF b
  <2>6. Len(b) = n - i - 1
    BY <1>1, <2>2, <2>3, <2>5
  <2>4. \A j \in 1 .. n - i - 1 : j \in 1 .. n - m + 1 /\ m + j - 1 = j + i + 1
    BY <1>1, <2>5
  <2> QED  BY <2>2, <2>3, <2>4, <2>6
<1> HIDE DEF a, b
<1>4. /\ c \in Seq(S) /\ Len(c) = Len(a) + Len(b)
      /\ \A j \in 1 .. Len(a) + Len(b) : c[j] = IF j <= Len(a) THEN a[j] ELSE b[j - Len(a)]
  <2>1. a \in Seq(S) /\ b \in Seq(S)
    BY <1>2, <1>3
  <2> QED  BY ONLY <2>1, ConcatProperties, Zenon DEF c
<1>5. Len(c) = n - 1
  BY <1>1, <1>2, <1>3, <1>4
<1> HIDE DEF c
<1>6. ASSUME NEW j \in 1 .. n - 1 PROVE c[j] = IF j <= i THEN s[j] ELSE s[j + 1]
  <2>1. c[j] = IF j <= i THEN a[j] ELSE b[j - i]
    BY <1>1, <1>2, <1>3, <1>4, SMTT(30)
  <2>2. CASE j <= i
    BY <1>1, <1>2, <2>1, <2>2
  <2>3. CASE ~ (j <= i)
    <3>1. j - i \in 1 .. n - i - 1 /\ (j - i) + i + 1 = j + 1
      BY <1>1, <2>3
    <3>2. b[j - i] = s[(j - i) + i + 1]
      BY <1>3, <3>1
    <3> QED  BY <2>1, <2>3, <3>1, <3>2
  <2> QED  BY <2>2, <2>3
<1> QED  BY <1>4, <1>5, <1>6 DEF a, b, c, n

\* The shifted cells are the sequence without item i.
LEMMA RemoveAtRefines ==
  ASSUME Inv, TypeOK', NEW i \in -1 .. Capacity, RemoveAt(i)
  PROVE  Sequence!RemoveAt(i)
<1>1. /\ InBounds(i) <=> i \in 0 .. Len(View) - 1
      /\ InBounds(i) => i + 1 \in 1 .. count /\ i \in Nat
      /\ View \in Seq(Item) /\ Len(View) = count /\ count \in 0 .. Capacity
      /\ \A j \in 1 .. count : View[j] = data[j - 1]
  BY SameBounds, ViewIs DEF Inv, TypeOK
<1>2. call' = Call("remove_at", i, Zero)
  BY DEF RemoveAt
<1>3. CASE ~ InBounds(i)
  <2>1. ret' = 0 /\ View' = View
    BY <1>3 DEF RemoveAt, View
  <2> QED  BY <1>1, <1>2, <1>3, <2>1 DEF Sequence!RemoveAt, Sequence!Call, Call, Sequence!InBounds, View
<1>4. CASE InBounds(i)
  <2>1. /\ data' = [k \in Cell |-> CASE k \in i .. count - 2 -> data[k + 1]
                                     [] k = count - 1        -> Zero
                                     [] OTHER                -> data[k]]
        /\ count' = count - 1 /\ ret' = 1
    BY <1>4 DEF RemoveAt
  <2> DEFINE c == SubSeq(View, 1, i) \o SubSeq(View, i + 2, Len(View))
  <2>2. /\ c \in Seq(Item) /\ Len(c) = count - 1
        /\ \A j \in 1 .. count - 1 : c[j] = IF j <= i THEN View[j] ELSE View[j + 1]
    BY <1>1, <1>4, Cut
  <2> HIDE DEF c
  <2>3. ASSUME NEW j \in 1 .. count - 1 PROVE c[j] = data'[j - 1]
    <3>1. j - 1 \in Cell /\ j \in 1 .. count /\ j + 1 \in 1 .. count /\ j - 1 # count - 1
      BY <1>1, Constants DEF Cell
    <3>2. View[j] = data[j - 1] /\ View[j + 1] = data[(j + 1) - 1] /\ (j + 1) - 1 = (j - 1) + 1
      BY <1>1, <3>1
    <3>3. CASE j <= i
      <4>1. j - 1 \notin i .. count - 2
        BY <1>1, <1>4, <3>3
      <4>2. data'[j - 1] = data[j - 1]
        BY <2>1, <3>1, <4>1
      <4> QED  BY <2>2, <3>2, <3>3, <4>2
    <3>4. CASE ~ (j <= i)
      <4>1. j - 1 \in i .. count - 2
        BY <1>1, <1>4, <3>4
      <4>2. data'[j - 1] = data[(j - 1) + 1]
        BY <2>1, <3>1, <4>1
      <4> QED  BY <2>2, <3>2, <3>4, <4>2
    <3> QED  BY <3>3, <3>4
  <2>4. View' = c
    BY <2>1, <2>2, <2>3, ViewNext
  <2> QED  BY <1>1, <1>2, <1>4, <2>1, <2>4
           DEF Sequence!RemoveAt, Sequence!Call, Call, Sequence!InBounds, View, c
<1> QED  BY <1>3, <1>4

\* The last item in the hole is stack_remove_at_fast of the sequence.
LEMMA RemoveAtFastRefines ==
  ASSUME Inv, TypeOK', NEW i \in -1 .. Capacity, RemoveAtFast(i)
  PROVE  Sequence!RemoveAtFast(i)
<1>1. /\ InBounds(i) <=> i \in 0 .. Len(View) - 1
      /\ InBounds(i) => i + 1 \in 1 .. count /\ i \in Nat
      /\ View \in Seq(Item) /\ Len(View) = count /\ count \in 0 .. Capacity
      /\ \A j \in 1 .. count : View[j] = data[j - 1]
  BY SameBounds, ViewIs DEF Inv, TypeOK
<1>2. call' = Call("remove_at_fast", i, Zero)
  BY DEF RemoveAtFast
<1>3. CASE ~ InBounds(i)
  <2>1. ret' = 0 /\ View' = View
    BY <1>3 DEF RemoveAtFast, View
  <2> QED  BY <1>1, <1>2, <1>3, <2>1
           DEF Sequence!RemoveAtFast, Sequence!Call, Call, Sequence!InBounds, View
<1>4. CASE InBounds(i)
  <2>1. /\ data' = [data EXCEPT ![i] = data[count - 1], ![count - 1] = Zero]
        /\ count' = count - 1 /\ ret' = 1
    BY <1>4 DEF RemoveAtFast
  <2> DEFINE c == stack_remove_at_fast(View, i)
  <2>2. /\ c \in Seq(Item) /\ Len(c) = count - 1
        /\ \A j \in 1 .. count - 1 : c[j] = IF j = i + 1 THEN View[count] ELSE View[j]
    BY <1>1, <1>4, RemoveFast
  <2> HIDE DEF c
  <2>3. ASSUME NEW j \in 1 .. count - 1 PROVE c[j] = data'[j - 1]
    <3>1. /\ j - 1 \in Cell /\ j \in 1 .. count /\ j - 1 # count - 1
          /\ i \in Cell /\ count - 1 \in Cell /\ count \in 1 .. count
          /\ (j = i + 1 <=> j - 1 = i)
      BY <1>1, <1>4, Constants DEF Cell
    <3>2. View[j] = data[j - 1] /\ View[count] = data[count - 1]
      BY <1>1, <3>1
    <3>3. data'[j - 1] = IF j - 1 = i THEN data[count - 1] ELSE data[j - 1]
      BY <2>1, <3>1 DEF Inv, TypeOK
    <3> QED  BY <2>2, <3>1, <3>2, <3>3
  <2>4. View' = c
    BY <2>1, <2>2, <2>3, ViewNext
  <2> QED  BY <1>1, <1>2, <1>4, <2>1, <2>4
           DEF Sequence!RemoveAtFast, Sequence!Call, Call, Sequence!InBounds,
               Sequence!stack_remove_at_fast, stack_remove_at_fast, View, c
<1> QED  BY <1>3, <1>4

\* Every call on the array is the same call on the sequence, and the capacity stays
\* as long as a reset finds at most two items.
LEMMA StepRefines ==
  ASSUME RESET_MAX <= 2, Inv, [Next]_vars
  PROVE  Inv' /\ [Sequence!Next]_Sequence!vars
<1> USE Constants
<1>1. TypeOK'
  BY NextType DEF Inv
<1>2. ASSUME NEW x \in Item, Push(x) PROVE Inv' /\ Sequence!Push(x)
  <2>1. Sequence!Added(x)
    BY <1>1, <1>2, AddedRefines DEF Push
  <2> QED  BY <1>1, <1>2, <2>1 DEF Push, Inv, Sequence!Push, Sequence!Call, Call
<1>3. CASE PushNew
  <2>1. Sequence!Added(Zero)
    BY <1>1, <1>3, AddedRefines DEF PushNew
  <2>2. Inv' /\ Sequence!PushNew
    BY <1>1, <1>3, <2>1 DEF PushNew, Inv, Sequence!PushNew, Sequence!Call, Call
  <2> QED  BY <2>2 DEF Sequence!Next
<1>4. CASE Pop
  <2>1. Inv' /\ Sequence!Pop
    BY <1>1, <1>4, PopRefines DEF Pop, Inv
  <2> QED  BY <2>1 DEF Sequence!Next
<1>5. ASSUME NEW i \in -1 .. Capacity, Get(i) \/ RemoveAt(i) \/ RemoveAtFast(i)
      PROVE  Inv' /\ (Sequence!Get(i) \/ Sequence!RemoveAt(i) \/ Sequence!RemoveAtFast(i))
  <2>1. Inv'
    BY <1>1, <1>5 DEF Get, RemoveAt, RemoveAtFast, Inv
  <2> QED  BY <1>1, <1>5, <2>1, GetRefines, RemoveAtRefines, RemoveAtFastRefines
<1>6. CASE Reset
  <2>1. count \in Nat /\ count <= 2
    BY <1>6 DEF Reset, Inv, TypeOK
  <2>2. ~ (SizeofInt * count > SizeofCount)
    BY <2>1 DEF SizeofInt, SizeofCount
  <2>3. Inv' /\ count' = 0 /\ ret' = 1 /\ call' = Call("reset", 0, Zero)
    BY <1>1, <1>6, <2>2 DEF Reset, Inv
  <2>4. View' = <<>>
    BY <2>3 DEF View
  <2>5. Sequence!Reset
    BY <2>3, <2>4 DEF Sequence!Reset, Sequence!Call, Call, View
  <2> QED  BY <2>3, <2>5 DEF Sequence!Next
<1>7. CASE UNCHANGED vars
  BY <1>7 DEF vars, Inv, TypeOK, Sequence!vars
<1> QED  BY <1>2, <1>3, <1>4, <1>5, <1>6, <1>7 DEF Next, Sequence!Next

\* A new stack is the empty sequence.
LEMMA InitRefines == Init => Inv /\ Sequence!Init
<1>1. ASSUME Init PROVE View = <<>>
  BY <1>1 DEF Init, View
<1> QED  BY <1>1, InitType DEF Init, Inv, Sequence!Init, Sequence!Call, Call, View

\* The array of stack.h, with its shifted, moved and zeroed cells, is the sequence that
\* the model of the server uses, for every capacity and every sequence of calls in which
\* stack_reset finds at most two ints: with three its memset clears the capacity.
THEOREM StackImplementsSequence ==
  ASSUME RESET_MAX <= 2
  PROVE  Spec => ImplementsSequence
<1>1. Init => Inv /\ Sequence!Init
  BY InitRefines
<1>2. Inv /\ [Next]_vars => Inv' /\ [Sequence!Next]_Sequence!vars
  BY StepRefines
<1> QED  BY <1>1, <1>2, PTL DEF Spec, ImplementsSequence, Sequence!Spec
=============================================================================
