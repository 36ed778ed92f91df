--------------------------- MODULE ExchangeProofs ---------------------------
(***************************************************************************)
(* The memory of a client program for every size of its pages, its buffers *)
(* and its command line: what arena_alloc of src/src/arena.h hands out in  *)
(* all the rounds of a watching client.                                    *)
(***************************************************************************)
EXTENDS Exchange, StructureLemmas

\* The configuration, the argument indices and the token stream fit the first page.
Used(words) == CONFIG_SIZE + SizeofIndex * (Len(words) + 1) + STREAM_SIZE

StartFits == \A words \in DOMAIN Usage : Len(words) \in Nat /\ Used(words) <= PAGE_SIZE

Regions == [1 .. PAGE_COUNT -> [size : {PAGE_SIZE}, current : Nat, eom : BOOLEAN]]

Block == [ptr : [region : 1 .. PAGE_COUNT, offset : Nat], size : Nat]

\* The memory of a locked arena with all its pages.
Locked(a) == a \in Regions /\ a[PAGE_COUNT].eom = TRUE

\* Every block ends where its region is filled or before, and begins behind the others.
Placed(a, b) ==
  /\ \A i \in 1 .. Len(b) :
       LET x == b[i] IN x.ptr.offset + x.size <= a[x.ptr.region].current
  /\ \A r \in 1 .. PAGE_COUNT : a[r].current <= PAGE_SIZE
  /\ \A i, j \in 1 .. Len(b) :
       i < j /\ b[i].ptr.region = b[j].ptr.region =>
         b[i].ptr.offset + b[i].size <= b[j].ptr.offset

-----------------------------------------------------------------------------
\* The buffers a page has room for, the pages before page m, and all of them.
Begin(words, r) == IF r = 1 THEN Used(words) ELSE 0

Cap(words, r) == (PAGE_SIZE - Begin(words, r)) \div BUF_SIZE

Before(words, m) == IF m = 1 THEN 0 ELSE Cap(words, 1) + (m - 2) * Cap(words, 2)

Total(words) == Cap(words, 1) + (PAGE_COUNT - 1) * Cap(words, 2)

\* The first n buffers fill the pages in their order, each up to its last buffer.
Filled(words, a, n) ==
  \E m \in 1 .. PAGE_COUNT : \E j \in 0 .. PAGE_SIZE :
    /\ j <= Cap(words, m) /\ n = Before(words, m) + j
    /\ \A r \in 1 .. PAGE_COUNT :
         a[r].current = Begin(words, r) +
                          (IF r < m THEN Cap(words, r) ELSE IF r = m THEN j ELSE 0) * BUF_SIZE

\* The inductive invariant: the blocks lie one behind the other, and while the program
\* runs its buffers fill the pages in order.
Inv ==
  /\ argv \in [Client -> DOMAIN Usage] /\ sent \in [Client -> Nat]
  /\ pc \in [Client -> {"idle", "waiting", "ended", "starved"}]
  /\ arena \in [Client -> Regions] /\ blocks \in [Client -> Seq(Block)]
  /\ \A c \in Client :
       /\ Locked(arena[c]) /\ Placed(arena[c], blocks[c])
       /\ pc[c] \in {"idle", "waiting"} => Filled(argv[c], arena[c], 2 * sent[c])
       /\ pc[c] = "starved" => Total(argv[c]) \in {2 * sent[c], 2 * sent[c] + 1}

-----------------------------------------------------------------------------
LEMMA RegionsLen ==
  ASSUME NEW a \in Regions
  PROVE  Len(a) = PAGE_COUNT /\ DOMAIN a = 1 .. PAGE_COUNT
<1> DEFINE Region == [size : {PAGE_SIZE}, current : Nat, eom : BOOLEAN]
<1>1. PAGE_COUNT \in Nat /\ a \in [1 .. PAGE_COUNT -> Region]
  BY ExchangeAssumption DEF Regions
<1> HIDE DEF Region
<1>2. a \in Seq(Region)
  BY <1>1, SeqDef
<1>3. DOMAIN a = 1 .. PAGE_COUNT /\ DOMAIN a = 1 .. Len(a) /\ Len(a) \in Nat
  BY <1>1, <1>2, LenProperties
<1> QED  BY <1>1, <1>3

LeastOf(M) == CHOOSE r \in M : \A q \in M : r <= q

\* What arena_alloc does in a locked arena: it reserves in the first region with room, or
\* gives nothing and changes nothing.
LEMMA AllocCases ==
  ASSUME NEW a, Locked(a), NEW size \in Nat
  PROVE  LET x == arena_alloc(a, size)
             room == {r \in 1 .. PAGE_COUNT : a[r].current + size <= PAGE_SIZE}
         IN  \/ /\ size > PAGE_SIZE \/ room = {}
                /\ x.arena = a /\ x.ptr = NoPointer
             \/ \E r \in room : (\A q \in room : r <= q) /\ x = Reserved(a, r, size)
<1> DEFINE x == arena_alloc(a, size)
           room == {r \in 1 .. PAGE_COUNT : a[r].current + size <= PAGE_SIZE}
           fits == {r \in 1 .. Len(a) : Fits(a[r], size)}
<1>1. a \in Regions /\ a[PAGE_COUNT].eom = TRUE /\ Len(a) = PAGE_COUNT
  BY RegionsLen DEF Locked
<1>2. PAGE_COUNT \in Nat \ {0} /\ \A r \in 1 .. PAGE_COUNT : a[r].size = PAGE_SIZE
  BY <1>1, ExchangeAssumption DEF Regions
<1>3. fits = room
  BY <1>1, <1>2 DEF Fits
<1>4. x = IF size > PAGE_SIZE THEN [arena |-> a, ptr |-> NoPointer]
          ELSE IF room # {} THEN Reserved(a, LeastOf(room), size)
          ELSE [arena |-> a, ptr |-> NoPointer]
  <2>1. a[1].size = PAGE_SIZE
    BY <1>2
  <2>2. x = IF size > a[1].size THEN [arena |-> a, ptr |-> NoPointer]
            ELSE IF fits # {} THEN Reserved(a, LeastOf(fits), size)
            ELSE IF a[Len(a)].eom THEN [arena |-> a, ptr |-> NoPointer]
            ELSE Reserved(Append(a, arena_create(size)), Len(a) + 1, size)
    BY DEF arena_alloc, LeastOf
  <2> HIDE DEF room, fits, x
  <2> QED  BY <1>1, <1>3, <2>1, <2>2
<1>5. ASSUME room # {} PROVE LeastOf(room) \in room /\ \A q \in room : LeastOf(room) <= q
  <2>1. room \in SUBSET Nat
    BY <1>2
  <2> HIDE DEF room
  <2>2. \E r \in room : \A q \in room : r <= q
    BY <1>5, <2>1, Lowest
  <2> QED  BY <2>2 DEF LeastOf
<1> HIDE DEF room, x
<1>6. CASE size > PAGE_SIZE \/ room = {}
  <2>1. x = [arena |-> a, ptr |-> NoPointer]
    BY <1>4, <1>6
  <2>2. x.arena = a /\ x.ptr = NoPointer
    BY <2>1
  <2> QED  BY <1>6, <2>2 DEF room, x
<1>7. CASE ~ (size > PAGE_SIZE \/ room = {})
  <2>1. \E r \in room : (\A q \in room : r <= q) /\ x = Reserved(a, r, size)
    BY <1>4, <1>5, <1>7
  <2> QED  BY <2>1 DEF room, x
<1> QED  BY <1>6, <1>7

\* The region that is reserved in.
LEMMA ReservedArena ==
  ASSUME NEW a, Locked(a), NEW size \in Nat, NEW r \in 1 .. PAGE_COUNT
  PROVE  LET x == Reserved(a, r, size)
         IN  /\ Locked(x.arena)
             /\ \A q \in 1 .. PAGE_COUNT :
                  x.arena[q].current = IF q = r THEN a[r].current + size ELSE a[q].current
             /\ x.ptr = [region |-> r, offset |-> a[r].current] /\ x.ptr # NoPointer
<1>1. a \in Regions /\ a[PAGE_COUNT].eom = TRUE /\ PAGE_COUNT \in Nat \ {0}
  BY ExchangeAssumption DEF Locked
<1>2. a[r] \in [size : {PAGE_SIZE}, current : Nat, eom : BOOLEAN]
  BY <1>1 DEF Regions
<1> DEFINE new == [a EXCEPT ![r].current = @ + size]
<1>3. Reserved(a, r, size) = [arena |-> new, ptr |-> [region |-> r, offset |-> a[r].current]]
  BY DEF Reserved
<1>4. new \in Regions
  BY <1>1, <1>2 DEF Regions
<1>5. new[PAGE_COUNT].eom = TRUE
  BY <1>1, <1>2 DEF Regions
<1>6. \A q \in 1 .. PAGE_COUNT :
        new[q].current = IF q = r THEN a[r].current + size ELSE a[q].current
  BY <1>1, <1>2 DEF Regions
<1>7. [region |-> r, offset |-> a[r].current] # NoPointer
  BY DEF NoPointer
<1> HIDE DEF new
<1> QED  BY <1>3, <1>4, <1>5, <1>6, <1>7 DEF Locked

\* The region r of a is filled up by size, and no other.
Grown(x, a, r, size) ==
  /\ Locked(x.arena) /\ x.ptr # NoPointer
  /\ \A q \in 1 .. PAGE_COUNT :
       x.arena[q].current = IF q = r THEN a[r].current + size ELSE a[q].current

LEMMA ReservedGrows ==
  ASSUME NEW a, Locked(a), NEW size \in Nat, NEW r \in 1 .. PAGE_COUNT
  PROVE  Grown(Reserved(a, r, size), a, r, size)
BY ReservedArena DEF Grown

\* A block behind everything its region holds lies apart from all the others.
LEMMA ReservedPlaced ==
  ASSUME NEW a, NEW b \in Seq(Block), Locked(a), Placed(a, b), NEW size \in Nat,
         NEW r \in 1 .. PAGE_COUNT, a[r].current + size <= PAGE_SIZE
  PROVE  LET x == Reserved(a, r, size)
             more == Append(b, [ptr |-> x.ptr, size |-> size])
         IN  /\ Placed(x.arena, b)
             /\ more \in Seq(Block) /\ Placed(x.arena, more)
<1> DEFINE x == Reserved(a, r, size)
           n == Len(b)
           blk == [ptr |-> [region |-> r, offset |-> a[r].current], size |-> size]
           more == Append(b, blk)
<1>1. \A q \in 1 .. PAGE_COUNT :
        /\ a[q].current \in Nat /\ x.arena[q].current \in Nat
        /\ x.arena[q].current = IF q = r THEN a[r].current + size ELSE a[q].current
  <2>1. a \in Regions /\ x.arena \in Regions
    BY ReservedArena DEF Locked
  <2>2. \A q \in 1 .. PAGE_COUNT :
          x.arena[q].current = IF q = r THEN a[r].current + size ELSE a[q].current
    BY ReservedArena
  <2> HIDE DEF x
  <2> QED  BY <2>1, <2>2 DEF Regions
<1>2. x.ptr = [region |-> r, offset |-> a[r].current]
  BY ReservedArena
<1>3. blk \in Block
  BY <1>1 DEF Block
<1>4. more \in Seq(Block) /\ n \in Nat /\ Len(more) = n + 1 /\ more[n + 1] = blk
      /\ \A i \in 1 .. n : more[i] = b[i] /\ b[i] \in Block
  BY <1>3, AppendProperties, LenProperties, ElementOfSeq
<1>5. \A i \in 1 .. n : /\ b[i].ptr.region \in 1 .. PAGE_COUNT
                        /\ b[i].ptr.offset \in Nat /\ b[i].size \in Nat
  BY <1>4 DEF Block
<1>6. \A i \in 1 .. n : b[i].ptr.offset + b[i].size <= a[b[i].ptr.region].current
  BY DEF Placed
<1>7. \A i \in 1 .. n : b[i].ptr.offset + b[i].size <= x.arena[b[i].ptr.region].current
  <2> HIDE DEF x
  <2> TAKE i \in 1 .. n
  <2> DEFINE q == b[i].ptr.region
             end == b[i].ptr.offset + b[i].size
  <2>1. q \in 1 .. PAGE_COUNT /\ end \in Nat /\ end <= a[q].current
    BY <1>5, <1>6
  <2> HIDE DEF q, end
  <2>2. end <= x.arena[q].current
    BY <1>1, <2>1, SMTT(30)
  <2> QED  BY <2>2 DEF q, end
<1>8. \A q \in 1 .. PAGE_COUNT : x.arena[q].current <= PAGE_SIZE
  BY <1>1 DEF Placed
<1>9. Placed(x.arena, b)
  BY <1>7, <1>8 DEF Placed
<1>10. blk.ptr.region = r /\ blk.ptr.offset = a[r].current /\ blk.size = size
  OBVIOUS
<1> HIDE DEF x, blk, n, more
<1>11. \A i \in 1 .. n + 1 :
         more[i].ptr.offset + more[i].size <= x.arena[more[i].ptr.region].current
  <2> TAKE i \in 1 .. n + 1
  <2>1. CASE i = n + 1
    BY <1>1, <1>4, <1>10, <2>1
  <2>2. CASE i # n + 1
    BY <1>4, <1>7, <2>2
  <2> QED  BY <2>1, <2>2
<1>12. ASSUME NEW i \in 1 .. n + 1, NEW j \in 1 .. n + 1, i < j,
              more[i].ptr.region = more[j].ptr.region
       PROVE  more[i].ptr.offset + more[i].size <= more[j].ptr.offset
  <2>1. i \in 1 .. n /\ more[i] = b[i]
    BY <1>4, <1>12
  <2>2. CASE j = n + 1
    BY <1>4, <1>6, <1>10, <1>12, <2>1, <2>2
  <2>3. CASE j # n + 1
    <3>1. j \in 1 .. n /\ more[j] = b[j]
      BY <1>4, <2>3
    <3> QED  BY <1>12, <2>1, <3>1 DEF Placed, n
  <2> QED  BY <2>2, <2>3
<1>13. Placed(x.arena, more)
  BY <1>4, <1>8, <1>11, <1>12 DEF Placed
<1> QED  BY <1>2, <1>4, <1>9, <1>13 DEF x, more, blk

-----------------------------------------------------------------------------
\* Whole blocks of size b in x bytes.
LEMMA Division ==
  ASSUME NEW x \in Nat, NEW b \in Nat, b # 0
  PROVE  LET q == x \div b
         IN  q \in Nat /\ q <= x /\ q * b \in Nat /\ q * b <= x /\ x < q * b + b
OBVIOUS

LEMMA OneMore ==
  ASSUME NEW j \in Nat, NEW k \in Nat, NEW b \in Nat
  PROVE  /\ j * b \in Nat /\ (j + 1) * b = j * b + b
         /\ 0 * b = 0 /\ 1 * b = b
         /\ j < k => j * b + b <= k * b
OBVIOUS

\* A page with as many buffers as it has room for has none for another one.
LEMMA CapFacts ==
  ASSUME StartFits, NEW words \in DOMAIN Usage, NEW r \in Nat \ {0}
  PROVE  LET cap == Cap(words, r)
             begin == Begin(words, r)
         IN  /\ begin \in Nat /\ begin <= PAGE_SIZE
             /\ cap \in Nat /\ cap * BUF_SIZE \in Nat /\ cap <= PAGE_SIZE
             /\ begin + cap * BUF_SIZE <= PAGE_SIZE
             /\ PAGE_SIZE < begin + cap * BUF_SIZE + BUF_SIZE
             /\ r # 1 => begin = 0 /\ cap = Cap(words, 2)
<1> DEFINE begin == Begin(words, r)
           x == PAGE_SIZE - begin
           cap == x \div BUF_SIZE
<1>1. BUF_SIZE \in Nat /\ BUF_SIZE # 0 /\ PAGE_SIZE \in Nat
  BY ExchangeAssumption
<1>2. Used(words) \in Nat /\ Used(words) <= PAGE_SIZE
  BY ExchangeAssumption DEF StartFits, Used, SizeofIndex
<1>3. begin \in Nat /\ begin <= PAGE_SIZE
  BY <1>1, <1>2 DEF Begin
<1>4. x \in Nat /\ x <= PAGE_SIZE /\ begin + x = PAGE_SIZE
  BY <1>1, <1>3
<1>5. Cap(words, r) = cap /\ (r # 1 => begin = 0 /\ Cap(words, r) = Cap(words, 2))
  BY DEF Cap, Begin
<1> HIDE DEF begin, x
<1>6. /\ cap \in Nat /\ cap * BUF_SIZE \in Nat /\ cap <= x /\ cap * BUF_SIZE <= x
      /\ x < cap * BUF_SIZE + BUF_SIZE
  BY <1>1, <1>4, Division
<1> HIDE DEF cap
<1> DEFINE m == cap * BUF_SIZE
<1>7. m \in Nat /\ m <= x /\ x < m + BUF_SIZE /\ cap \in Nat /\ cap <= x
  BY <1>6
<1> HIDE DEF m
<1>8. cap <= PAGE_SIZE /\ begin + m <= PAGE_SIZE /\ PAGE_SIZE < begin + m + BUF_SIZE
  BY <1>1, <1>3, <1>4, <1>7
<1> QED  BY <1>3, <1>5, <1>7, <1>8 DEF m, begin

\* The buffers before the next page, and before the end.
LEMMA BeforeNext ==
  ASSUME StartFits, NEW words \in DOMAIN Usage, NEW m \in 1 .. PAGE_COUNT
  PROVE  /\ Before(words, m) \in Nat
         /\ Before(words, m + 1) = Before(words, m) + Cap(words, m)
         /\ Total(words) = Before(words, PAGE_COUNT) + Cap(words, PAGE_COUNT)
         /\ Cap(words, 2) = 0 => Cap(words, m) = 0 /\ Before(words, m) = 0 /\ Total(words) = 0
<1> DEFINE one == Cap(words, 1)
           two == Cap(words, 2)
<1>1. PAGE_COUNT \in Nat \ {0} /\ m \in Nat \ {0} /\ PAGE_SIZE \in Nat /\ BUF_SIZE \in Nat
  BY ExchangeAssumption
<1>2. one \in Nat /\ two \in Nat
  BY CapFacts
<1>3. \A k \in Nat \ {0} : Cap(words, k) = IF k = 1 THEN one ELSE two
  BY CapFacts
<1>4. two = 0 => one = 0
  <2>1. /\ Begin(words, 1) + one * BUF_SIZE <= PAGE_SIZE /\ Begin(words, 1) \in Nat
        /\ PAGE_SIZE < Begin(words, 2) + two * BUF_SIZE + BUF_SIZE /\ Begin(words, 2) = 0
    BY CapFacts
  <2> HIDE DEF one, two
  <2> SUFFICES ASSUME two = 0, one > 0 PROVE FALSE
    BY <1>2
  <2>2. two * BUF_SIZE = 0 /\ BUF_SIZE <= one * BUF_SIZE /\ one * BUF_SIZE \in Nat
    BY <1>1, <1>2, OneMore
  <2> QED  BY <1>1, <2>1, <2>2
<1>5. /\ Before(words, m) = IF m = 1 THEN 0 ELSE one + (m - 2) * two
      /\ Before(words, m + 1) = one + ((m + 1) - 2) * two
      /\ Before(words, PAGE_COUNT) = IF PAGE_COUNT = 1 THEN 0 ELSE one + (PAGE_COUNT - 2) * two
      /\ Total(words) = one + (PAGE_COUNT - 1) * two
  BY <1>1 DEF Before, Total
<1> HIDE DEF one, two
<1>6. ASSUME NEW k \in Nat \ {0, 1} PROVE (k - 1) * two = (k - 2) * two + two /\ (k - 2) * two \in Nat
  <2>1. k - 2 \in Nat /\ (k - 2) + 1 = k - 1
    OBVIOUS
  <2> HIDE DEF two
  <2> QED  BY <1>2, <2>1, OneMore
<1>7. (m + 1) - 2 = m - 1 /\ (1 - 1) * two = 0
  BY <1>1, <1>2
<1>8. Before(words, m) \in Nat /\ Before(words, m + 1) = Before(words, m) + Cap(words, m)
  BY <1>1, <1>2, <1>3, <1>5, <1>6, <1>7
<1>9. Total(words) = Before(words, PAGE_COUNT) + Cap(words, PAGE_COUNT)
  BY <1>1, <1>2, <1>3, <1>5, <1>6, <1>7
<1>10. two = 0 => Cap(words, m) = 0 /\ Before(words, m) = 0 /\ Total(words) = 0
  <2>1. \A k \in Nat : k * 0 = 0
    BY <1>1
  <2> QED  BY <1>1, <1>3, <1>4, <1>5, <2>1
<1> QED  BY <1>8, <1>9, <1>10 DEF two

\* Another buffer goes behind the last one, on its page or on the next; there is none
\* exactly when all pages are full.
LEMMA AllocFilled ==
  ASSUME StartFits, NEW words \in DOMAIN Usage, NEW a, Locked(a),
         NEW n \in Nat, Filled(words, a, n)
  PROVE  LET x == arena_alloc(a, BUF_SIZE)
         IN  IF x.ptr = NoPointer THEN x.arena = a /\ n = Total(words)
             ELSE Filled(words, x.arena, n + 1)
<1> DEFINE x == arena_alloc(a, BUF_SIZE)
           room == {r \in 1 .. PAGE_COUNT : a[r].current + BUF_SIZE <= PAGE_SIZE}
           At(r, m, j) == Begin(words, r) +
             (IF r < m THEN Cap(words, r) ELSE IF r = m THEN j ELSE 0) * BUF_SIZE
<1>1. PICK m \in 1 .. PAGE_COUNT, j \in 0 .. PAGE_SIZE :
        /\ j <= Cap(words, m) /\ n = Before(words, m) + j
        /\ \A r \in 1 .. PAGE_COUNT : a[r].current = At(r, m, j)
  BY DEF Filled
<1>2. /\ PAGE_COUNT \in Nat \ {0} /\ PAGE_SIZE \in Nat
      /\ BUF_SIZE \in Nat /\ BUF_SIZE # 0 /\ m \in Nat \ {0} /\ j \in Nat
  BY ExchangeAssumption
<1>3. \A r \in 1 .. PAGE_COUNT : a[r].current \in Nat
  BY DEF Locked, Regions
<1>4. /\ Before(words, m) \in Nat /\ Before(words, m + 1) = Before(words, m) + Cap(words, m)
      /\ Total(words) = Before(words, PAGE_COUNT) + Cap(words, PAGE_COUNT)
      /\ Cap(words, 2) = 0 => Cap(words, m) = 0 /\ Before(words, m) = 0 /\ Total(words) = 0
  BY BeforeNext
<1>5. \/ /\ BUF_SIZE > PAGE_SIZE \/ room = {}
         /\ x.arena = a /\ x.ptr = NoPointer
      \/ \E r \in room : (\A q \in room : r <= q) /\ x = Reserved(a, r, BUF_SIZE)
  BY <1>2, AllocCases
<1>6. Cap(words, m) \in Nat /\ Cap(words, m) <= PAGE_SIZE /\ Cap(words, 2) \in Nat
  BY <1>2, CapFacts
<1> HIDE DEF x
<1>7. /\ Begin(words, 2) = 0 /\ Cap(words, 2) * BUF_SIZE <= PAGE_SIZE
      /\ PAGE_SIZE < Cap(words, 2) * BUF_SIZE + BUF_SIZE
  <2> DEFINE y == Cap(words, 2) * BUF_SIZE
  <2>1. /\ Begin(words, 2) = 0 /\ y \in Nat /\ Begin(words, 2) + y <= PAGE_SIZE
        /\ PAGE_SIZE < Begin(words, 2) + y + BUF_SIZE
    BY CapFacts
  <2> HIDE DEF y
  <2>2. y <= PAGE_SIZE /\ PAGE_SIZE < y + BUF_SIZE
    BY <2>1
  <2> QED  BY <2>1, <2>2 DEF y
<1>8. CASE BUF_SIZE > PAGE_SIZE
  <2>1. Cap(words, 2) = 0
    <3>1. 0 < Cap(words, 2) => 0 * BUF_SIZE + BUF_SIZE <= Cap(words, 2) * BUF_SIZE /\ 0 * BUF_SIZE = 0
      BY <1>2, <1>6, OneMore
    <3>2. Cap(words, 2) * BUF_SIZE \in Nat
      BY <1>2, <1>6, OneMore
    <3> QED  BY <1>2, <1>6, <1>7, <1>8, <3>1, <3>2
  <2>2. n = Total(words)
    BY <1>1, <1>2, <1>4, <2>1
  <2>3. room = {}
    BY <1>2, <1>3, <1>8
  <2> QED  BY <1>5, <2>2, <2>3 DEF x
<1>9. CASE ~ BUF_SIZE > PAGE_SIZE
  <2>1. ASSUME NEW r \in 1 .. m - 1 PROVE r \notin room
    <3>1. r \in 1 .. PAGE_COUNT /\ r \in Nat \ {0} /\ r < m
      BY <1>2
    <3>2. a[r].current = Begin(words, r) + Cap(words, r) * BUF_SIZE
      BY <1>1, <3>1
    <3>3. PAGE_SIZE < a[r].current + BUF_SIZE
      BY <3>1, <3>2, CapFacts
    <3> QED  BY <1>2, <1>3, <3>1, <3>3
  <2>2. a[m].current = Begin(words, m) + j * BUF_SIZE
    BY <1>1, <1>2
  <2>3. CASE j < Cap(words, m)
    <3>1. a[m].current + BUF_SIZE <= PAGE_SIZE
      <4> DEFINE y == j * BUF_SIZE
                 z == Cap(words, m) * BUF_SIZE
      <4>1. y \in Nat /\ y + BUF_SIZE <= z /\ z \in Nat
        BY <1>2, <1>6, <2>3, OneMore
      <4>2. Begin(words, m) \in Nat /\ Begin(words, m) + z <= PAGE_SIZE
        BY <1>2, CapFacts
      <4>3. a[m].current = Begin(words, m) + y
        BY <2>2
      <4> HIDE DEF y, z
      <4> QED  BY <1>2, <4>1, <4>2, <4>3
    <3>2. m \in room /\ \A q \in room : m <= q
      BY <1>2, <2>1, <3>1
    <3>3. x = Reserved(a, m, BUF_SIZE)
      <4> HIDE DEF room
      <4>1. PICK r \in room : (\A q \in room : r <= q) /\ x = Reserved(a, r, BUF_SIZE)
        BY <1>5, <1>9, <3>2
      <4>2. r <= m /\ m <= r
        BY <3>2, <4>1
      <4>3. r = m
        BY <1>2, <4>1, <4>2 DEF room
      <4> QED  BY <4>1, <4>3
    <3>4. /\ x.ptr # NoPointer
          /\ \A q \in 1 .. PAGE_COUNT :
               x.arena[q].current = IF q = m THEN a[m].current + BUF_SIZE ELSE a[q].current
      <4>1. m \in 1 .. PAGE_COUNT /\ BUF_SIZE \in Nat
        BY <1>1, <1>2
      <4> HIDE DEF At, room
      <4>2. Grown(x, a, m, BUF_SIZE)
        BY <3>3, <4>1, ReservedGrows, Zenon
      <4> QED  BY <4>2 DEF Grown
    <3>5. (j + 1) * BUF_SIZE = j * BUF_SIZE + BUF_SIZE /\ j * BUF_SIZE \in Nat
      BY <1>2, OneMore
    <3>6. Begin(words, m) \in Nat
      BY <1>2, CapFacts
    <3>7. \A r \in 1 .. PAGE_COUNT : x.arena[r].current = At(r, m, j + 1)
      <4> TAKE r \in 1 .. PAGE_COUNT
      <4>1. CASE r = m
        <5>1. At(r, m, j + 1) = Begin(words, m) + (j + 1) * BUF_SIZE
          BY <1>2, <4>1
        <5>2. x.arena[r].current = (Begin(words, m) + j * BUF_SIZE) + BUF_SIZE
          BY <2>2, <3>4, <4>1
        <5> DEFINE y == j * BUF_SIZE
        <5>3. y \in Nat /\ At(r, m, j + 1) = Begin(words, m) + (y + BUF_SIZE)
          BY <3>5, <5>1
        <5>4. x.arena[r].current = (Begin(words, m) + y) + BUF_SIZE
          BY <5>2
        <5> HIDE DEF y, At
        <5> QED  BY <1>2, <3>6, <5>3, <5>4
      <4>2. CASE r # m
        BY <1>1, <3>4, <4>2
      <4> QED  BY <4>1, <4>2
    <3>8. j + 1 \in 0 .. PAGE_SIZE /\ j + 1 <= Cap(words, m) /\ n + 1 = Before(words, m) + (j + 1)
      BY <1>1, <1>2, <1>4, <1>6, <2>3
    <3>9. Filled(words, x.arena, n + 1)
      BY <3>7, <3>8 DEF Filled
    <3> QED  BY <3>4, <3>9 DEF x
  <2>4. CASE j = Cap(words, m)
    <3>1. m \notin room
      <4>1. PAGE_SIZE < a[m].current + BUF_SIZE
        BY <1>2, <2>2, <2>4, CapFacts
      <4> QED  BY <1>2, <1>3, <4>1
    <3>2. CASE m = PAGE_COUNT
      <4>1. room = {}
        BY <1>2, <2>1, <3>1, <3>2
      <4>2. n = Total(words)
        BY <1>1, <1>4, <2>4, <3>2
      <4> QED  BY <1>5, <4>1, <4>2 DEF x
    <3>3. CASE m # PAGE_COUNT
      <4>1. m + 1 \in 1 .. PAGE_COUNT /\ m + 1 \in Nat \ {0} /\ m + 1 # 1
        BY <1>2, <3>3
      <4>2. Begin(words, m + 1) = 0 /\ Cap(words, m + 1) = Cap(words, 2)
        BY <4>1, CapFacts
      <4>3. \A k \in Nat : 0 * BUF_SIZE = 0 /\ 1 * BUF_SIZE = BUF_SIZE
        BY <1>2, OneMore
      <4>4. a[m + 1].current = 0
        BY <1>1, <1>2, <4>1, <4>2, <4>3
      <4>5. m + 1 \in room /\ \A q \in room : m + 1 <= q
        BY <1>2, <1>9, <2>1, <3>1, <4>1, <4>4
      <4>6. x = Reserved(a, m + 1, BUF_SIZE)
        <5> HIDE DEF room
        <5>1. PICK r \in room : (\A q \in room : r <= q) /\ x = Reserved(a, r, BUF_SIZE)
          BY <1>5, <1>9, <4>5
        <5>2. r <= m + 1 /\ m + 1 <= r
          BY <4>5, <5>1
        <5>3. r = m + 1
          BY <1>2, <5>1, <5>2 DEF room
        <5> QED  BY <5>1, <5>3
      <4>7. /\ x.ptr # NoPointer
            /\ \A q \in 1 .. PAGE_COUNT :
                 x.arena[q].current = IF q = m + 1 THEN a[m + 1].current + BUF_SIZE ELSE a[q].current
        <5>1. BUF_SIZE \in Nat
          BY <1>2
        <5> HIDE DEF At, room
        <5>2. Grown(x, a, m + 1, BUF_SIZE)
          BY <4>1, <4>6, <5>1, ReservedGrows, Zenon
        <5> QED  BY <5>2 DEF Grown
      <4>8. ASSUME NEW r \in 1 .. PAGE_COUNT PROVE x.arena[r].current = At(r, m + 1, 1)
        <5>1. CASE r = m + 1
          <6>1. At(r, m + 1, 1) = 0 + BUF_SIZE
            BY <1>2, <4>2, <4>3, <5>1
          <6> QED  BY <1>2, <4>4, <4>7, <5>1, <6>1
        <5>2. CASE r < m + 1
          <6>1. r < m \/ r = m
            BY <1>2, <5>2
          <6>2. At(r, m, j) = At(r, m + 1, 1)
            BY <1>2, <2>4, <5>2, <6>1
          <6> HIDE DEF At
          <6> QED  BY <1>1, <1>2, <4>7, <5>2, <6>2
        <5>3. CASE r > m + 1
          <6>1. At(r, m, j) = At(r, m + 1, 1)
            BY <1>2, <5>3
          <6> HIDE DEF At
          <6> QED  BY <1>1, <1>2, <4>7, <5>3, <6>1
        <5> QED  BY <1>2, <5>1, <5>2, <5>3
      <4>9. 1 <= Cap(words, m + 1)
        <5>1. Cap(words, 2) = 0 => Cap(words, 2) * BUF_SIZE = 0
          BY <4>3
        <5> QED  BY <1>2, <1>6, <1>7, <1>9, <4>2, <5>1
      <4>10. 1 \in 0 .. PAGE_SIZE /\ n + 1 = Before(words, m + 1) + 1
        BY <1>1, <1>2, <1>4, <1>9, <2>4
      <4>11. Filled(words, x.arena, n + 1)
        BY <4>1, <4>8, <4>9, <4>10 DEF Filled
      <4> QED  BY <4>7, <4>11 DEF x
    <3> QED  BY <3>2, <3>3
  <2> QED  BY <1>1, <1>2, <1>6, <2>3, <2>4
<1> QED  BY <1>8, <1>9

-----------------------------------------------------------------------------
\* Whatever arena_alloc answers, the blocks stay apart.
LEMMA AllocPlaced ==
  ASSUME NEW a, NEW b \in Seq(Block), Locked(a), Placed(a, b), NEW size \in Nat
  PROVE  LET x == arena_alloc(a, size)
             more == Append(b, [ptr |-> x.ptr, size |-> size])
         IN  /\ Locked(x.arena) /\ Placed(x.arena, b)
             /\ x.ptr # NoPointer => more \in Seq(Block) /\ Placed(x.arena, more)
             /\ x.ptr \in [region : Nat, offset : Nat]
<1> DEFINE x == arena_alloc(a, size)
<1>1. CASE x.arena = a /\ x.ptr = NoPointer
  <2>1. NoPointer \in [region : Nat, offset : Nat]
    BY DEF NoPointer
  <2> QED  BY <1>1, <2>1
<1>2. CASE ~ (x.arena = a /\ x.ptr = NoPointer)
  <2>1. PICK r \in 1 .. PAGE_COUNT :
          a[r].current + size <= PAGE_SIZE /\ x = Reserved(a, r, size)
    BY <1>2, AllocCases
  <2> DEFINE y == Reserved(a, r, size)
  <2>2. /\ Locked(y.arena) /\ Placed(y.arena, b)
        /\ y.ptr = [region |-> r, offset |-> a[r].current]
    BY <2>1, ReservedArena, ReservedPlaced
  <2>3. /\ Append(b, [ptr |-> y.ptr, size |-> size]) \in Seq(Block)
        /\ Placed(y.arena, Append(b, [ptr |-> y.ptr, size |-> size]))
    BY <2>1, ReservedPlaced
  <2>4. r \in Nat /\ a[r].current \in Nat
    BY <2>1, ExchangeAssumption DEF Locked, Regions
  <2>5. y.ptr \in [region : Nat, offset : Nat]
    BY <2>2, <2>4
  <2> HIDE DEF y, x
  <2>6. x = y
    BY <2>1 DEF y
  <2> QED  BY <2>2, <2>3, <2>5, <2>6 DEF x
<1> QED  BY <1>1, <1>2

\* connection_init: both buffers are apart from all that was handed out before, and there
\* is no memory for them only when less than two are left.
LEMMA ConnectionKeeps ==
  ASSUME StartFits, Inv, NEW c \in Client, pc[c] = "idle"
  PROVE  LET M == ConnectionMemory(c)
         IN  /\ Locked(M.arena) /\ Placed(M.arena, blocks[c])
             /\ OutOfMemory(M) => Total(argv[c]) \in {2 * sent[c], 2 * sent[c] + 1}
             /\ ~ OutOfMemory(M) =>
                  /\ M.blocks \in Seq(Block) /\ Placed(M.arena, M.blocks)
                  /\ Filled(argv[c], M.arena, 2 * (sent[c] + 1))
<1> DEFINE a == arena[c]
           b == blocks[c]
           w == argv[c]
           n == 2 * sent[c]
           x == arena_alloc(a, BUF_SIZE)
           b1 == Append(b, [ptr |-> x.ptr, size |-> BUF_SIZE])
           y == arena_alloc(x.arena, BUF_SIZE)
           b2 == Append(b1, [ptr |-> y.ptr, size |-> BUF_SIZE])
           M == [arena |-> y.arena, blocks |-> b2]
           Given == [ptr : [region : Nat, offset : Nat], size : Nat]
<1>1. /\ Locked(a) /\ Placed(a, b) /\ b \in Seq(Block) /\ w \in DOMAIN Usage /\ sent[c] \in Nat
      /\ n \in Nat /\ n + 1 \in Nat /\ (n + 1) + 1 = 2 * (sent[c] + 1) /\ Filled(w, a, n)
      /\ BUF_SIZE \in Nat
  BY ExchangeAssumption DEF Inv
<1>2. ConnectionMemory(c) = M
  BY DEF ConnectionMemory, Allocated
<1> HIDE DEF a, b, w, n
<1>3. /\ Locked(x.arena) /\ Placed(x.arena, b)
      /\ x.ptr # NoPointer => b1 \in Seq(Block) /\ Placed(x.arena, b1)
      /\ x.ptr \in [region : Nat, offset : Nat]
  BY <1>1, AllocPlaced
<1>4. IF x.ptr = NoPointer THEN x.arena = a /\ n = Total(w) ELSE Filled(w, x.arena, n + 1)
  BY <1>1, AllocFilled
<1> HIDE DEF x
<1>5. /\ Locked(y.arena) /\ Placed(y.arena, b)
      /\ y.ptr \in [region : Nat, offset : Nat]
  BY <1>1, <1>3, AllocPlaced
<1>6. x.ptr # NoPointer =>
        /\ y.ptr # NoPointer => b2 \in Seq(Block) /\ Placed(y.arena, b2)
        /\ IF y.ptr = NoPointer THEN n + 1 = Total(w) ELSE Filled(w, y.arena, (n + 1) + 1)
  <2> SUFFICES ASSUME x.ptr # NoPointer
               PROVE  /\ y.ptr # NoPointer => b2 \in Seq(Block) /\ Placed(y.arena, b2)
                      /\ IF y.ptr = NoPointer THEN n + 1 = Total(w)
                         ELSE Filled(w, y.arena, (n + 1) + 1)
    OBVIOUS
  <2> HIDE DEF b1
  <2>1. b1 \in Seq(Block) /\ Placed(x.arena, b1) /\ Filled(w, x.arena, n + 1)
    BY <1>3, <1>4
  <2>2. y.ptr # NoPointer => b2 \in Seq(Block) /\ Placed(y.arena, b2)
    BY <1>1, <1>3, <2>1, AllocPlaced
  <2>3. IF y.ptr = NoPointer THEN n + 1 = Total(w) ELSE Filled(w, y.arena, (n + 1) + 1)
    BY <1>1, <1>3, <2>1, AllocFilled
  <2> QED  BY <2>2, <2>3
<1> HIDE DEF y
<1>7. OutOfMemory(M) <=> x.ptr = NoPointer \/ y.ptr = NoPointer
  <2>1. b \in Seq(Given)
    <3>1. Block \subseteq Given
      BY ExchangeAssumption DEF Block
    <3> HIDE DEF Given
    <3> QED  BY <1>1, <3>1, LenProperties, SeqDef
  <2>2. [ptr |-> x.ptr, size |-> BUF_SIZE] \in Given /\ [ptr |-> y.ptr, size |-> BUF_SIZE] \in Given
    BY <1>1, <1>3, <1>5
  <2> DEFINE k == Len(b)
             ex == [ptr |-> x.ptr, size |-> BUF_SIZE]
             ey == [ptr |-> y.ptr, size |-> BUF_SIZE]
  <2>3. ex.ptr = x.ptr /\ ey.ptr = y.ptr
    OBVIOUS
  <2> HIDE DEF Given, ex, ey
  <2>4. k \in Nat /\ b1 \in Seq(Given) /\ Len(b1) = k + 1 /\ b1[k + 1] = ex
    BY <2>1, <2>2, AppendProperties, LenProperties DEF ex
  <2> HIDE DEF b1, k
  <2>5. Len(b2) = (k + 1) + 1 /\ b2[(k + 1) + 1] = ey /\ b2[k + 1] = b1[k + 1]
    <3>1. k + 1 \in 1 .. Len(b1)
      BY <2>4
    <3> QED  BY <2>2, <2>4, <3>1, AppendProperties DEF ey
  <2> HIDE DEF b2
  <2>6. OutOfMemory(M) <=> \E j \in Len(b2) - 1 .. Len(b2) : b2[j].ptr = NoPointer
    BY DEF OutOfMemory
  <2>7. Len(b2) - 1 .. Len(b2) = {k + 1, (k + 1) + 1}
    BY <2>4, <2>5
  <2> QED  BY <2>3, <2>4, <2>5, <2>6, <2>7
<1> HIDE DEF b2
<1>8. M.arena = y.arena /\ M.blocks = b2
  OBVIOUS
<1> HIDE DEF M
<1>9. OutOfMemory(M) => Total(w) \in {n, n + 1}
  BY <1>4, <1>6, <1>7
<1>10. ~ OutOfMemory(M) => /\ b2 \in Seq(Block) /\ Placed(y.arena, b2)
                           /\ Filled(w, y.arena, 2 * (sent[c] + 1))
  BY <1>1, <1>6, <1>7
<1> QED  BY <1>2, <1>5, <1>8, <1>9, <1>10 DEF w, n, b

-----------------------------------------------------------------------------
\* What is allocated at the start lies on the first page.
LEMMA StartAlloc ==
  ASSUME NEW a, NEW b \in Seq(Block), Locked(a), Placed(a, b), NEW size \in Nat,
         a[1].current + size <= PAGE_SIZE, \A r \in 2 .. PAGE_COUNT : a[r].current = 0
  PROVE  LET m == Allocated([arena |-> a, blocks |-> b], size)
         IN  /\ Locked(m.arena) /\ m.blocks \in Seq(Block) /\ Placed(m.arena, m.blocks)
             /\ m.arena[1].current = a[1].current + size
             /\ \A r \in 2 .. PAGE_COUNT : m.arena[r].current = 0
             /\ m = [arena |-> m.arena, blocks |-> m.blocks]
<1> DEFINE x == arena_alloc(a, size)
           room == {r \in 1 .. PAGE_COUNT : a[r].current + size <= PAGE_SIZE}
<1>1. PAGE_COUNT \in Nat \ {0} /\ PAGE_SIZE \in Nat /\ 1 \in 1 .. PAGE_COUNT /\ a[1].current \in Nat
  BY ExchangeAssumption DEF Locked, Regions
<1>2. 1 \in room /\ ~ size > PAGE_SIZE
  BY <1>1
<1>3. PICK r \in room : (\A q \in room : r <= q) /\ x = Reserved(a, r, size)
  BY <1>2, AllocCases
<1>4. r = 1
  <2>1. r \in Nat /\ r >= 1 /\ r <= 1
    BY <1>1, <1>2, <1>3
  <2> QED  BY <2>1
<1> DEFINE y == Reserved(a, r, size)
<1>5. /\ Locked(y.arena) /\ y.ptr # NoPointer
      /\ \A q \in 1 .. PAGE_COUNT :
           y.arena[q].current = IF q = r THEN a[r].current + size ELSE a[q].current
  <2>1. r \in 1 .. PAGE_COUNT
    BY <1>3
  <2> HIDE DEF room
  <2>2. Grown(y, a, r, size)
    BY <2>1, ReservedGrows, Zenon
  <2> HIDE DEF y
  <2> QED  BY <2>2 DEF Grown
<1> DEFINE more == Append(b, [ptr |-> y.ptr, size |-> size])
<1>6. more \in Seq(Block) /\ Placed(y.arena, more)
  BY <1>3, ReservedPlaced
<1> HIDE DEF x, y
<1>7. x = y
  BY <1>3 DEF y
<1>8. Allocated([arena |-> a, blocks |-> b], size) = [arena |-> y.arena, blocks |-> more]
  BY <1>7 DEF Allocated, x
<1>9. /\ y.arena[1].current = a[1].current + size
      /\ \A q \in 2 .. PAGE_COUNT : y.arena[q].current = 0
  <2>1. \A q \in 2 .. PAGE_COUNT : q \in 1 .. PAGE_COUNT /\ q # 1
    BY <1>1
  <2> QED  BY <1>1, <1>4, <1>5, <2>1
<1> HIDE DEF more
<1> DEFINE m == [arena |-> y.arena, blocks |-> more]
<1>10. m.arena = y.arena /\ m.blocks = more
  OBVIOUS
<1> QED  BY <1>5, <1>6, <1>8, <1>9, <1>10

LEMMA StartKeeps ==
  ASSUME StartFits, NEW words \in DOMAIN Usage
  PROVE  LET M == StartMemory(words)
         IN  /\ Locked(M.arena) /\ M.blocks \in Seq(Block) /\ Placed(M.arena, M.blocks)
             /\ Filled(words, M.arena, 0)
<1> DEFINE a0 == arena_init(PAGE_SIZE, PAGE_COUNT, TRUE)
           args == SizeofIndex * (Len(words) + 1)
           m0 == [arena |-> a0, blocks |-> <<>>]
           m1 == Allocated(m0, CONFIG_SIZE)
           m2 == Allocated(m1, args)
           m3 == Allocated(m2, STREAM_SIZE)
<1>1. /\ PAGE_COUNT \in Nat \ {0} /\ PAGE_SIZE \in Nat \ {0}
      /\ CONFIG_SIZE \in Nat /\ STREAM_SIZE \in Nat
  BY ExchangeAssumption
<1>2. args \in Nat /\ Used(words) = CONFIG_SIZE + args + STREAM_SIZE /\ Used(words) <= PAGE_SIZE
  BY DEF StartFits, Used, SizeofIndex
<1>3. a0 = [r \in 1 .. PAGE_COUNT |-> [size |-> PAGE_SIZE, current |-> 0, eom |-> r = PAGE_COUNT]]
  BY <1>1 DEF arena_init, arena_create
<1>4. Locked(a0) /\ \A r \in 1 .. PAGE_COUNT : a0[r].current = 0
  <2> DEFINE page(e) == [size |-> PAGE_SIZE, current |-> 0, eom |-> e]
  <2>1. \A r \in 1 .. PAGE_COUNT : a0[r] = page(r = PAGE_COUNT) /\ (r = PAGE_COUNT) \in BOOLEAN
    BY <1>3, Zenon
  <2>2. \A e \in BOOLEAN : /\ page(e) \in [size : {PAGE_SIZE}, current : Nat, eom : BOOLEAN]
                            /\ page(e).current = 0 /\ page(e).eom = e
    OBVIOUS
  <2> HIDE DEF page
  <2>3. \A r \in 1 .. PAGE_COUNT :
          a0[r] \in [size : {PAGE_SIZE}, current : Nat, eom : BOOLEAN] /\ a0[r].current = 0
    BY <2>1, <2>2, Zenon
  <2>4. a0 \in Regions
    BY <1>3, <2>3 DEF Regions
  <2>5. PAGE_COUNT \in 1 .. PAGE_COUNT
    BY <1>1
  <2>6. a0[PAGE_COUNT].eom = TRUE
    <3>1. (PAGE_COUNT = PAGE_COUNT) = TRUE
      BY Zenon
    <3> QED  BY <2>1, <2>2, <2>5, <3>1, Zenon
  <2> QED  BY <2>3, <2>4, <2>6 DEF Locked
<1> HIDE DEF a0
<1>5. <<>> \in Seq(Block) /\ Placed(a0, <<>>)
  <2>1. <<>> \in Seq(Block) /\ Len(<<>>) = 0
    BY EmptySeq
  <2> QED  BY <1>1, <1>4, <2>1 DEF Placed
<1>6. StartMemory(words) = m3
  BY DEF StartMemory, a0
<1> HIDE DEF args
<1>7. a0[1].current = 0 /\ \A r \in 2 .. PAGE_COUNT : a0[r].current = 0
  BY <1>1, <1>4
<1>8. /\ Locked(m1.arena) /\ m1.blocks \in Seq(Block) /\ Placed(m1.arena, m1.blocks)
      /\ m1.arena[1].current = a0[1].current + CONFIG_SIZE
      /\ \A r \in 2 .. PAGE_COUNT : m1.arena[r].current = 0
      /\ m1 = [arena |-> m1.arena, blocks |-> m1.blocks]
  <2>1. a0[1].current + CONFIG_SIZE <= PAGE_SIZE
    BY <1>1, <1>2, <1>7
  <2> QED  BY <1>1, <1>4, <1>5, <1>7, <2>1, StartAlloc
<1> HIDE DEF m1
<1> DEFINE n2 == Allocated([arena |-> m1.arena, blocks |-> m1.blocks], args)
<1>9. /\ Locked(n2.arena) /\ n2.blocks \in Seq(Block) /\ Placed(n2.arena, n2.blocks)
      /\ n2.arena[1].current = m1.arena[1].current + args
      /\ \A r \in 2 .. PAGE_COUNT : n2.arena[r].current = 0
      /\ n2 = [arena |-> n2.arena, blocks |-> n2.blocks]
  <2>1. m1.arena[1].current + args <= PAGE_SIZE
    BY <1>1, <1>2, <1>7, <1>8
  <2> QED  BY <1>2, <1>8, <2>1, StartAlloc
<1>10. m2 = n2
  BY <1>8
<1> HIDE DEF m2, n2
<1> DEFINE n3 == Allocated([arena |-> n2.arena, blocks |-> n2.blocks], STREAM_SIZE)
<1>11. /\ Locked(n3.arena) /\ n3.blocks \in Seq(Block) /\ Placed(n3.arena, n3.blocks)
       /\ n3.arena[1].current = n2.arena[1].current + STREAM_SIZE
       /\ \A r \in 2 .. PAGE_COUNT : n3.arena[r].current = 0
       /\ n3 = [arena |-> n3.arena, blocks |-> n3.blocks]
  <2>1. n2.arena[1].current + STREAM_SIZE <= PAGE_SIZE
    BY <1>1, <1>2, <1>7, <1>8, <1>9
  <2> QED  BY <1>1, <1>9, <2>1, StartAlloc
<1>12. m3 = n3
  BY <1>9, <1>10
<1> HIDE DEF m3, n3
<1>13. n3.arena[1].current = Used(words)
  BY <1>1, <1>2, <1>7, <1>8, <1>9, <1>11
<1>14. Filled(words, n3.arena, 0)
  <2>1. 1 \in 1 .. PAGE_COUNT /\ 0 \in 0 .. PAGE_SIZE
    BY <1>1
  <2>2. 0 <= Cap(words, 1) /\ Before(words, 1) + 0 = 0
    BY CapFacts DEF Before
  <2>3. ASSUME NEW r \in 1 .. PAGE_COUNT
        PROVE  n3.arena[r].current = Begin(words, r) +
                 (IF r < 1 THEN Cap(words, r) ELSE IF r = 1 THEN 0 ELSE 0) * BUF_SIZE
    <3>1. ~ r < 1 /\ 0 * BUF_SIZE = 0 /\ (r = 1 \/ r \in 2 .. PAGE_COUNT)
      BY <1>1, ExchangeAssumption
    <3>2. Begin(words, r) \in Nat /\ n3.arena[r].current = Begin(words, r)
      BY <1>1, <1>2, <1>11, <1>13, <3>1 DEF Begin
    <3> QED  BY <3>1, <3>2
  <2> QED  BY <2>1, <2>2, <2>3 DEF Filled
<1> QED  BY <1>6, <1>11, <1>12, <1>14

-----------------------------------------------------------------------------
LEMMA InitInv ==
  ASSUME StartFits, Init
  PROVE  Inv
<1>1. argv \in [Client -> DOMAIN Usage] /\ sent = [c \in Client |-> 0]
      /\ pc \in [Client -> {"idle", "ended"}]
  BY DEF Init
<1>2. /\ arena = [c \in Client |-> StartMemory(argv[c]).arena]
      /\ blocks = [c \in Client |-> StartMemory(argv[c]).blocks]
  BY DEF Init
<1>3. ASSUME NEW c \in Client
      PROVE  /\ Locked(arena[c]) /\ blocks[c] \in Seq(Block) /\ Placed(arena[c], blocks[c])
             /\ Filled(argv[c], arena[c], 0)
  <2>1. argv[c] \in DOMAIN Usage
    BY <1>1
  <2> QED  BY <1>2, <2>1, StartKeeps
<1>4. arena \in [Client -> Regions] /\ blocks \in [Client -> Seq(Block)]
  <2>1. \A c \in Client : arena[c] \in Regions /\ blocks[c] \in Seq(Block)
    BY <1>3 DEF Locked
  <2> QED  BY <1>2, <2>1
<1>5. ASSUME NEW c \in Client PROVE 2 * sent[c] = 0 /\ pc[c] # "starved"
  BY <1>1
<1> QED  BY <1>1, <1>3, <1>4, <1>5 DEF Inv

\* A step that leaves the memory alone, and stops a program at most.
LEMMA MemoryUntouched ==
  ASSUME Inv, argv' = argv, sent' = sent, arena' = arena, blocks' = blocks, NEW c \in Client,
         \/ pc' = pc
         \/ pc[c] = "waiting" /\ \E v \in {"idle", "ended"} : pc' = [pc EXCEPT ![c] = v]
         \/ pc' = [pc EXCEPT ![c] = "ended"]
  PROVE  Inv'
<1>1. pc' \in [Client -> {"idle", "waiting", "ended", "starved"}]
  BY DEF Inv
<1>2. ASSUME NEW d \in Client
      PROVE  /\ pc'[d] \in {"idle", "waiting"} => pc[d] \in {"idle", "waiting"}
             /\ pc'[d] = "starved" => pc[d] = "starved"
  BY DEF Inv
<1> QED  BY <1>1, <1>2 DEF Inv

LEMMA FailsKeeps ==
  ASSUME StartFits, Inv, NEW c \in Client, CommandFails(c)
  PROVE  Inv'
<1> DEFINE M == ConnectionMemory(c)
<1>1. /\ pc[c] = "idle" /\ argv' = argv /\ arena' = arena /\ blocks' = blocks /\ sent' = sent
      /\ pc' = [pc EXCEPT ![c] = IF OutOfMemory(M) THEN "starved" ELSE "ended"]
  BY DEF CommandFails, Round
<1>2. OutOfMemory(M) => Total(argv[c]) \in {2 * sent[c], 2 * sent[c] + 1}
  BY <1>1, ConnectionKeeps
<1> HIDE DEF M
<1>4. pc' \in [Client -> {"idle", "waiting", "ended", "starved"}]
  BY <1>1 DEF Inv
<1>5. ASSUME NEW d \in Client
      PROVE  /\ pc'[d] \in {"idle", "waiting"} => Filled(argv[d], arena[d], 2 * sent[d])
             /\ pc'[d] = "starved" => Total(argv[d]) \in {2 * sent[d], 2 * sent[d] + 1}
  <2>1. CASE d = c
    BY <1>1, <1>2, <2>1 DEF Inv
  <2>2. CASE d # c
    BY <1>1, <2>2 DEF Inv
  <2> QED  BY <2>1, <2>2
<1> QED  BY <1>1, <1>4, <1>5 DEF Inv

LEMMA CommandKeeps ==
  ASSUME StartFits, Inv, NEW c \in Client, Command(c)
  PROVE  Inv'
<1> DEFINE M == ConnectionMemory(c)
<1>1. /\ pc[c] = "idle" /\ argv' = argv /\ sent' = [sent EXCEPT ![c] = @ + 1]
      /\ pc' = [pc EXCEPT ![c] = "waiting"] /\ ~ OutOfMemory(M)
      /\ arena' = [arena EXCEPT ![c] = M.arena] /\ blocks' = [blocks EXCEPT ![c] = M.blocks]
  BY DEF Command, Round
<1>2. /\ Locked(M.arena) /\ M.blocks \in Seq(Block) /\ Placed(M.arena, M.blocks)
      /\ Filled(argv[c], M.arena, 2 * (sent[c] + 1))
  BY <1>1, ConnectionKeeps
<1> HIDE DEF M
<1>3. M.arena \in Regions
  BY <1>2 DEF Locked
<1>4. /\ pc' \in [Client -> {"idle", "waiting", "ended", "starved"}]
      /\ arena' \in [Client -> Regions] /\ blocks' \in [Client -> Seq(Block)]
      /\ sent' \in [Client -> Nat]
  BY <1>1, <1>2, <1>3 DEF Inv
<1>5. ASSUME NEW d \in Client
      PROVE  /\ Locked(arena'[d]) /\ Placed(arena'[d], blocks'[d])
             /\ pc'[d] \in {"idle", "waiting"} => Filled(argv[d], arena'[d], 2 * sent'[d])
             /\ pc'[d] = "starved" => Total(argv[d]) \in {2 * sent'[d], 2 * sent'[d] + 1}
  <2>1. CASE d = c
    BY <1>1, <1>2, <2>1 DEF Inv
  <2>2. CASE d # c
    BY <1>1, <2>2 DEF Inv
  <2> QED  BY <2>1, <2>2
<1> QED  BY <1>1, <1>4, <1>5 DEF Inv

LEMMA NextInv ==
  ASSUME StartFits, Inv, [Next]_vars
  PROVE  Inv'
<1>1. CASE UNCHANGED vars \/ BeginPass
  <2>1. /\ argv' = argv /\ sent' = sent /\ arena' = arena /\ blocks' = blocks /\ pc' = pc
    BY <1>1 DEF vars, program, BeginPass
  <2> QED  BY <2>1 DEF Inv
<1>2. ASSUME NEW c \in Client, Change(c) \/ Arrive(c) \/ Refuse(c) \/ Serve(c)
      PROVE  Inv'
  <2>1. /\ argv' = argv /\ sent' = sent /\ arena' = arena /\ blocks' = blocks /\ pc' = pc
    BY <1>2 DEF Change, Arrive, Refuse, Serve, program
  <2> QED  BY <2>1, MemoryUntouched
<1>3. ASSUME NEW c \in Client, Timeout(c) \/ NoResponse(c) \/ Response(c) \/ CommandRejected(c)
      PROVE  Inv'
  <2>1. argv' = argv /\ sent' = sent /\ arena' = arena /\ blocks' = blocks
    BY <1>3 DEF Timeout, NoResponse, Response, CommandRejected, Round
  <2>2. \/ pc[c] = "waiting" /\ \E v \in {"idle", "ended"} : pc' = [pc EXCEPT ![c] = v]
        \/ pc' = [pc EXCEPT ![c] = "ended"]
    BY <1>3 DEF Timeout, NoResponse, Response, CommandRejected, NextRound
  <2> QED  BY <2>1, <2>2, MemoryUntouched
<1>4. ASSUME NEW c \in Client, ClientProgram(c)
      PROVE  Inv'
  BY <1>3, <1>4, FailsKeeps, CommandKeeps DEF ClientProgram
<1> QED  BY <1>1, <1>2, <1>4 DEF Next

LEMMA InvAlways ==
  ASSUME StartFits
  PROVE  Spec => []Inv
<1>1. Init => Inv
  BY InitInv
<1>2. Inv /\ [Next]_vars => Inv'
  BY NextInv
<1> QED  BY <1>1, <1>2, PTL DEF Spec

-----------------------------------------------------------------------------
\* arena_alloc hands out no byte twice: in all rounds of a watching client every buffer lies
\* in its page and apart from all others, whatever the sizes of pages and buffers.
THEOREM BlocksAlwaysDisjoint ==
  ASSUME StartFits
  PROVE  Spec => []BlocksDisjoint
<1>1. Inv => BlocksDisjoint
  <2> SUFFICES ASSUME Inv, NEW c \in Client, NEW i \in DOMAIN blocks[c], NEW j \in DOMAIN blocks[c]
               PROVE  LET a == blocks[c][i]
                          b == blocks[c][j]
                      IN  /\ a.ptr.region \in DOMAIN arena[c]
                          /\ a.ptr.offset + a.size <= arena[c][a.ptr.region].size
                          /\ a.ptr.region = b.ptr.region /\ i # j =>
                               \/ a.ptr.offset + a.size <= b.ptr.offset
                               \/ b.ptr.offset + b.size <= a.ptr.offset
    BY DEF BlocksDisjoint
  <2> DEFINE s == blocks[c]
             m == arena[c]
  <2>1. s \in Seq(Block) /\ m \in Regions /\ Placed(m, s)
    BY DEF Inv
  <2>2. Len(s) \in Nat /\ i \in 1 .. Len(s) /\ j \in 1 .. Len(s) /\ s[i] \in Block /\ s[j] \in Block
    BY <2>1, LenProperties, ElementOfSeq
  <2>3. DOMAIN m = 1 .. PAGE_COUNT
    BY <2>1, RegionsLen
  <2> HIDE DEF s, m
  <2> DEFINE q == s[i].ptr.region
             end == s[i].ptr.offset + s[i].size
  <2>4. q \in 1 .. PAGE_COUNT /\ end \in Nat
    BY <2>2 DEF Block
  <2>5. m[q].size = PAGE_SIZE /\ m[q].current \in Nat
    BY <2>1, <2>4 DEF Regions
  <2>6. end <= m[q].current /\ m[q].current <= PAGE_SIZE
    BY <2>1, <2>2, <2>4 DEF Placed
  <2>7. end <= m[q].size
    <3> HIDE DEF q, end
    <3> QED  BY <2>4, <2>5, <2>6, ExchangeAssumption
  <2>8. s[i].ptr.region = s[j].ptr.region /\ i # j =>
          \/ s[i].ptr.offset + s[i].size <= s[j].ptr.offset
          \/ s[j].ptr.offset + s[j].size <= s[i].ptr.offset
    <3>1. i # j => i < j \/ j < i
      BY <2>2
    <3> QED  BY <2>1, <2>2, <3>1 DEF Placed
  <2> QED  BY <2>3, <2>4, <2>7, <2>8 DEF s, m
<1> QED  BY <1>1, InvAlways, PTL

\* A watching client ends for lack of memory only when its pages are used up: first fit
\* wastes only what is smaller than a buffer at the end of each page, so the number of
\* commands it has sent by then is fixed by the sizes alone.
THEOREM MemoryAlwaysLasts ==
  ASSUME StartFits
  PROVE  Spec => []MemoryLasts
<1>1. Inv => MemoryLasts
  <2> SUFFICES ASSUME Inv, NEW c \in Client, pc[c] = "starved"
               PROVE  LET first == PAGE_SIZE - CONFIG_SIZE - SizeofIndex * (Len(argv[c]) + 1)
                                     - STREAM_SIZE
                      IN  sent[c] = (first \div BUF_SIZE
                                       + (PAGE_COUNT - 1) * (PAGE_SIZE \div BUF_SIZE)) \div 2
    BY DEF MemoryLasts
  <2> DEFINE w == argv[c]
             first == PAGE_SIZE - CONFIG_SIZE - SizeofIndex * (Len(w) + 1) - STREAM_SIZE
  <2>1. w \in DOMAIN Usage /\ sent[c] \in Nat /\ Total(w) \in {2 * sent[c], 2 * sent[c] + 1}
    BY DEF Inv
  <2>2. Len(w) \in Nat /\ PAGE_SIZE \in Nat /\ CONFIG_SIZE \in Nat /\ STREAM_SIZE \in Nat
    BY <2>1, ExchangeAssumption DEF StartFits
  <2> HIDE DEF w
  <2>3. PAGE_SIZE - Begin(w, 1) = first /\ PAGE_SIZE - Begin(w, 2) = PAGE_SIZE
    BY <2>2 DEF Begin, Used, SizeofIndex
  <2>4. Total(w) = first \div BUF_SIZE + (PAGE_COUNT - 1) * (PAGE_SIZE \div BUF_SIZE)
    <3> HIDE DEF first
    <3> QED  BY <2>3 DEF Total, Cap
  <2>5. Total(w) \div 2 = sent[c]
    <3> DEFINE t == Total(w)
    <3>1. t \in {2 * sent[c], 2 * sent[c] + 1}
      BY <2>1
    <3> HIDE DEF t
    <3>2. t \div 2 = sent[c]
      BY <2>1, <3>1
    <3> QED  BY <3>2 DEF t
  <2> QED  BY <2>4, <2>5 DEF w
<1> QED  BY <1>1, InvAlways, PTL
=============================================================================
