------------------------------- MODULE Arena --------------------------------
(***************************************************************************)
(* The allocator of src/src/arena.h as functions from arena to arena.  An  *)
(* arena is the list of its regions; a pointer is a region and an offset.  *)
(***************************************************************************)
EXTENDS Integers, Sequences

NoPointer == [region |-> 0, offset |-> 0]

arena_create(size) == [size |-> size, current |-> 0, eom |-> FALSE]

\* The last of the regions made in advance is marked when the arena is locked.
arena_init(size, prealloc_count, lock) ==
  [r \in 1 .. IF prealloc_count > 0 THEN prealloc_count ELSE 1 |->
     [arena_create(size) EXCEPT !.eom = lock /\ r = prealloc_count]]

\* Mutant: a block may end one byte behind the region.
FitsLoosely(region, size) == region.current + size <= region.size + 1

\* Mutant: the last byte of a region is never given away.
FitsStrictly(region, size) == region.current + size < region.size

Fits(region, size) == region.current + size <= region.size

Reserved(a, r, size) ==
  [arena |-> [a EXCEPT ![r].current = @ + size],
   ptr   |-> [region |-> r, offset |-> a[r].current]]

\* The first region with room is taken.  An arena that is not locked gets another
\* region, as large as what was asked for.
arena_alloc(a, size) ==
  LET room == {r \in 1 .. Len(a) : Fits(a[r], size)}
  IN  IF size > a[1].size THEN [arena |-> a, ptr |-> NoPointer]
      ELSE IF room # {}
           THEN Reserved(a, CHOOSE r \in room : \A q \in room : r <= q, size)
      ELSE IF a[Len(a)].eom THEN [arena |-> a, ptr |-> NoPointer]
      ELSE Reserved(Append(a, arena_create(size)), Len(a) + 1, size)
=============================================================================
