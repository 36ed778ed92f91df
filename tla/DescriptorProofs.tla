-------------------------- MODULE DescriptorProofs --------------------------
(***************************************************************************)
(* The descriptors of the agent for every size of the kernel's table and   *)
(* every number of clients, slots and children: each open socket and each  *)
(* read end is known and is what the agent takes it for, no read blocks,   *)
(* and a launch fails for want of descriptors only when they are used up.  *)
(*                                                                         *)
(* The invariant is stated on a table, a stack, a store and a number of    *)
(* children, not on the variables, so that an action that closes, forks    *)
(* and closes again is proved as the sequence of its calls.                *)
(***************************************************************************)
EXTENDS Descriptors, StructureLemmas

Fd == 0 .. MAX_FD - 1

Kind == {"free", "std", "listen", "sock", "lost", "out_r", "out_w", "err_r", "err_w"}

Entry == [kind : Kind, id : Nat, nonblock : BOOLEAN]

\* A table of the kernel: every entry is free or an object as it was opened.
Table(t) ==
  /\ t \in [Fd -> Entry]
  /\ \A f \in Fd : /\ t[f] = Object(t[f].kind, t[f].id)
                   /\ t[f].kind = "free" => t[f] = Free

\* What process_store holds.
ProcessItem == [pid : Nat, out_fd_r : Fd, err_fd_r : Fd]

\* The standard descriptors and the listening socket are where they were.
FixedEntries(t) ==
  \A f \in Fd : (t[f].kind = "std" <=> f < LISTEN) /\ (t[f].kind = "listen" <=> f = LISTEN)

\* The client stack s names every open socket, and each once.
SocketsKnown(t, s) ==
  /\ s \in Seq(Fd) /\ Distinct(s)
  /\ \A f \in Fd : t[f].kind = "sock" <=> f \in Items(s)

\* The process store names every open read end: those of the slot's own child, one of
\* the n children so far, and no two slots have the same child.
PipesKnown(t, store, n) ==
  /\ Sound(store, PROCESS_STORE_COUNT, ProcessItem)
  /\ \A k \in UsedSlots(store) :
       /\ store.data[k].pid \in 1 .. n
       /\ t[store.data[k].out_fd_r] = Object("out_r", store.data[k].pid)
       /\ t[store.data[k].err_fd_r] = Object("err_r", store.data[k].pid)
  /\ \A j, k \in UsedSlots(store) : store.data[j].pid = store.data[k].pid => j = k
  /\ \A f \in Fd :
       /\ t[f].kind = "out_r" => \E k \in UsedSlots(store) : store.data[k].out_fd_r = f
       /\ t[f].kind = "err_r" => \E k \in UsedSlots(store) : store.data[k].err_fd_r = f

\* The write ends that are open: at most two per child, never closed again.
WriteEnds(t, n) ==
  /\ \A f \in Fd : t[f].kind \in {"out_w", "err_w"} => t[f].id \in 1 .. n
  /\ \A f, g \in Fd : t[f].kind \in {"out_w", "err_w"} /\ t[f] = t[g] => f = g

\* Everything in the table is accounted for by the stack s, the store and n children.
Owned(t, s, store, n) ==
  /\ Table(t)
  /\ FixedEntries(t)
  /\ SocketsKnown(t, s)
  /\ PipesKnown(t, store, n)
  /\ WriteEnds(t, n)

Child == [st : {"running", "ended", "reaped"}, out : Nat, err : Nat, writes : Nat]

\* The loops.
LoopInv ==
  /\ pc \in {"select", "incoming", "clients", "processes"}
  /\ pc = "clients" => iter \in -1 .. Len(client_stack) - 1
  /\ pc = "processes" => iter \in -1 .. PROCESS_STORE_COUNT - 1
  /\ Len(client_stack) <= MAX_CLIENTS
  /\ read_flags \subseteq Fd
  /\ child \in Seq(Child)

Byte == {"nul", "client", "agent", "out", "err"} \X Nat

\* The buffers: no line is remembered while answers may still be written.
BufferInv ==
  /\ in_buf \in [1 .. BUFFER_SIZE -> Byte]
  /\ pc \in {"incoming", "clients"} => line = {}
  /\ LinesExact

\* The inductive invariant.
Inv == Owned(fds, client_stack, process_store, Len(child)) /\ LoopInv /\ BufferInv

-----------------------------------------------------------------------------
\* The constants of server.h.
LEMMA Sizes ==
  /\ MAX_FD \in Nat /\ MAX_FD > 4
  /\ MAX_CLIENTS \in Nat /\ MAX_CLIENTS > 0
  /\ PROCESS_STORE_COUNT \in Nat /\ PROCESS_STORE_COUNT > 0
  /\ BUFFER_SIZE \in Nat /\ BUFFER_SIZE > 0
  /\ Burst \subseteq Nat \X Nat /\ Message \subseteq 1 .. BUFFER_SIZE
  /\ LISTEN = 3 /\ LISTEN \in Fd
BY DescriptorAssumption DEF Fd, LISTEN

\* An object determines its kind and its number.
LEMMA ObjectIs ==
  ASSUME NEW kind \in Kind, NEW id \in Nat
  PROVE  /\ Object(kind, id) \in Entry
         /\ Object(kind, id).kind = kind
         /\ Object(kind, id).id = id
BY DEF Object, Entry

\* The free entry is one.
LEMMA FreeIs == Free \in Entry /\ Free.kind = "free" /\ Free = Object("free", 0)
BY ObjectIs DEF Free, Kind

\* A non-empty set of descriptors has a lowest one.
LEMMA LowestFd ==
  ASSUME NEW M \in SUBSET Nat, M # {}
  PROVE  Min(M) \in M /\ \A k \in M : Min(M) <= k
BY Lowest DEF Min

\* The free entries of a table are counted.
LEMMA RoomFinite ==
  ASSUME NEW t, Table(t)
  PROVE  /\ DOMAIN t = Fd
         /\ Room(t) \in SUBSET Fd /\ Room(t) \in SUBSET Nat
         /\ IsFiniteSet(Room(t)) /\ Cardinality(Room(t)) \in Nat
         /\ IsFiniteSet(Fd) /\ Cardinality(Fd) = MAX_FD
<1>1. IsFiniteSet(Fd) /\ Cardinality(Fd) = MAX_FD
  BY Sizes, CountBelow DEF Fd
<1>2. DOMAIN t = Fd /\ Room(t) \in SUBSET Fd /\ Fd \subseteq Nat
  BY Sizes DEF Room, Table, Fd
<1>3. IsFiniteSet(Room(t))
  BY <1>1, <1>2, FS_Subset
<1> QED  BY <1>1, <1>2, <1>3, FS_CardinalityType

\* The table u is t with a free entry a taken by the object.
IsOpened(t, u, a, object) ==
  /\ a \in Fd /\ t[a] = Free
  /\ u = [t EXCEPT ![a] = object]
  /\ Table(u)
  /\ Cardinality(Room(u)) = Cardinality(Room(t)) - 1

\* A call that opens a descriptor takes the lowest free number.
LEMMA OpenedIs ==
  ASSUME NEW t, Table(t), Room(t) # {},
         NEW kind \in Kind \ {"free"}, NEW id \in Nat
  PROVE  IsOpened(t, Opened(t, Object(kind, id)), Min(Room(t)), Object(kind, id))
<1> DEFINE a == Min(Room(t))
           object == Object(kind, id)
           u == Opened(t, object)
<1>1. a \in Room(t) /\ Room(t) \in SUBSET Fd /\ IsFiniteSet(Room(t)) /\ DOMAIN t = Fd
  BY RoomFinite, LowestFd
<1>2. a \in Fd /\ t[a] = Free
  BY <1>1 DEF Room
<1>3. object \in Entry /\ object.kind = kind /\ object.id = id /\ object # Free
  BY ObjectIs, FreeIs
<1>4. u = [t EXCEPT ![a] = object]
  BY DEF Opened
<1> HIDE DEF a, object, u
<1>5. u \in [Fd -> Entry] /\ \A f \in Fd : u[f] = IF f = a THEN object ELSE t[f]
  BY <1>2, <1>3, <1>4 DEF Table
<1>6. Table(u)
  <2>1. ASSUME NEW f \in Fd
        PROVE  u[f] = Object(u[f].kind, u[f].id) /\ (u[f].kind = "free" => u[f] = Free)
    BY <1>3, <1>5 DEF Table, object
  <2> QED  BY <1>5, <2>1 DEF Table
<1>7. Room(u) = Room(t) \ {a}
  BY <1>1, <1>3, <1>5 DEF Room
<1>8. Cardinality(Room(u)) = Cardinality(Room(t)) - 1
  BY <1>1, <1>7, FS_RemoveElement
<1> QED  BY <1>2, <1>4, <1>6, <1>8 DEF IsOpened, a, object, u

\* Entries of a new table.
LEMMA OpenedEntries ==
  ASSUME NEW t, Table(t), NEW u, NEW a, NEW object, IsOpened(t, u, a, object)
  PROVE  \A f \in Fd : u[f] = IF f = a THEN object ELSE t[f]
BY DEF IsOpened, Table

\* Room for n descriptors is room for one, and then for n - 1.
LEMMA RoomLeft ==
  ASSUME NEW t, Table(t), Cardinality(Room(t)) > 0
  PROVE  Room(t) # {}
BY RoomFinite, FS_EmptySet

\* Closing an entry frees it.
LEMMA CloseIs ==
  ASSUME NEW t, Table(t), NEW f \in Fd
  PROVE  /\ Table(close(t, f))
         /\ \A g \in Fd : close(t, f)[g] = IF g = f THEN Free ELSE t[g]
<1>1. /\ close(t, f) \in [Fd -> Entry]
      /\ \A g \in Fd : close(t, f)[g] = IF g = f THEN Free ELSE t[g]
  BY FreeIs DEF close, Table
<1>2. Free = Object(Free.kind, Free.id)
  BY FreeIs, ObjectIs DEF Kind
<1> QED  BY <1>1, <1>2 DEF Table

\* The table u is t with the two ends of a pipe in free entries a and b.
IsPipe(t, u, a, b, r, w) ==
  /\ a \in Fd /\ b \in Fd /\ a # b
  /\ t[a] = Free /\ t[b] = Free
  /\ Table(u)
  /\ \A f \in Fd : u[f] = IF f = a THEN r ELSE IF f = b THEN w ELSE t[f]
  /\ Cardinality(Room(u)) = Cardinality(Room(t)) - 2

\* pipe() takes two free numbers.
LEMMA PipedIs ==
  ASSUME NEW t, Table(t), Enough(t, 2), NEW i \in Nat, NEW j \in Nat,
         NEW kind \in Kind \ {"free"}, NEW other \in Kind \ {"free"}
  PROVE  \E a, b : IsPipe(t, Piped(t, Object(kind, i), Object(other, j)), a, b,
                          Object(kind, i), Object(other, j))
<1> DEFINE r == Object(kind, i)
           w == Object(other, j)
           v == Opened(t, r)
           u == Opened(v, w)
           a == Min(Room(t))
           b == Min(Room(v))
<1>1. Cardinality(Room(t)) \in Nat /\ Cardinality(Room(t)) >= 2
  BY RoomFinite DEF Enough
<1>2. IsOpened(t, v, a, r)
  BY <1>1, RoomLeft, OpenedIs
<1>3. Table(v) /\ Cardinality(Room(v)) > 0
  BY <1>1, <1>2 DEF IsOpened
<1>4. IsOpened(v, u, b, w)
  BY <1>3, RoomLeft, OpenedIs
<1>5. r # Free
  BY ObjectIs, FreeIs
<1>6. u = Piped(t, r, w)
  BY DEF Piped
<1> HIDE DEF r, w, v, u, a, b
<1>7. \A f \in Fd : v[f] = IF f = a THEN r ELSE t[f]
  BY <1>2, OpenedEntries
<1>8. \A f \in Fd : u[f] = IF f = b THEN w ELSE v[f]
  BY <1>3, <1>4, OpenedEntries
<1>9. a \in Fd /\ t[a] = Free /\ b \in Fd /\ v[b] = Free /\ Table(u)
  BY <1>2, <1>4 DEF IsOpened
<1>10. a # b /\ t[b] = Free
  BY <1>5, <1>7, <1>9
<1>11. Cardinality(Room(u)) = Cardinality(Room(t)) - 2
  BY <1>1, <1>2, <1>4 DEF IsOpened
<1>12. IsPipe(t, u, a, b, r, w)
  BY <1>7, <1>8, <1>9, <1>10, <1>11 DEF IsPipe
<1> QED  BY <1>6, <1>12 DEF r, w

\* The table u is t but for entries that were free and are lost.
Loses(t, u) ==
  /\ Table(u)
  /\ \A f \in Fd : u[f] = t[f] \/ (t[f] = Free /\ u[f] = Object("lost", 0))

\* A pipe that nobody knows of.
LEMMA LostIs ==
  ASSUME NEW t, Table(t), Enough(t, 2)
  PROVE  /\ Loses(t, LostPipe(t))
         /\ Cardinality(Room(LostPipe(t))) = Cardinality(Room(t)) - 2
<1>1. "lost" \in Kind \ {"free"} /\ 0 \in Nat
  BY DEF Kind
<1>2. PICK a, b : IsPipe(t, LostPipe(t), a, b, Object("lost", 0), Object("lost", 0))
  BY <1>1, PipedIs DEF LostPipe
<1> QED  BY <1>2 DEF IsPipe, Loses

\* A failing launch loses the pipes it made and no other entry.
LEMMA FailedIs ==
  ASSUME NEW t, Table(t), NEW u \in {t} \cup FailedTables(t)
  PROVE  Loses(t, u)
<1>1. CASE u = t
  BY <1>1 DEF Loses
<1>2. CASE u = LostPipe(t) /\ Enough(t, 2)
  BY <1>2, LostIs
<1>3. CASE u = LostPipe(LostPipe(t)) /\ Enough(t, 4)
  <2> DEFINE v == LostPipe(t)
  <2>1. Cardinality(Room(t)) \in Nat /\ Cardinality(Room(t)) >= 4
    BY <1>3, RoomFinite DEF Enough
  <2>2. Enough(t, 2)
    BY <2>1 DEF Enough
  <2>3. Loses(t, v) /\ Cardinality(Room(v)) = Cardinality(Room(t)) - 2
    BY <2>2, LostIs
  <2> HIDE DEF v
  <2>4. Table(v) /\ Enough(v, 2)
    BY <2>1, <2>3 DEF Loses, Enough
  <2>5. Loses(v, LostPipe(v))
    BY <2>4, LostIs
  <2>6. Loses(t, LostPipe(v))
    BY <2>3, <2>5 DEF Loses
  <2> QED  BY <1>3, <2>6 DEF v
<1> QED  BY <1>1, <1>2, <1>3 DEF FailedTables

\* Both pipes of a new child p.
IsPipes(t, u, p, a, b, c, d) ==
  /\ {a, b, c, d} \subseteq Fd
  /\ a # b /\ a # c /\ a # d /\ b # c /\ b # d /\ c # d
  /\ t[a] = Free /\ t[b] = Free /\ t[c] = Free /\ t[d] = Free
  /\ Table(u)
  /\ u[a] = Object("out_r", p) /\ u[b] = Object("out_w", p)
  /\ u[c] = Object("err_r", p) /\ u[d] = Object("err_w", p)
  /\ \A f \in Fd \ {a, b, c, d} : u[f] = t[f]

\* The pipes of server_task_launch.
LEMMA PipesIs ==
  ASSUME NEW t, Table(t), Enough(t, 4), NextPid \in Nat
  PROVE  \E a, b, c, d : IsPipes(t, Pipes(t), NextPid, a, b, c, d)
<1> DEFINE p == NextPid
           v == Piped(t, Object("out_r", p), Object("out_w", p))
           u == Piped(v, Object("err_r", p), Object("err_w", p))
<1>1. {"out_r", "out_w", "err_r", "err_w"} \subseteq Kind \ {"free"} /\ p \in Nat
  BY DEF Kind
<1>2. Cardinality(Room(t)) \in Nat /\ Cardinality(Room(t)) >= 4
  BY RoomFinite DEF Enough
<1>3. Enough(t, 2)
  BY <1>2 DEF Enough
<1>4. PICK a, b : IsPipe(t, v, a, b, Object("out_r", p), Object("out_w", p))
  BY <1>1, <1>3, PipedIs
<1>5. Table(v) /\ Enough(v, 2)
  BY <1>2, <1>4 DEF IsPipe, Enough
<1>6. PICK c, d : IsPipe(v, u, c, d, Object("err_r", p), Object("err_w", p))
  BY <1>1, <1>5, PipedIs
<1>7. Object("out_r", p) # Free /\ Object("out_w", p) # Free
  BY <1>1, ObjectIs, FreeIs
<1>8. u = Pipes(t)
  BY DEF Pipes
<1> HIDE DEF p, u, v
<1>9. a # c /\ a # d /\ b # c /\ b # d
  BY <1>4, <1>6, <1>7 DEF IsPipe
<1>10. t[c] = Free /\ t[d] = Free
  BY <1>4, <1>6, <1>9 DEF IsPipe
<1>11. IsPipes(t, u, p, a, b, c, d)
  BY <1>4, <1>6, <1>9, <1>10 DEF IsPipe, IsPipes
<1> QED  BY <1>8, <1>11 DEF p

-----------------------------------------------------------------------------
\* What a change of the table leaves of the invariant.

\* The tables t and u have the same entries of the given kinds.
Same(t, u, kinds) ==
  \A f \in Fd : u[f] = t[f] \/ (t[f].kind \notin kinds /\ u[f].kind \notin kinds)

\* Each part of the invariant only looks at the entries of its own kinds.
LEMMA FixedFrame ==
  ASSUME NEW t, NEW u, Same(t, u, {"std", "listen"}), FixedEntries(t)
  PROVE  FixedEntries(u)
BY DEF Same, FixedEntries

LEMMA SocketFrame ==
  ASSUME NEW t, NEW u, NEW s, Same(t, u, {"sock"}), SocketsKnown(t, s)
  PROVE  SocketsKnown(u, s)
BY DEF Same, SocketsKnown

LEMMA WriteFrame ==
  ASSUME NEW t, NEW u, NEW n, Same(t, u, {"out_w", "err_w"}), WriteEnds(t, n)
  PROVE  WriteEnds(u, n)
BY DEF Same, WriteEnds

\* The items of the process store.
LEMMA ItemsOf ==
  ASSUME NEW t, NEW store, NEW n, PipesKnown(t, store, n), NEW k \in UsedSlots(store)
  PROVE  /\ k \in Slot(PROCESS_STORE_COUNT)
         /\ store.data[k] \in ProcessItem
         /\ store.data[k].out_fd_r \in Fd /\ store.data[k].err_fd_r \in Fd
         /\ store.data[k].pid \in Nat
<1>1. store.data \in [Slot(PROCESS_STORE_COUNT) -> ProcessItem] /\ store.capacity = PROCESS_STORE_COUNT
  BY DEF PipesKnown, Sound, StoreType
<1>2. k \in Slot(PROCESS_STORE_COUNT)
  BY <1>1 DEF UsedSlots
<1>3. store.data[k] \in ProcessItem
  BY <1>1, <1>2
<1> QED  BY <1>2, <1>3 DEF ProcessItem

\* What the table holds at the two descriptors of a slot.
LEMMA ReadEnds ==
  ASSUME NEW t, NEW store, NEW n, PipesKnown(t, store, n), NEW k \in UsedSlots(store)
  PROVE  /\ t[store.data[k].out_fd_r].kind = "out_r"
         /\ t[store.data[k].out_fd_r].id = store.data[k].pid
         /\ t[store.data[k].err_fd_r].kind = "err_r"
         /\ t[store.data[k].err_fd_r].id = store.data[k].pid
         /\ t[store.data[k].out_fd_r].nonblock
         /\ t[store.data[k].err_fd_r].nonblock
<1>1. store.data[k].pid \in Nat /\ "out_r" \in Kind /\ "err_r" \in Kind
  BY ItemsOf DEF Kind
<1>2. /\ t[store.data[k].out_fd_r] = Object("out_r", store.data[k].pid)
      /\ t[store.data[k].err_fd_r] = Object("err_r", store.data[k].pid)
  BY DEF PipesKnown
<1>3. /\ Object("out_r", store.data[k].pid).nonblock
      /\ Object("err_r", store.data[k].pid).nonblock
  BY DEF Object
<1>4. /\ Object("out_r", store.data[k].pid).kind = "out_r"
      /\ Object("out_r", store.data[k].pid).id = store.data[k].pid
      /\ Object("err_r", store.data[k].pid).kind = "err_r"
      /\ Object("err_r", store.data[k].pid).id = store.data[k].pid
  BY <1>1, ObjectIs
<1> QED  BY <1>2, <1>3, <1>4

LEMMA PipesFrame ==
  ASSUME NEW t, NEW u, NEW store, NEW n, Same(t, u, {"out_r", "err_r"}), PipesKnown(t, store, n)
  PROVE  PipesKnown(u, store, n)
<1>1. ASSUME NEW k \in UsedSlots(store)
      PROVE  /\ u[store.data[k].out_fd_r] = t[store.data[k].out_fd_r]
             /\ u[store.data[k].err_fd_r] = t[store.data[k].err_fd_r]
  BY ItemsOf, ReadEnds DEF Same
<1>2. ASSUME NEW f \in Fd, u[f].kind \in {"out_r", "err_r"}
      PROVE  u[f] = t[f]
  BY <1>2 DEF Same
<1> QED  BY <1>1, <1>2 DEF PipesKnown

\* An entry that is free, or was, is none of a known kind.
LEMMA FreeKind ==
  ASSUME NEW e, e = Free \/ e = Object("lost", 0)
  PROVE  e.kind \in {"free", "lost"}
BY FreeIs, ObjectIs DEF Kind

\* Failing calls lose entries that nobody knew.
LEMMA LossKeeps ==
  ASSUME NEW t, NEW s, NEW store, NEW n, Owned(t, s, store, n), NEW u, Loses(t, u)
  PROVE  Owned(u, s, store, n)
<1>1. Table(u) /\ \A f \in Fd :
        u[f] = t[f] \/ (t[f].kind \in {"free", "lost"} /\ u[f].kind \in {"free", "lost"})
  BY FreeKind DEF Loses
<1>2. /\ Same(t, u, {"std", "listen"}) /\ Same(t, u, {"sock"})
      /\ Same(t, u, {"out_r", "err_r"}) /\ Same(t, u, {"out_w", "err_w"})
  BY <1>1 DEF Same
<1> QED  BY <1>1, <1>2, FixedFrame, SocketFrame, WriteFrame, PipesFrame DEF Owned

\* An accepted socket whose options could not be set is lost.
LEMMA OpenLost ==
  ASSUME NEW t, NEW s, NEW store, NEW n, Owned(t, s, store, n), NEW u, NEW a,
         IsOpened(t, u, a, Object("lost", 0))
  PROVE  Owned(u, s, store, n)
<1>1. Table(t)
  BY DEF Owned
<1>2. Loses(t, u)
  BY <1>1, OpenedEntries DEF Loses, IsOpened
<1> QED  BY <1>2, LossKeeps

\* An accepted socket is pushed on the client stack.
LEMMA OpenSocket ==
  ASSUME NEW t, NEW s, NEW store, NEW n, Owned(t, s, store, n), NEW u, NEW a,
         IsOpened(t, u, a, Object("sock", 0))
  PROVE  Owned(u, Append(s, a), store, n)
<1>1. Table(t) /\ Table(u) /\ a \in Fd /\ t[a].kind = "free" /\ Object("sock", 0).kind = "sock"
  BY FreeIs, ObjectIs DEF Owned, IsOpened, Kind
<1>2. \A f \in Fd : u[f] = IF f = a THEN Object("sock", 0) ELSE t[f]
  BY <1>1, OpenedEntries
<1>3. /\ Same(t, u, {"std", "listen"})
      /\ Same(t, u, {"out_r", "err_r"}) /\ Same(t, u, {"out_w", "err_w"})
  BY <1>1, <1>2 DEF Same
<1>4. s \in Seq(Fd) /\ Distinct(s) /\ a \notin Items(s)
  BY <1>1 DEF Owned, SocketsKnown
<1>5. /\ Append(s, a) \in Seq(Fd)
      /\ Distinct(Append(s, a)) /\ Items(Append(s, a)) = Items(s) \cup {a}
  BY <1>1, <1>4, AppendDistinct, AppendProperties
<1>6. SocketsKnown(u, Append(s, a))
  BY <1>1, <1>2, <1>5 DEF Owned, SocketsKnown
<1> QED  BY <1>1, <1>3, <1>6, FixedFrame, WriteFrame, PipesFrame DEF Owned

\* server_respond closes the socket that it takes off the stack.
LEMMA CloseSocket ==
  ASSUME NEW t, NEW s, NEW store, NEW n, Owned(t, s, store, n), NEW i \in 0 .. Len(s) - 1
  PROVE  Owned(close(t, s[i + 1]), stack_remove_at_fast(s, i), store, n)
<1> DEFINE f == s[i + 1]
           u == close(t, f)
           r == stack_remove_at_fast(s, i)
<1>1. s \in Seq(Fd) /\ Distinct(s) /\ Table(t)
  BY DEF Owned, SocketsKnown
<1>2. i + 1 \in 1 .. Len(s) /\ f \in Fd
  <2>1. Len(s) \in Nat
    BY <1>1, LenProperties
  <2>2. i + 1 \in 1 .. Len(s)
    BY <2>1
  <2> QED  BY <1>1, <2>2, ElementOfSeq
<1>3. f \in Items(s)
  BY <1>2 DEF Items
<1>4. t[f].kind = "sock"
  BY <1>2, <1>3 DEF Owned, SocketsKnown
<1>5. Table(u) /\ \A g \in Fd : u[g] = IF g = f THEN Free ELSE t[g]
  BY <1>1, <1>2, CloseIs
<1>6. r \in Seq(Fd) /\ Distinct(r) /\ Items(r) = Items(s) \ {f}
  BY <1>1, RemoveFast, RemoveDistinct
<1> HIDE DEF f, u, r
<1>7. /\ Same(t, u, {"std", "listen"})
      /\ Same(t, u, {"out_r", "err_r"}) /\ Same(t, u, {"out_w", "err_w"})
  BY <1>4, <1>5, FreeIs DEF Same
<1>8. SocketsKnown(u, r)
  BY <1>2, <1>5, <1>6, FreeIs DEF Owned, SocketsKnown
<1>9. Owned(u, r, store, n)
  BY <1>5, <1>7, <1>8, FixedFrame, WriteFrame, PipesFrame DEF Owned
<1> QED  BY <1>9 DEF f, u, r

\* The process store with the new child of a launch.
LEMMA LaunchedStore ==
  ASSUME NEW store, Sound(store, PROCESS_STORE_COUNT, ProcessItem), store.open_cnt >= 1,
         NEW item \in ProcessItem
  PROVE  LET key   == get_push_index(store)
             after == written(store_push_empty(store, NoProcess), key, item)
         IN  /\ key \in Slot(PROCESS_STORE_COUNT) /\ key \notin UsedSlots(store)
             /\ Sound(after, PROCESS_STORE_COUNT, ProcessItem)
             /\ UsedSlots(after) = UsedSlots(store) \cup {key}
             /\ after.data = [store.data EXCEPT ![key] = item]
<1> DEFINE key    == get_push_index(store)
           pushed == store_push_empty(store, NoProcess)
           after  == written(pushed, key, item)
<1> USE Sizes
<1>1. /\ store.open_cnt \in 0 .. PROCESS_STORE_COUNT
      /\ store.data \in [Slot(PROCESS_STORE_COUNT) -> ProcessItem]
  BY DEF Sound, StoreType
<1>2. NoProcess \in ProcessItem
  BY DEF NoProcess, ProcessItem, Fd
<1>3. key # NoKey
  <2>1. store.open_cnt # 0
    BY <1>1
  <2>2. key \in Slot(PROCESS_STORE_COUNT)
    BY <2>1, PushIndex
  <2> QED  BY <2>2 DEF NoKey, Slot
<1>4. /\ key \in Slot(PROCESS_STORE_COUNT)
      /\ pushed \in StoreType(PROCESS_STORE_COUNT, ProcessItem)
      /\ IsPush(store, pushed, key, NoProcess)
  BY <1>2, <1>3, PushEffect DEF store_push_empty
<1>5. Sound(pushed, PROCESS_STORE_COUNT, ProcessItem)
  BY <1>2, PushSound DEF store_push_empty
<1> HIDE DEF key, pushed
<1>6. Sound(after, PROCESS_STORE_COUNT, ProcessItem) /\ IsWrite(pushed, after, key, item)
  BY <1>4, <1>5, WrittenSound
<1> HIDE DEF after
<1>7. /\ UsedSlots(after) = UsedSlots(store) \cup {key} /\ key \notin UsedSlots(store)
      /\ after.data = [pushed.data EXCEPT ![key] = item]
      /\ pushed.data = [store.data EXCEPT ![key] = NoProcess]
  BY <1>4, <1>6 DEF IsPush, IsWrite
<1>8. after.data = [store.data EXCEPT ![key] = item]
  BY <1>1, <1>7
<1> QED  BY <1>4, <1>6, <1>7, <1>8 DEF key, pushed, after

\* The descriptors that a launch notes are the new ones: no older entry is of the
\* child n + 1.
LEMMA NewChildNew ==
  ASSUME NEW t, NEW s, NEW store, NEW n \in Nat, Owned(t, s, store, n), NEW f \in Fd
  PROVE  \A kind \in {"out_r", "out_w", "err_r", "err_w"} : t[f] # Object(kind, n + 1)
<1> SUFFICES ASSUME NEW kind \in {"out_r", "out_w", "err_r", "err_w"}, t[f] = Object(kind, n + 1)
             PROVE  FALSE
  OBVIOUS
<1>1. t[f].kind = kind /\ t[f].id = n + 1
  BY ObjectIs DEF Kind
<1>2. CASE kind \in {"out_w", "err_w"}
  <2>1. t[f].id \in 1 .. n
    BY <1>1, <1>2 DEF Owned, WriteEnds
  <2> QED  BY <1>1, <2>1
<1>3. CASE kind \in {"out_r", "err_r"}
  <2>1. PICK k \in UsedSlots(store) : f \in {store.data[k].out_fd_r, store.data[k].err_fd_r}
    BY <1>1, <1>3 DEF Owned, PipesKnown
  <2>2. t[f].id = store.data[k].pid
    BY <2>1, ReadEnds DEF Owned
  <2>3. store.data[k].pid \in 1 .. n
    BY DEF Owned, PipesKnown
  <2> QED  BY <1>1, <2>2, <2>3
<1> QED  BY <1>2, <1>3

\* The two read ends are found in the new table where they were opened.
LEMMA NewEnds ==
  ASSUME NEW t, NEW s, NEW store, NEW n \in Nat, Owned(t, s, store, n),
         NEW u, NEW a, NEW b, NEW c, NEW d, IsPipes(t, u, n + 1, a, b, c, d)
  PROVE  FdOf(u, Object("out_r", n + 1)) = a /\ FdOf(u, Object("err_r", n + 1)) = c
<1>1. DOMAIN u = Fd /\ a \in Fd /\ c \in Fd
  BY DEF IsPipes, Table
<1>2. {"out_r", "out_w", "err_r", "err_w"} \subseteq Kind /\ n + 1 \in Nat
  BY DEF Kind
<1>3. /\ u[a].kind = "out_r" /\ u[b].kind = "out_w" /\ u[c].kind = "err_r" /\ u[d].kind = "err_w"
      /\ Object("out_r", n + 1).kind = "out_r" /\ Object("err_r", n + 1).kind = "err_r"
  BY <1>2, ObjectIs DEF IsPipes
<1>4. ASSUME NEW f \in Fd \ {a, b, c, d}
      PROVE  u[f] # Object("out_r", n + 1) /\ u[f] # Object("err_r", n + 1)
  BY NewChildNew DEF IsPipes
<1>5. \A f \in Fd : u[f] = Object("out_r", n + 1) <=> f = a
  BY <1>1, <1>3, <1>4 DEF IsPipes
<1>6. \A f \in Fd : u[f] = Object("err_r", n + 1) <=> f = c
  BY <1>1, <1>3, <1>4 DEF IsPipes
<1> QED  BY <1>1, <1>5, <1>6 DEF FdOf

\* server_task_launch opens two pipes and notes the read ends in a new slot.
LEMMA LaunchKeeps ==
  ASSUME NEW t, NEW s, NEW store, NEW n \in Nat, Owned(t, s, store, n),
         NEW u, NEW a, NEW b, NEW c, NEW d, IsPipes(t, u, n + 1, a, b, c, d),
         NEW after, Sound(after, PROCESS_STORE_COUNT, ProcessItem),
         NEW key \in Slot(PROCESS_STORE_COUNT), key \notin UsedSlots(store),
         UsedSlots(after) = UsedSlots(store) \cup {key},
         after.data = [store.data EXCEPT ![key] = [pid |-> n + 1, out_fd_r |-> a, err_fd_r |-> c]]
  PROVE  Owned(u, s, after, n + 1)
<1> DEFINE p == n + 1
<1>1. {"out_r", "out_w", "err_r", "err_w"} \subseteq Kind /\ p \in Nat
  BY DEF Kind
<1>2. /\ u[a].kind = "out_r" /\ u[b].kind = "out_w" /\ u[c].kind = "err_r" /\ u[d].kind = "err_w"
      /\ u[a].id = p /\ u[b].id = p /\ u[c].id = p /\ u[d].id = p
  BY <1>1, ObjectIs DEF IsPipes
<1>3. /\ t[a].kind = "free" /\ t[b].kind = "free" /\ t[c].kind = "free" /\ t[d].kind = "free"
  BY FreeIs DEF IsPipes
<1>4. /\ {a, b, c, d} \subseteq Fd /\ Table(u)
      /\ \A f \in Fd \ {a, b, c, d} : u[f] = t[f]
  BY DEF IsPipes
<1>5. Same(t, u, {"std", "listen"}) /\ Same(t, u, {"sock"})
  BY <1>2, <1>3, <1>4 DEF Same
<1>6. WriteEnds(u, p)
  <2>1. ASSUME NEW f \in Fd, u[f].kind \in {"out_w", "err_w"}
        PROVE  f \in {b, d} \/ (f \notin {a, b, c, d} /\ u[f] = t[f] /\ t[f].id \in 1 .. n)
    BY <1>2, <1>4, <2>1 DEF Owned, WriteEnds
  <2>2. \A f \in Fd : u[f].kind \in {"out_w", "err_w"} => u[f].id \in 1 .. p
    BY <1>2, <2>1
  <2>3. ASSUME NEW f \in Fd, NEW g \in Fd, u[f].kind \in {"out_w", "err_w"}, u[f] = u[g]
        PROVE  f = g
    <3>1. p \notin 1 .. n
      OBVIOUS
    <3>2. CASE f \in {b, d}
      BY <1>2, <2>1, <2>3, <3>1, <3>2
    <3>3. CASE f \notin {b, d}
      BY <1>2, <2>1, <2>3, <3>1, <3>3 DEF Owned, WriteEnds
    <3> QED  BY <3>2, <3>3
  <2> QED  BY <2>2, <2>3 DEF WriteEnds
<1>7. PipesKnown(u, after, p)
  <2>1. store.data \in [Slot(PROCESS_STORE_COUNT) -> ProcessItem]
    BY DEF Owned, PipesKnown, Sound, StoreType
  <2>2. after.data[key].pid = p /\ after.data[key].out_fd_r = a /\ after.data[key].err_fd_r = c
    BY <2>1
  <2>3. ASSUME NEW k \in UsedSlots(store)
        PROVE  /\ after.data[k] = store.data[k] /\ k # key
               /\ store.data[k].pid \in 1 .. n
               /\ store.data[k].out_fd_r \in Fd \ {a, b, c, d}
               /\ store.data[k].err_fd_r \in Fd \ {a, b, c, d}
    <3>1. /\ k \in Slot(PROCESS_STORE_COUNT) /\ k # key
          /\ store.data[k].out_fd_r \in Fd /\ store.data[k].err_fd_r \in Fd
          /\ t[store.data[k].out_fd_r].kind = "out_r" /\ t[store.data[k].err_fd_r].kind = "err_r"
      BY ItemsOf, ReadEnds DEF Owned
    <3>2. after.data[k] = store.data[k]
      BY <2>1, <3>1
    <3>3. store.data[k].pid \in 1 .. n
      BY DEF Owned, PipesKnown
    <3> QED  BY <1>3, <3>1, <3>2, <3>3
  <2>4. ASSUME NEW k \in UsedSlots(after)
        PROVE  /\ after.data[k].pid \in 1 .. p
               /\ u[after.data[k].out_fd_r] = Object("out_r", after.data[k].pid)
               /\ u[after.data[k].err_fd_r] = Object("err_r", after.data[k].pid)
    <3>1. CASE k = key
      BY <2>2, <3>1 DEF IsPipes
    <3>2. CASE k \in UsedSlots(store)
      <4>1. /\ t[store.data[k].out_fd_r] = Object("out_r", store.data[k].pid)
            /\ t[store.data[k].err_fd_r] = Object("err_r", store.data[k].pid)
        BY <3>2 DEF Owned, PipesKnown
      <4>2. /\ after.data[k] = store.data[k] /\ store.data[k].pid \in 1 .. n
            /\ u[store.data[k].out_fd_r] = t[store.data[k].out_fd_r]
            /\ u[store.data[k].err_fd_r] = t[store.data[k].err_fd_r]
        BY <1>4, <2>3, <3>2
      <4> QED  BY <4>1, <4>2
    <3> QED  BY <3>1, <3>2
  <2>5. ASSUME NEW j \in UsedSlots(after), NEW k \in UsedSlots(after),
               after.data[j].pid = after.data[k].pid
        PROVE  j = k
    <3>1. \A i \in UsedSlots(store) : after.data[i].pid = store.data[i].pid /\ after.data[i].pid # p
      BY <2>3
    <3> QED  BY <2>2, <2>5, <3>1 DEF Owned, PipesKnown
  <2>6. ASSUME NEW f \in Fd, u[f].kind = "out_r"
        PROVE  \E k \in UsedSlots(after) : after.data[k].out_fd_r = f
    <3>1. CASE f = a
      BY <2>2, <3>1
    <3>2. CASE f # a
      <4>1. t[f].kind = "out_r"
        BY <1>2, <1>4, <2>6, <3>2
      <4> QED  BY <2>3, <4>1 DEF Owned, PipesKnown
    <3> QED  BY <3>1, <3>2
  <2>7. ASSUME NEW f \in Fd, u[f].kind = "err_r"
        PROVE  \E k \in UsedSlots(after) : after.data[k].err_fd_r = f
    <3>1. CASE f = c
      BY <2>2, <3>1
    <3>2. CASE f # c
      <4>1. t[f].kind = "err_r"
        BY <1>2, <1>4, <2>7, <3>2
      <4> QED  BY <2>3, <4>1 DEF Owned, PipesKnown
    <3> QED  BY <3>1, <3>2
  <2> QED  BY <2>4, <2>5, <2>6, <2>7 DEF PipesKnown
<1> QED  BY <1>4, <1>5, <1>6, <1>7, FixedFrame, SocketFrame DEF Owned

\* The process loop closes the read ends of the slot that it gives back.
LEMMA CloseProcess ==
  ASSUME NEW t, NEW s, NEW store, NEW n, Owned(t, s, store, n), NEW i \in UsedSlots(store)
  PROVE  Owned(close(close(t, store.data[i].out_fd_r), store.data[i].err_fd_r), s,
               store_remove_at(store, i), n)
<1> DEFINE out == store.data[i].out_fd_r
           err == store.data[i].err_fd_r
           v == close(t, out)
           u == close(v, err)
           after == store_remove_at(store, i)
<1>1. /\ out \in Fd /\ err \in Fd /\ t[out].kind = "out_r" /\ t[err].kind = "err_r"
      /\ i \in Slot(PROCESS_STORE_COUNT) /\ Table(t)
  BY ItemsOf, ReadEnds DEF Owned
<1>2. Table(v) /\ \A g \in Fd : v[g] = IF g = out THEN Free ELSE t[g]
  BY <1>1, CloseIs
<1>3. Table(u) /\ \A g \in Fd : u[g] = IF g = err THEN Free ELSE v[g]
  BY <1>1, <1>2, CloseIs
<1>4. /\ Sound(after, PROCESS_STORE_COUNT, ProcessItem)
      /\ after.data = store.data /\ UsedSlots(after) = UsedSlots(store) \ {i}
  <2>1. Sound(store, PROCESS_STORE_COUNT, ProcessItem) /\ i \in Nat
    BY <1>1, Sizes DEF Owned, PipesKnown, Slot
  <2>2. Sound(after, PROCESS_STORE_COUNT, ProcessItem)
    BY <2>1, Sizes, RemoveSound
  <2>3. IsRemove(store, after, i)
    BY <2>1, Sizes, RemoveEffect
  <2> QED  BY <2>2, <2>3 DEF IsRemove
<1> HIDE DEF v, u, after
<1>5. \A g \in Fd : u[g] = IF g \in {out, err} THEN Free ELSE t[g]
  BY <1>2, <1>3
<1>6. /\ Same(t, u, {"std", "listen"}) /\ Same(t, u, {"sock"}) /\ Same(t, u, {"out_w", "err_w"})
  BY <1>1, <1>5, FreeIs DEF Same
<1>7. ASSUME NEW k \in UsedSlots(store), k # i
      PROVE  store.data[k].out_fd_r \in Fd \ {out, err} /\ store.data[k].err_fd_r \in Fd \ {out, err}
  <2>1. store.data[k].pid # store.data[i].pid
    BY <1>7 DEF Owned, PipesKnown
  <2> QED  BY <2>1, ItemsOf, ReadEnds DEF Owned
<1>8. PipesKnown(u, after, n)
  <2>1. ASSUME NEW k \in UsedSlots(after)
        PROVE  /\ after.data[k].pid \in 1 .. n
               /\ u[after.data[k].out_fd_r] = Object("out_r", after.data[k].pid)
               /\ u[after.data[k].err_fd_r] = Object("err_r", after.data[k].pid)
    BY <1>4, <1>5, <1>7 DEF Owned, PipesKnown
  <2>2. \A j, k \in UsedSlots(after) : after.data[j].pid = after.data[k].pid => j = k
    BY <1>4 DEF Owned, PipesKnown
  <2>3. ASSUME NEW f \in Fd
        PROVE  /\ u[f].kind = "out_r" => \E k \in UsedSlots(after) : after.data[k].out_fd_r = f
               /\ u[f].kind = "err_r" => \E k \in UsedSlots(after) : after.data[k].err_fd_r = f
    <3>1. u[f].kind \in {"out_r", "err_r"} => u[f] = t[f] /\ f # out /\ f # err
      BY <1>5, FreeIs
    <3> QED  BY <1>4, <3>1 DEF Owned, PipesKnown
  <2> QED  BY <1>4, <2>1, <2>2, <2>3 DEF PipesKnown
<1>9. Owned(u, s, after, n)
  BY <1>3, <1>6, <1>8, FixedFrame, SocketFrame, WriteFrame DEF Owned
<1> QED  BY <1>9 DEF v, u, after

-----------------------------------------------------------------------------
\* The invariant, action by action.

\* A change of one child.
LEMMA ChildUpdate ==
  ASSUME child \in Seq(Child), NEW p \in 1 .. Len(child), NEW e \in Child
  PROVE  [child EXCEPT ![p] = e] \in Seq(Child) /\ Len([child EXCEPT ![p] = e]) = Len(child)
BY ExceptSeq

\* A child of the sequence.
LEMMA ChildIs ==
  ASSUME child \in Seq(Child)
  PROVE  /\ DOMAIN child = 1 .. Len(child) /\ Len(child) \in Nat
         /\ \A p \in 1 .. Len(child) : child[p] \in Child
BY LenProperties, ElementOfSeq

\* The agent starts with its standard descriptors and the listening socket.
LEMMA InitInv == Init => Inv
<1> SUFFICES ASSUME Init PROVE Inv
  OBVIOUS
<1> USE Sizes
<1>1. /\ DOMAIN fds = Fd
      /\ fds = [f \in Fd |-> IF f < LISTEN THEN Object("std", f)
                             ELSE IF f = LISTEN THEN Object("listen", 0) ELSE Free]
  BY DEF Init, Fd
<1>2. {"std", "listen", "free"} \subseteq Kind /\ 0 \in Nat /\ Fd \subseteq Nat
  BY DEF Kind, Fd
<1>3. ASSUME NEW f \in Fd
      PROVE  \E kind \in {"std", "listen", "free"}, id \in Nat :
               /\ fds[f] = Object(kind, id)
               /\ kind = "free" => fds[f] = Free
               /\ (kind = "std" <=> f < LISTEN) /\ (kind = "listen" <=> f = LISTEN)
  <2>1. f \in Nat
    BY <1>2
  <2>2. CASE f < LISTEN
    BY <1>1, <2>1, <2>2
  <2>3. CASE f = LISTEN
    BY <1>1, <2>1, <2>3
  <2>4. CASE ~ (f < LISTEN) /\ f # LISTEN
    BY <1>1, <1>2, <2>1, <2>4 DEF Free
  <2> QED  BY <2>2, <2>3, <2>4
<1>4. ASSUME NEW f \in Fd
      PROVE  /\ fds[f] \in Entry /\ fds[f] = Object(fds[f].kind, fds[f].id)
             /\ fds[f].kind \in {"std", "listen", "free"}
             /\ fds[f].kind = "free" => fds[f] = Free
             /\ (fds[f].kind = "std" <=> f < LISTEN) /\ (fds[f].kind = "listen" <=> f = LISTEN)
  <2>1. PICK kind \in {"std", "listen", "free"}, id \in Nat :
               /\ fds[f] = Object(kind, id)
               /\ kind = "free" => fds[f] = Free
               /\ (kind = "std" <=> f < LISTEN) /\ (kind = "listen" <=> f = LISTEN)
    BY <1>3
  <2>2. fds[f] \in Entry /\ fds[f].kind = kind /\ fds[f].id = id
    BY <1>2, <2>1, ObjectIs
  <2> QED  BY <2>1, <2>2
<1>5. Table(fds) /\ FixedEntries(fds)
  <2>1. fds \in [Fd -> Entry]
    BY <1>1, <1>4
  <2> QED  BY <1>4, <2>1 DEF Table, FixedEntries
<1>6. SocketsKnown(fds, client_stack)
  <2>1. client_stack = <<>> /\ client_stack \in Seq(Fd) /\ Len(client_stack) = 0
    BY DEF Init
  <2> QED  BY <1>4, <2>1 DEF SocketsKnown, Distinct, Items
<1>7. PipesKnown(fds, process_store, Len(child)) /\ WriteEnds(fds, Len(child))
  <2>1. NoProcess \in ProcessItem
    BY DEF NoProcess, ProcessItem, Fd
  <2>2. Sound(process_store, PROCESS_STORE_COUNT, ProcessItem)
    BY <2>1, NewSound DEF Init
  <2>3. UsedSlots(process_store) = {}
    BY DEF Init, UsedSlots, store_new
  <2> QED  BY <1>4, <2>2, <2>3 DEF PipesKnown, WriteEnds
<1>8. LoopInv
  BY DEF Init, LoopInv
<1>9. BufferInv
  BY DEF Init, BufferInv, LinesExact, Byte, NUL
<1> QED  BY <1>5, <1>6, <1>7, <1>8, <1>9 DEF Inv, Owned

\* Clients and children change nothing that the agent keeps.
LEMMA EnvironmentInv ==
  ASSUME Inv, Environment
  PROVE  Inv'
<1>1. child \in Seq(Child) /\ UNCHANGED server_vars
  BY DEF Inv, LoopInv, Environment, Connect, Input, ChildWrites, ChildEnds
<1>2. child' \in Seq(Child) /\ Len(child') = Len(child)
  <2>1. CASE Connect \/ \E f \in DOMAIN fds : Input(f)
    BY <1>1, <2>1 DEF Connect, Input
  <2>2. ASSUME NEW p \in DOMAIN child, ChildWrites(p)
        PROVE  child' \in Seq(Child) /\ Len(child') = Len(child)
    <3>1. p \in 1 .. Len(child) /\ child[p] \in Child
      BY <1>1, ChildIs
    <3>2. PICK burst \in Burst :
            child' = [child EXCEPT ![p].out = @ + burst[1], ![p].err = @ + burst[2],
                                   ![p].writes = @ + 1]
      BY <2>2 DEF ChildWrites
    <3>3. burst[1] \in Nat /\ burst[2] \in Nat
      BY Sizes
    <3> DEFINE e == [child[p] EXCEPT !.out = @ + burst[1], !.err = @ + burst[2],
                                     !.writes = @ + 1]
    <3>4. e \in Child
      <4>1. /\ child[p].out + burst[1] \in Nat /\ child[p].err + burst[2] \in Nat
            /\ child[p].writes + 1 \in Nat
        BY <3>1, <3>3, SMTT(30) DEF Child
      <4> QED  BY <3>1, <4>1 DEF Child
    <3>5. child' = [child EXCEPT ![p] = e]
      BY <1>1, <3>1, <3>2, ChildIs
    <3> HIDE DEF e
    <3> QED  BY <1>1, <3>1, <3>4, <3>5, ChildUpdate
  <2>3. ASSUME NEW p \in DOMAIN child, ChildEnds(p)
        PROVE  child' \in Seq(Child) /\ Len(child') = Len(child)
    <3>1. p \in 1 .. Len(child) /\ child[p] \in Child
      BY <1>1, ChildIs
    <3> DEFINE e == [child[p] EXCEPT !.st = "ended"]
    <3>2. e \in Child
      BY <3>1 DEF Child
    <3>3. child' = [child EXCEPT ![p] = e]
      BY <2>3 DEF ChildEnds
    <3> HIDE DEF e
    <3> QED  BY <1>1, <3>1, <3>2, <3>3, ChildUpdate
  <2> QED  BY <2>1, <2>2, <2>3 DEF Environment
<1> QED  BY <1>1, <1>2 DEF Inv, LoopInv, BufferInv, LinesExact, server_vars, log_vars

\* The descriptors that select watches are open.
LEMMA WatchedOpen ==
  ASSUME Inv
  PROVE  /\ Watched \subseteq Fd /\ ClientFds = Items(client_stack) /\ DOMAIN fds = Fd
<1>1. client_stack \in Seq(Fd) /\ DOMAIN fds = Fd
  BY DEF Inv, Owned, SocketsKnown, Table
<1>2. ClientFds = Items(client_stack) /\ ClientFds \subseteq Fd
  <2>1. \A j \in 1 .. Len(client_stack) : client_stack[j] \in Fd
    BY <1>1, ElementOfSeq
  <2> QED  BY <2>1 DEF ClientFds, Items
<1>3. PipeFds \subseteq Fd
  <2>1. \A k \in UsedSlots(process_store) : Process(k).out_fd_r \in Fd /\ Process(k).err_fd_r \in Fd
    BY ItemsOf DEF Inv, Owned, Process
  <2> QED  BY <2>1 DEF PipeFds
<1> QED  BY <1>1, <1>2, <1>3, Sizes DEF Watched

\* memset keeps the type of the buffer.
LEMMA ZeroedIs ==
  ASSUME NEW buf \in [1 .. BUFFER_SIZE -> Byte], NEW n \in Nat
  PROVE  Zeroed(buf, n) \in [1 .. BUFFER_SIZE -> Byte]
<1>1. NUL \in Byte
  BY DEF NUL, Byte
<1> QED  BY <1>1 DEF Zeroed

\* A read keeps the type of the buffer.
LEMMA FilledIs ==
  ASSUME NEW buf \in [1 .. BUFFER_SIZE -> Byte], NEW n \in Nat, NEW text \in [1 .. n -> Byte]
  PROVE  Filled(buf, text) \in [1 .. BUFFER_SIZE -> Byte]
<1>1. Len(text) = n
  OBVIOUS
<1> QED  BY <1>1, Sizes DEF Filled

\* select.
LEMMA SelectInv ==
  ASSUME Inv, Select
  PROVE  Inv'
<1>1. read_flags' \subseteq Watched /\ pc' = "incoming"
  BY DEF Select
<1>2. BufferInv'
  <2>1. in_buf' = Zeroed(in_buf, BUFFER_SIZE) /\ line' = {}
    BY DEF Select
  <2>2. in_buf' \in [1 .. BUFFER_SIZE -> Byte]
    BY <2>1, ZeroedIs, Sizes DEF Inv, BufferInv
  <2> QED  BY <2>1, <2>2 DEF BufferInv, LinesExact
<1> QED  BY <1>1, <1>2, WatchedOpen DEF Select, Inv, LoopInv

\* server_handle_incoming.
LEMMA IncomingInv ==
  ASSUME Inv, NoIncoming \/ AcceptOverLimit \/ AcceptSetupFails \/ AcceptClient
  PROVE  Inv'
<1> USE Sizes
<1>1. /\ pc' = "clients" /\ iter' = Len(client_stack') - 1
      /\ pc = "incoming"
      /\ UNCHANGED <<process_store, read_flags, child, in_buf, out_buf, line>>
  BY DEF NoIncoming, AcceptOverLimit, AcceptSetupFails, AcceptClient, Accept, ToClients, log_vars
<1>2. /\ Owned(fds, client_stack, process_store, Len(child)) /\ Table(fds)
      /\ client_stack \in Seq(Fd) /\ Len(client_stack) \in Nat /\ Len(client_stack) <= MAX_CLIENTS
  BY LenProperties DEF Inv, Owned, SocketsKnown, LoopInv
<1>3. /\ Owned(fds', client_stack', process_store, Len(child))
      /\ Len(client_stack') \in Nat /\ Len(client_stack') <= MAX_CLIENTS
  <2>1. CASE NoIncoming \/ AcceptOverLimit
    BY <1>2, <2>1 DEF NoIncoming, AcceptOverLimit
  <2>2. CASE AcceptSetupFails
    <3>1. Room(fds) # {} /\ fds' = Opened(fds, Object("lost", 0)) /\ client_stack' = client_stack
      BY <2>2 DEF AcceptSetupFails, Incoming
    <3>2. IsOpened(fds, fds', Min(Room(fds)), Object("lost", 0))
      BY <1>2, <3>1, OpenedIs DEF Kind
    <3> QED  BY <1>2, <3>1, <3>2, OpenLost
  <2>3. CASE AcceptClient
    <3> DEFINE a == Min(Room(fds))
    <3>1. /\ Room(fds) # {} /\ fds' = Opened(fds, Object("sock", 0))
          /\ Len(client_stack) < MAX_CLIENTS
          /\ client_stack' = stack_push(client_stack, MAX_CLIENTS, a)
      BY <2>3 DEF AcceptClient, Incoming
    <3>2. IsOpened(fds, fds', a, Object("sock", 0))
      BY <1>2, <3>1, OpenedIs DEF Kind
    <3>3. client_stack' = Append(client_stack, a)
      BY <1>2, <3>1 DEF stack_push
    <3>4. a \in Fd
      BY <3>2 DEF IsOpened
    <3> HIDE DEF a
    <3>5. Len(client_stack') = Len(client_stack) + 1
      BY <1>2, <3>3, <3>4, AppendProperties
    <3> QED  BY <1>2, <3>1, <3>2, <3>3, <3>5, OpenSocket
  <2> QED  BY <2>1, <2>2, <2>3
<1> QED  BY <1>1, <1>3 DEF Inv, LoopInv, BufferInv, LinesExact

\* A launch that succeeds on a table, a store and children that are in order.
LEMMA LaunchStep ==
  ASSUME NEW t, NEW s, NEW store, NEW children, Owned(t, s, store, Len(child)),
         child \in Seq(Child), children \in Seq(Child), Len(children) = Len(child),
         Launch(t, store, children)
  PROVE  /\ Owned(Pipes(t), s, process_store', Len(child'))
         /\ child' \in Seq(Child)
<1> DEFINE n == Len(child)
           u == Pipes(t)
           key == get_push_index(store)
<1>1. n \in Nat /\ Table(t) /\ NextPid = n + 1 /\ NextPid \in Nat
  BY ChildIs DEF Owned, NextPid
<1>2. Enough(t, 4) /\ store.open_cnt >= 1 /\ Sound(store, PROCESS_STORE_COUNT, ProcessItem)
  BY DEF Launch, Owned, PipesKnown
<1>3. PICK a, b, c, d : IsPipes(t, u, n + 1, a, b, c, d)
  BY <1>1, <1>2, PipesIs
<1> HIDE DEF n, u, key
<1>4. FdOf(u, Object("out_r", n + 1)) = a /\ FdOf(u, Object("err_r", n + 1)) = c
  BY <1>1, <1>3, NewEnds DEF n
<1> DEFINE item == [pid |-> n + 1, out_fd_r |-> a, err_fd_r |-> c]
<1>5. item \in ProcessItem
  BY <1>1, <1>3 DEF IsPipes, ProcessItem
<1>6. process_store' = written(store_push_empty(store, NoProcess), key, item)
  BY <1>1, <1>4 DEF Launch, u, key
<1>7. /\ key \in Slot(PROCESS_STORE_COUNT) /\ key \notin UsedSlots(store)
      /\ Sound(process_store', PROCESS_STORE_COUNT, ProcessItem)
      /\ UsedSlots(process_store') = UsedSlots(store) \cup {key}
      /\ process_store'.data = [store.data EXCEPT ![key] = item]
  <2> HIDE DEF item
  <2> QED  BY <1>2, <1>5, <1>6, LaunchedStore DEF key
<1>8. Owned(u, s, process_store', n + 1)
  BY <1>1, <1>3, <1>7, LaunchKeeps DEF n
<1>9. child' \in Seq(Child) /\ Len(child') = n + 1
  <2> DEFINE new == [st |-> "running", out |-> 0, err |-> 0, writes |-> 0]
  <2>1. new \in Child /\ child' = Append(children, new)
    BY DEF Launch, Child
  <2> HIDE DEF new
  <2> QED  BY <2>1, AppendProperties DEF n
<1> QED  BY <1>8, <1>9 DEF u

\* The socket is closed, after whatever the request did to the table.
LEMMA DropStep ==
  ASSUME Inv, NEW f, NEW t, NEW store, NEW n, AtClient(f), Dropped(f, t),
         Owned(t, client_stack, store, n)
  PROVE  /\ Owned(fds', client_stack', store, n)
         /\ Len(client_stack') = Len(client_stack) - 1
         /\ iter' \in -1 .. Len(client_stack') - 1 /\ pc' = "clients"
         /\ UNCHANGED <<read_flags, line>>
<1>1. /\ client_stack \in Seq(Fd) /\ iter \in 0 .. Len(client_stack) - 1
      /\ f = client_stack[iter + 1] /\ pc = "clients"
  BY DEF Inv, LoopInv, AtClient, stack_get, Owned, SocketsKnown
<1>2. /\ fds' = close(t, f) /\ client_stack' = stack_remove_at_fast(client_stack, iter)
      /\ iter' = iter - 1 /\ UNCHANGED <<pc, read_flags, line>>
  BY DEF Dropped, NextClient
<1>3. Len(client_stack') = Len(client_stack) - 1 /\ Len(client_stack) \in Nat
  BY <1>1, <1>2, RemoveFast, LenProperties
<1>4. Owned(fds', client_stack', store, n)
  BY <1>1, <1>2, CloseSocket
<1> QED  BY <1>1, <1>2, <1>3, <1>4

\* The client loop.
LEMMA ClientInv ==
  ASSUME Inv, NEW f,
         SkipClient(f) \/ HangsUp(f) \/ Dismiss(f) \/ RequestLaunches(f) \/ RequestLaunchFails(f)
  PROVE  Inv'
<1>0. pc = "clients" /\ line = {} /\ line' = {} /\ in_buf \in [1 .. BUFFER_SIZE -> Byte]
  BY DEF SkipClient, HangsUp, Dismiss, RequestLaunches, RequestLaunchFails, Request, AtClient,
         Responded, Dropped, NextClient, Inv, BufferInv
<1>1. /\ Owned(fds, client_stack, process_store, Len(child)) /\ Table(fds)
      /\ child \in Seq(Child) /\ Len(client_stack) \in Nat /\ Len(client_stack) <= MAX_CLIENTS
      /\ read_flags \subseteq Fd
  BY LenProperties DEF Inv, LoopInv, Owned, SocketsKnown
<1>2. CASE SkipClient(f)
  <2>1. pc' = "clients" /\ iter' \in -1 .. Len(client_stack) - 1
    BY <1>1, <1>2 DEF SkipClient, AtClient, NextClient, Inv, LoopInv
  <2> QED  BY <1>0, <1>1, <1>2, <2>1 DEF SkipClient, NextClient, Inv, LoopInv, BufferInv, LinesExact
<1>3. ASSUME NEW t, AtClient(f), Dropped(f, t), child' \in Seq(Child),
             in_buf' \in [1 .. BUFFER_SIZE -> Byte],
             Owned(t, client_stack, process_store', Len(child'))
      PROVE  Inv'
  <2>1. /\ Owned(fds', client_stack', process_store', Len(child'))
        /\ Len(client_stack') = Len(client_stack) - 1
        /\ iter' \in -1 .. Len(client_stack') - 1 /\ pc' = "clients"
        /\ UNCHANGED <<read_flags, line>>
    BY <1>3, DropStep
  <2>2. Len(client_stack') <= MAX_CLIENTS
    BY <1>1, <2>1, Sizes
  <2>3. BufferInv'
    BY <1>0, <1>3 DEF BufferInv, LinesExact
  <2> QED  BY <1>1, <1>3, <2>1, <2>2, <2>3 DEF Inv, LoopInv
<1>a. CASE HangsUp(f)
  BY <1>0, <1>1, <1>3, <1>a DEF HangsUp, Request
<1>b. ASSUME NEW t, Responded(f, t)
      PROVE  Dropped(f, t) /\ in_buf' \in [1 .. BUFFER_SIZE -> Byte]
  <2>1. PICK n \in Message : in_buf' = Filled(in_buf, [k \in 1 .. n |-> FromClient])
    BY <1>b DEF Responded
  <2>2. [k \in 1 .. n |-> FromClient] \in [1 .. n -> Byte] /\ n \in Nat
    BY Sizes DEF FromClient, Byte
  <2>3. in_buf' \in [1 .. BUFFER_SIZE -> Byte]
    BY <1>0, <2>1, <2>2, FilledIs
  <2> QED  BY <1>b, <2>3 DEF Responded
<1>4. CASE Dismiss(f)
  BY <1>1, <1>3, <1>4, <1>b DEF Dismiss, Request
<1>5. CASE RequestLaunches(f)
  <2>1. Owned(Pipes(fds), client_stack, process_store', Len(child')) /\ child' \in Seq(Child)
    BY <1>1, <1>5, LaunchStep DEF RequestLaunches
  <2> QED  BY <1>3, <1>5, <1>b, <2>1 DEF RequestLaunches, Request
<1>6. CASE RequestLaunchFails(f)
  <2>1. PICK after \in {fds} \cup FailedTables(fds) : Responded(f, after)
    BY <1>6 DEF RequestLaunchFails
  <2>2. Owned(after, client_stack, process_store, Len(child))
    BY <1>1, <2>1, FailedIs, LossKeeps
  <2> QED  BY <1>1, <1>3, <1>6, <1>b, <2>1, <2>2 DEF RequestLaunchFails, Request
<1> QED  BY <1>2, <1>4, <1>5, <1>6, <1>a

\* The turns of the two loops.
LEMMA TurnInv ==
  ASSUME Inv, ClientsDone \/ SkipProcess \/ ProcessesDone
  PROVE  Inv'
<1> USE Sizes
<1>1. CASE ClientsDone
  BY <1>1 DEF ClientsDone, Inv, LoopInv, BufferInv, LinesExact, log_vars
<1>2. CASE SkipProcess
  <2>1. pc' = "processes" /\ iter' \in -1 .. PROCESS_STORE_COUNT - 1
    BY <1>2 DEF SkipProcess, AtProcess, NextProcess, Inv, LoopInv
  <2> QED  BY <1>2, <2>1 DEF SkipProcess, AtProcess, Inv, LoopInv, BufferInv, LinesExact, log_vars
<1>3. CASE ProcessesDone
  BY <1>3 DEF ProcessesDone, Inv, LoopInv, BufferInv, LinesExact, log_vars
<1> QED  BY <1>1, <1>2, <1>3

\* One read takes no more than is there and no more than the buffer holds.
LEMMA BytesIs ==
  ASSUME NEW f, NEW pending \in Nat
  PROVE  /\ BytesRead(f, pending) \in Nat
         /\ BytesRead(f, pending) <= pending /\ BytesRead(f, pending) <= BUFFER_SIZE
<1>1. Min({pending, BUFFER_SIZE}) = IF pending <= BUFFER_SIZE THEN pending ELSE BUFFER_SIZE
  BY Sizes DEF Min
<1> QED  BY <1>1, Sizes DEF BytesRead

\* The cleared buffer.
ClearBuf == [k \in 1 .. BUFFER_SIZE |-> NUL]

\* Clearing the whole buffer, and clearing what was read into a cleared one.
LEMMA Clears ==
  ASSUME NEW buf \in [1 .. BUFFER_SIZE -> Byte], NEW n \in Nat, NEW text \in [1 .. n -> Byte]
  PROVE  /\ Zeroed(buf, BUFFER_SIZE) = ClearBuf
         /\ Zeroed(Filled(ClearBuf, text), Len(text)) = ClearBuf
<1>1. Len(text) = n
  OBVIOUS
<1> QED  BY <1>1, Sizes DEF Zeroed, Filled, ClearBuf

\* A text read into the cleared buffer is shown as it was read, up to its first 0.
LEMMA ShownExact ==
  ASSUME NEW n \in 1 .. BUFFER_SIZE, NEW text \in [1 .. n -> Byte]
  PROVE  \/ Shown(Filled(ClearBuf, text)) = UpToZero(text)
         \/ Len(text) = BUFFER_SIZE /\ Shown(Filled(ClearBuf, text)) = Append(text, out_buf)
<1> DEFINE buf == Filled(ClearBuf, text)
           z == Min(Zeros(text))
<1>1. /\ Len(text) = n /\ text \in Seq(Byte) /\ DOMAIN text = 1 .. n
      /\ n \in Nat /\ n <= BUFFER_SIZE /\ BUFFER_SIZE \in Nat
  BY Sizes
<1>2. buf = [k \in 1 .. BUFFER_SIZE |-> IF k <= n THEN text[k] ELSE NUL]
  BY <1>1 DEF Filled, ClearBuf
<1>3. /\ NUL \in Byte
      /\ buf \in [1 .. BUFFER_SIZE -> Byte] /\ buf \in Seq(Byte) /\ Len(buf) = BUFFER_SIZE
  <2>1. NUL \in Byte
    BY DEF NUL, Byte
  <2>2. buf \in [1 .. BUFFER_SIZE -> Byte]
    BY <1>1, <1>2, <2>1
  <2> HIDE DEF buf
  <2> QED  BY <1>1, <2>1, <2>2
<1> HIDE DEF buf
<1>4. CASE Zeros(text) # {}
  <2>1. Zeros(text) \in SUBSET Nat /\ Zeros(buf) \in SUBSET Nat
    BY <1>1, <1>3 DEF Zeros
  <2>2. z \in Zeros(text) /\ z \in 1 .. n /\ \A k \in Zeros(text) : z <= k
    <3>1. z \in Zeros(text) /\ \A k \in Zeros(text) : z <= k
      BY <1>4, <2>1, LowestFd
    <3> QED  BY <1>1, <3>1 DEF Zeros
  <2> HIDE DEF z
  <2>3. z \in Zeros(buf) /\ \A k \in Zeros(buf) : z <= k
    <3>1. z \in Zeros(buf)
      BY <1>1, <1>2, <1>3, <2>2 DEF Zeros
    <3>2. ASSUME NEW k \in Zeros(buf), k < z
          PROVE  FALSE
      BY <1>1, <1>2, <1>3, <2>2, <3>2 DEF Zeros
    <3>3. \A k \in Zeros(buf) : k \in Nat /\ z \in Nat
      BY <1>1, <2>1, <2>2
    <3> QED  BY <3>1, <3>2, <3>3
  <2>4. Min(Zeros(buf)) = z
    <3>1. /\ Min(Zeros(buf)) \in Zeros(buf) /\ \A k \in Zeros(buf) : Min(Zeros(buf)) <= k
      BY <2>1, <2>3, LowestFd
    <3>2. Min(Zeros(buf)) \in Nat /\ z \in Nat
      BY <1>1, <2>1, <2>2, <3>1
    <3> QED  BY <2>3, <3>1, <3>2
  <2>5. SubSeq(buf, 1, z - 1) = SubSeq(text, 1, z - 1)
    <3>1. /\ SubSeq(buf, 1, z - 1) = [k \in 1 .. z - 1 |-> buf[k]]
          /\ SubSeq(text, 1, z - 1) = [k \in 1 .. z - 1 |-> text[k]]
      BY <1>1, <1>3, <2>2
    <3>2. \A k \in 1 .. z - 1 : buf[k] = text[k]
      BY <1>1, <1>2, <2>2
    <3> QED  BY <3>1, <3>2
  <2>6. Zeros(buf) # {} /\ Shown(buf) = UpToZero(buf)
    BY <2>3 DEF Shown
  <2>7. UpToZero(buf) = SubSeq(buf, 1, z - 1) /\ UpToZero(text) = SubSeq(text, 1, z - 1)
    BY <1>4, <2>4, <2>6 DEF UpToZero, z
  <2> QED  BY <2>5, <2>6, <2>7 DEF buf
<1>5. CASE Zeros(text) = {} /\ n < BUFFER_SIZE
  <2>1. Zeros(buf) = n + 1 .. BUFFER_SIZE
    BY <1>1, <1>2, <1>3, <1>5 DEF Zeros
  <2>2. Zeros(buf) # {} /\ Min(Zeros(buf)) = n + 1
    <3>1. n + 1 \in Zeros(buf) /\ Zeros(buf) \in SUBSET Nat
      BY <1>1, <1>5, <2>1
    <3>2. Min(Zeros(buf)) \in Zeros(buf) /\ Min(Zeros(buf)) <= n + 1
      BY <3>1, LowestFd
    <3> QED  BY <1>1, <2>1, <3>1, <3>2
  <2>3. Shown(buf) = SubSeq(buf, 1, n)
    BY <1>1, <2>2 DEF Shown, UpToZero
  <2>4. SubSeq(buf, 1, n) = [k \in 1 .. n |-> buf[k]]
    BY <1>1, <1>3
  <2>5. Shown(buf) = text
    BY <1>1, <1>2, <2>3, <2>4
  <2> QED  BY <1>5, <2>5 DEF UpToZero, buf
<1>6. CASE Zeros(text) = {} /\ n = BUFFER_SIZE
  <2>1. buf = text
    BY <1>1, <1>2, <1>6
  <2> QED  BY <1>1, <1>6, <2>1 DEF Shown, buf
<1> QED  BY <1>1, <1>4, <1>5, <1>6

\* The lines of one read.
LEMMA LoggedExact ==
  ASSUME NEW n \in Nat, n <= BUFFER_SIZE, NEW text \in [1 .. n -> Byte],
         NEW l \in Logged(ClearBuf, text)
  PROVE  \/ l.shown = UpToZero(l.read)
         \/ Len(l.read) = BUFFER_SIZE /\ l.shown = Append(l.read, out_buf)
<1>1. text # <<>> /\ l = [read |-> text, shown |-> Shown(Filled(ClearBuf, text))]
  BY DEF Logged
<1>2. n \in 1 .. BUFFER_SIZE
  <2>1. n # 0
    BY <1>1
  <2> QED  BY <2>1, Sizes
<1> QED  BY <1>1, <1>2, ShownExact

\* The slot that the process loop is at.
LEMMA AtSlot ==
  ASSUME Inv, AtProcess, store_is_used(process_store, iter)
  PROVE  /\ iter \in UsedSlots(process_store) /\ iter \in Nat
         /\ pc = "processes" /\ iter - 1 \in -1 .. PROCESS_STORE_COUNT - 1
         /\ Process(iter).pid \in 1 .. Len(child)
         /\ fds[Process(iter).out_fd_r].nonblock /\ fds[Process(iter).err_fd_r].nonblock
<1>1. iter \in 0 .. PROCESS_STORE_COUNT - 1 /\ pc = "processes"
  BY Sizes DEF AtProcess, Inv, LoopInv
<1>2. process_store.capacity = PROCESS_STORE_COUNT
  BY DEF Inv, Owned, PipesKnown, Sound, StoreType
<1>3. iter \in UsedSlots(process_store)
  BY <1>1, <1>2 DEF UsedSlots, Slot, store_is_used
<1>4. Process(iter).pid \in 1 .. Len(child)
  BY <1>3 DEF Inv, Owned, PipesKnown, Process
<1>5. fds[Process(iter).out_fd_r].nonblock /\ fds[Process(iter).err_fd_r].nonblock
  BY <1>3, ReadEnds DEF Inv, Owned, Process
<1> QED  BY <1>1, <1>3, <1>4, <1>5, Sizes

\* server_process_print finds its pipes non-blocking and the buffer cleared.
LEMMA PrintInv ==
  ASSUME Inv, server_process_print
  PROVE  Inv'
<1> DEFINE process == Process(iter)
           p == process.pid
           n == BytesRead(process.out_fd_r, child[p].out)
           m == BytesRead(process.err_fd_r, child[p].err)
<1>1. AtProcess /\ store_is_used(process_store, iter)
  BY DEF server_process_print
<1>2. /\ pc = "processes" /\ iter - 1 \in -1 .. PROCESS_STORE_COUNT - 1 /\ p \in 1 .. Len(child)
      /\ fds[process.out_fd_r].nonblock /\ fds[process.err_fd_r].nonblock
  BY <1>1, AtSlot
<1>3. ~ Stuck(process.out_fd_r, child[p].out) /\ ~ Stuck(process.err_fd_r, child[p].err)
  BY <1>2 DEF Stuck
<1>4. /\ NextProcess
      /\ child' = [child EXCEPT ![p].out = @ - n, ![p].err = @ - m]
      /\ UNCHANGED <<fds, process_store, client_stack, read_flags, out_buf>>
  BY <1>3 DEF server_process_print, AtProcess
<1>a. PICK out \in Output("out", p, n), err \in Output("err", p, m) :
        /\ in_buf' = Filled(PrintedStdout(PrintBuffer, out), err)
        /\ line' = Logged(PrintBuffer, out) \cup Logged(PrintedStdout(PrintBuffer, out), err)
  BY <1>3 DEF server_process_print
<1>5. child \in Seq(Child) /\ child[p] \in Child
  BY <1>2, ChildIs DEF Inv, LoopInv
<1>6. child[p].out \in Nat /\ child[p].err \in Nat
  BY <1>5 DEF Child
<1>7. /\ n \in Nat /\ child[p].out - n \in Nat
      /\ m \in Nat /\ child[p].err - m \in Nat
      /\ n <= BUFFER_SIZE /\ m <= BUFFER_SIZE
  <2>1. n \in Nat /\ n <= child[p].out /\ n <= BUFFER_SIZE
    BY <1>6, BytesIs
  <2>2. m \in Nat /\ m <= child[p].err /\ m <= BUFFER_SIZE
    BY <1>6, BytesIs
  <2> HIDE DEF n, m
  <2> QED  BY <1>6, <2>1, <2>2
<1> HIDE DEF n, m, p
<1>8. child' \in Seq(Child) /\ Len(child') = Len(child)
  <2> DEFINE e == [child[p] EXCEPT !.out = @ - n, !.err = @ - m]
  <2>1. e \in Child
    BY <1>5, <1>7 DEF Child
  <2>2. child' = [child EXCEPT ![p] = e]
    BY <1>2, <1>4, <1>5, ChildIs
  <2> HIDE DEF e
  <2> QED  BY <1>2, <1>5, <2>1, <2>2, ChildUpdate
<1>9. BufferInv'
  <2>1. p \in Nat /\ in_buf \in [1 .. BUFFER_SIZE -> Byte]
    BY <1>2, <1>5, ChildIs DEF Inv, BufferInv
  <2>2. out \in [1 .. n -> Byte] /\ err \in [1 .. m -> Byte]
    <3>1. /\ NUL \in Byte /\ FromChild("out", p) \in Byte /\ FromChild("err", p) \in Byte
      BY <2>1 DEF NUL, FromChild, Byte
    <3> QED  BY <3>1 DEF Output
  <2>3. PrintBuffer = ClearBuf /\ PrintedStdout(PrintBuffer, out) = ClearBuf
    BY <1>7, <2>1, <2>2, Clears DEF PrintBuffer, PrintedStdout
  <2>4. in_buf' = Filled(ClearBuf, err) /\ line' = Logged(ClearBuf, out) \cup Logged(ClearBuf, err)
    BY <1>a, <2>3
  <2>5. in_buf' \in [1 .. BUFFER_SIZE -> Byte]
    <3>1. ClearBuf \in [1 .. BUFFER_SIZE -> Byte]
      BY DEF ClearBuf, NUL, Byte
    <3> QED  BY <1>7, <2>2, <2>4, <3>1, FilledIs
  <2>6. ASSUME NEW l \in line'
        PROVE  \/ l.shown = UpToZero(l.read)
               \/ Len(l.read) = BUFFER_SIZE /\ l.shown = Append(l.read, out_buf)
    <3>1. CASE l \in Logged(ClearBuf, out)
      BY <1>7, <2>2, <3>1, LoggedExact
    <3>2. CASE l \in Logged(ClearBuf, err)
      BY <1>7, <2>2, <3>2, LoggedExact
    <3> QED  BY <2>4, <3>1, <3>2
  <2>7. pc' = "processes"
    BY <1>2, <1>4 DEF NextProcess
  <2> QED  BY <1>4, <2>5, <2>6, <2>7 DEF BufferInv, LinesExact
<1> QED  BY <1>2, <1>4, <1>8, <1>9 DEF NextProcess, Inv, LoopInv

\* waitpid takes the child away; its slot and its read ends are given back.
LEMMA ReapedIs ==
  ASSUME Inv, Completed
  PROVE  /\ Owned(ClosesBoth(Process(iter)), client_stack, store_remove_at(process_store, iter),
                  Len(child))
         /\ Waited(Process(iter).pid) \in Seq(Child)
         /\ Len(Waited(Process(iter).pid)) = Len(child)
         /\ child \in Seq(Child)
         /\ pc' = "processes" /\ iter' \in -1 .. PROCESS_STORE_COUNT - 1
         /\ UNCHANGED <<client_stack, read_flags, in_buf, out_buf, line>>
<1>1. AtProcess /\ store_is_used(process_store, iter) /\ NextProcess
      /\ UNCHANGED <<in_buf, out_buf, line>>
  BY DEF Completed, log_vars
<1>2. /\ iter \in UsedSlots(process_store)
      /\ pc = "processes" /\ iter - 1 \in -1 .. PROCESS_STORE_COUNT - 1
      /\ Process(iter).pid \in 1 .. Len(child)
  BY <1>1, AtSlot
<1>3. Owned(ClosesBoth(Process(iter)), client_stack, store_remove_at(process_store, iter),
            Len(child))
  BY <1>2, CloseProcess DEF Inv, ClosesBoth, Process
<1>4. /\ Waited(Process(iter).pid) \in Seq(Child)
      /\ Len(Waited(Process(iter).pid)) = Len(child)
      /\ child \in Seq(Child)
  <2> DEFINE e == [st |-> "reaped", out |-> 0, err |-> 0, writes |-> 0]
  <2>1. e \in Child /\ child \in Seq(Child)
    BY DEF Child, Inv, LoopInv
  <2>2. Waited(Process(iter).pid) = [child EXCEPT ![Process(iter).pid] = e]
    BY DEF Waited
  <2> HIDE DEF e
  <2> QED  BY <1>2, <2>1, <2>2, ChildUpdate
<1> QED  BY <1>1, <1>2, <1>3, <1>4 DEF NextProcess, AtProcess

\* A completed process, whatever is started after it.
LEMMA ReapInv ==
  ASSUME Inv, Reap \/ ReapAndLaunch \/ ReapLaunchFails
  PROVE  Inv'
<1> DEFINE closed == ClosesBoth(Process(iter))
           store  == store_remove_at(process_store, iter)
           waited == Waited(Process(iter).pid)
<1>1. Completed
  BY DEF Reap, ReapAndLaunch, ReapLaunchFails
<1>2. /\ Owned(closed, client_stack, store, Len(child))
      /\ waited \in Seq(Child) /\ Len(waited) = Len(child) /\ child \in Seq(Child)
      /\ pc' = "processes" /\ iter' \in -1 .. PROCESS_STORE_COUNT - 1
      /\ UNCHANGED <<client_stack, read_flags, in_buf, out_buf, line>>
  BY <1>1, ReapedIs
<1>3. Owned(fds', client_stack, process_store', Len(child')) /\ child' \in Seq(Child)
  <2>1. CASE Reap
    BY <1>2, <2>1 DEF Reap
  <2>2. CASE ReapAndLaunch
    BY <1>2, <2>2, LaunchStep DEF ReapAndLaunch
  <2>3. CASE ReapLaunchFails
    <3>1. /\ process_store' = store /\ child' = waited
          /\ \E after \in {closed} \cup FailedTables(closed) : fds' = after
      BY <2>3 DEF ReapLaunchFails
    <3>2. Table(closed)
      BY <1>2 DEF Owned
    <3> HIDE DEF closed, store, waited
    <3>3. Loses(closed, fds')
      BY <3>1, <3>2, FailedIs
    <3> QED  BY <1>2, <3>1, <3>3, LossKeeps
  <2> QED  BY <2>1, <2>2, <2>3
<1> QED  BY <1>2, <1>3 DEF Inv, LoopInv, BufferInv, LinesExact

\* One step keeps the invariant.
LEMMA NextInv ==
  ASSUME Inv, [Next]_vars
  PROVE  Inv'
<1>1. CASE UNCHANGED vars
  BY <1>1 DEF vars, server_vars, log_vars, Inv, LoopInv, BufferInv, LinesExact
<1>2. CASE Environment
  BY <1>2, EnvironmentInv
<1>3. CASE ServerStep
  BY <1>3, SelectInv, IncomingInv, ClientInv, TurnInv, PrintInv, ReapInv DEF ServerStep
<1> QED  BY <1>1, <1>2, <1>3 DEF Next

LEMMA SpecInv == Spec => []Inv
<1>1. Inv /\ [Next]_vars => Inv'
  BY NextInv
<1> QED  BY <1>1, InitInv, PTL DEF Spec

-----------------------------------------------------------------------------
\* The loops of the agent stay inside the client stack and the process store, and every
\* descriptor that select watches or flags is a number of the table.
THEOREM DescriptorTypes == Spec => []TypeOK
<1>1. Inv => TypeOK
  BY WatchedOpen DEF Inv, LoopInv, TypeOK
<1> QED  BY <1>1, SpecInv, PTL

\* A stack without duplicates has as many items as it is long.
LEMMA DistinctCount ==
  ASSUME NEW S, NEW s \in Seq(S), Distinct(s)
  PROVE  IsFiniteSet(Items(s)) /\ Cardinality(Items(s)) = Len(s)
<1> DEFINE f == [j \in 1 .. Len(s) |-> s[j]]
<1>1. Len(s) \in Nat
  BY LenProperties
<1>2. IsFiniteSet(1 .. Len(s)) /\ Cardinality(1 .. Len(s)) = Len(s)
  <2>1. 1 \in Int /\ Len(s) \in Int
    BY <1>1
  <2>2. /\ IsFiniteSet(1 .. Len(s))
        /\ Cardinality(1 .. Len(s)) = IF 1 > Len(s) THEN 0 ELSE Len(s) - 1 + 1
    BY <2>1, FS_Interval
  <2> QED  BY <1>1, <2>2
<1>3. f \in Bijection(1 .. Len(s), Items(s))
  BY DEF Bijection, Injection, Surjection, IsInjective, Items, Distinct
<1> QED  BY <1>2, <1>3, FS_Bijection DEF ExistsBijection

\* The agent knows every socket and every read end that is open, and each is what it
\* takes it for, although server_respond and the process loop close numbers that
\* accept and pipe give out again in the same pass.
THEOREM DescriptorsAlwaysSound == Spec => []DescriptorsSound
<1>1. ASSUME Inv PROVE DescriptorsSound
  <2>1. /\ ClientFds = Items(client_stack) /\ DOMAIN fds = Fd
        /\ client_stack \in Seq(Fd) /\ Distinct(client_stack)
    BY <1>1, WatchedOpen DEF Inv, Owned, SocketsKnown
  <2>2. fds[LISTEN].kind = "listen" /\ \A f \in 0 .. 2 : fds[f].kind = "std"
    <3>1. \A f \in 0 .. 2 : f \in Fd /\ f < LISTEN
      BY Sizes DEF Fd
    <3> QED  BY <1>1, <3>1, Sizes DEF Inv, Owned, FixedEntries
  <2>3. {f \in DOMAIN fds : fds[f].kind = "sock"} = ClientFds
    <3>1. ClientFds \subseteq Fd
      BY <1>1, WatchedOpen DEF Watched
    <3> QED  BY <1>1, <2>1, <3>1 DEF Inv, Owned, SocketsKnown
  <2>4. Cardinality(ClientFds) = Len(client_stack)
    BY <2>1, DistinctCount
  <2>5. \A k \in UsedSlots(process_store) :
           /\ fds[Process(k).out_fd_r] = Object("out_r", Process(k).pid)
           /\ fds[Process(k).err_fd_r] = Object("err_r", Process(k).pid)
    BY <1>1 DEF Inv, Owned, PipesKnown, Process
  <2>6. {f \in DOMAIN fds : fds[f].kind \in {"out_r", "err_r"}} = PipeFds
    <3>1. ASSUME NEW f \in Fd, fds[f].kind \in {"out_r", "err_r"} PROVE f \in PipeFds
      BY <1>1, <3>1 DEF Inv, Owned, PipesKnown, PipeFds, Process
    <3>2. ASSUME NEW f \in PipeFds PROVE f \in Fd /\ fds[f].kind \in {"out_r", "err_r"}
      <4>1. PICK k \in UsedSlots(process_store) :
               f \in {process_store.data[k].out_fd_r, process_store.data[k].err_fd_r}
        BY DEF PipeFds, Process
      <4> QED  BY <1>1, <4>1, ItemsOf, ReadEnds DEF Inv, Owned
    <3> QED  BY <2>1, <3>1, <3>2
  <2> QED  BY <2>2, <2>3, <2>4, <2>5, <2>6 DEF DescriptorsSound
<1> QED  BY <1>1, SpecInv, PTL

\* No read of server_process_print blocks: every descriptor it reads is a read end that
\* was set non-blocking, whatever the stale flags of select say.
THEOREM AgentNeverBlocks == Spec => []NeverBlocks
<1>1. Inv => NeverBlocks
  BY DEF Inv, LoopInv, NeverBlocks
<1> QED  BY <1>1, SpecInv, PTL

\* A logged line is the text that was read from its pipe up to the first 0, for every size
\* of the buffer, every length of the requests that are read into it in the same pass and
\* every output of the children, bytes 0 included; only behind a full buffer a byte of the
\* answer follows.
THEOREM LinesAlwaysExact == Spec => []LinesExact
<1>1. Inv => LinesExact
  BY DEF Inv, BufferInv
<1> QED  BY <1>1, SpecInv, PTL

-----------------------------------------------------------------------------
\* The count of the descriptors.

\* The entries of one kind.
Of(t, kind) == {f \in Fd : t[f].kind = kind}

\* A set that maps one-to-one into another is no larger.
LEMMA NoLarger ==
  ASSUME NEW S, NEW T, IsFiniteSet(T), NEW g \in [S -> T],
         \A x, y \in S : g[x] = g[y] => x = y
  PROVE  IsFiniteSet(S) /\ Cardinality(S) <= Cardinality(T)
<1>1. g \in Injection(S, T)
  BY DEF Injection, IsInjective
<1> QED  BY <1>1, FS_Injection

\* A union is no larger than its parts together.
LEMMA UnionBound ==
  ASSUME NEW S, NEW T, IsFiniteSet(S), IsFiniteSet(T)
  PROVE  /\ IsFiniteSet(S \cup T)
         /\ Cardinality(S) \in Nat /\ Cardinality(T) \in Nat /\ Cardinality(S \cup T) \in Nat
         /\ Cardinality(S \cup T) <= Cardinality(S) + Cardinality(T)
<1>1. IsFiniteSet(S \cup T) /\ IsFiniteSet(S \cap T)
  BY FS_Union, FS_Intersection
<1>2. Cardinality(S \cup T) = Cardinality(S) + Cardinality(T) - Cardinality(S \cap T)
  BY FS_Union
<1>3. /\ Cardinality(S) \in Nat /\ Cardinality(T) \in Nat
      /\ Cardinality(S \cup T) \in Nat /\ Cardinality(S \cap T) \in Nat
  BY <1>1, FS_CardinalityType
<1> QED  BY <1>1, <1>2, <1>3

\* A read end per running child.
LEMMA ReadEndCount ==
  ASSUME NEW t, NEW s, NEW store, NEW n, Owned(t, s, store, n)
  PROVE  /\ Cardinality(Of(t, "out_r")) <= Cardinality(UsedSlots(store))
         /\ Cardinality(Of(t, "err_r")) <= Cardinality(UsedSlots(store))
         /\ Cardinality(UsedSlots(store)) \in Nat
<1>1. IsFiniteSet(UsedSlots(store)) /\ Cardinality(UsedSlots(store)) \in Nat
  BY Sizes, LengthExact, FS_CardinalityType DEF Owned, PipesKnown
<1>2. Cardinality(Of(t, "out_r")) <= Cardinality(UsedSlots(store))
  <2> DEFINE g == [f \in Of(t, "out_r") |-> CHOOSE k \in UsedSlots(store) : store.data[k].out_fd_r = f]
  <2>1. \A f \in Of(t, "out_r") : g[f] \in UsedSlots(store) /\ store.data[g[f]].out_fd_r = f
    BY DEF Of, Owned, PipesKnown
  <2>2. g \in [Of(t, "out_r") -> UsedSlots(store)]
    BY <2>1
  <2> HIDE DEF g
  <2> QED  BY <1>1, <2>1, <2>2, NoLarger
<1>3. Cardinality(Of(t, "err_r")) <= Cardinality(UsedSlots(store))
  <2> DEFINE g == [f \in Of(t, "err_r") |-> CHOOSE k \in UsedSlots(store) : store.data[k].err_fd_r = f]
  <2>1. \A f \in Of(t, "err_r") : g[f] \in UsedSlots(store) /\ store.data[g[f]].err_fd_r = f
    BY DEF Of, Owned, PipesKnown
  <2>2. g \in [Of(t, "err_r") -> UsedSlots(store)]
    BY <2>1
  <2> HIDE DEF g
  <2> QED  BY <1>1, <2>1, <2>2, NoLarger
<1> QED  BY <1>1, <1>2, <1>3

\* A write end of each pipe per child ever run.
LEMMA WriteEndCount ==
  ASSUME NEW t, NEW s, NEW store, NEW n \in Nat, Owned(t, s, store, n),
         NEW kind \in {"out_w", "err_w"}
  PROVE  Cardinality(Of(t, kind)) <= n
<1> DEFINE g == [f \in Of(t, kind) |-> t[f].id]
<1>1. IsFiniteSet(1 .. n) /\ Cardinality(1 .. n) = n
  <2>1. IsFiniteSet(1 .. n) /\ Cardinality(1 .. n) = IF 1 > n THEN 0 ELSE n - 1 + 1
    BY FS_Interval
  <2> QED  BY <2>1
<1>2. g \in [Of(t, kind) -> 1 .. n]
  BY DEF Of, Owned, WriteEnds
<1>3. ASSUME NEW x \in Of(t, kind), NEW y \in Of(t, kind), g[x] = g[y]
      PROVE  x = y
  <2>1. x \in Fd /\ y \in Fd /\ t[x].kind = kind /\ t[y].kind = kind /\ t[x].id = t[y].id
    BY <1>3 DEF Of
  <2>2. t[x] = Object(kind, t[x].id) /\ t[y] = Object(kind, t[y].id)
    BY <2>1 DEF Owned, Table
  <2>3. t[x] = t[y]
    BY <2>1, <2>2
  <2> QED  BY <2>1, <2>3 DEF Owned, WriteEnds
<1> HIDE DEF g
<1> QED  BY <1>1, <1>2, <1>3, NoLarger

\* What the table is made of.
LEMMA TableCount ==
  ASSUME NEW t, NEW s, NEW store, NEW n \in Nat, Owned(t, s, store, n)
  PROVE  /\ Cardinality(Room(t)) \in Nat /\ Cardinality(Of(t, "lost")) \in Nat
         /\ Len(s) \in Nat /\ Cardinality(UsedSlots(store)) \in Nat
         /\ MAX_FD <= Cardinality(Room(t)) + 4 + Len(s) + 2 * Cardinality(UsedSlots(store))
                        + 2 * n + Cardinality(Of(t, "lost"))
<1>1. /\ Table(t) /\ IsFiniteSet(Fd) /\ Cardinality(Fd) = MAX_FD
      /\ IsFiniteSet(Room(t)) /\ Cardinality(Room(t)) \in Nat
  BY RoomFinite DEF Owned
<1>2. \A kind : IsFiniteSet(Of(t, kind))
  <2>1. \A kind : Of(t, kind) \in SUBSET Fd
    BY DEF Of
  <2> QED  BY <1>1, <2>1, FS_Subset
<1>3. IsFiniteSet(0 .. 3) /\ Cardinality(0 .. 3) = 4
  <2>1. \A k \in Nat : IsFiniteSet(0 .. k - 1) /\ Cardinality(0 .. k - 1) = k
    BY CountBelow
  <2>2. 4 \in Nat /\ 4 - 1 = 3
    OBVIOUS
  <2>3. IsFiniteSet(0 .. 4 - 1) /\ Cardinality(0 .. 4 - 1) = 4
    BY <2>1, <2>2, Zenon
  <2> QED  BY <2>2, <2>3, Zenon
<1>4. /\ s \in Seq(Fd) /\ Distinct(s) /\ Len(s) \in Nat
  BY LenProperties DEF Owned, SocketsKnown
<1>5. Of(t, "sock") \in SUBSET Items(s) /\ IsFiniteSet(Items(s)) /\ Cardinality(Items(s)) = Len(s)
  BY <1>4, DistinctCount DEF Of, Owned, SocketsKnown
<1>6. Cardinality(Of(t, "sock")) <= Len(s)
  BY <1>5, FS_Subset
<1> DEFINE s1 == Of(t, "lost")
           s2 == Of(t, "err_w") \cup s1
           s3 == Of(t, "out_w") \cup s2
           s4 == Of(t, "err_r") \cup s3
           s5 == Of(t, "out_r") \cup s4
           s6 == Of(t, "sock") \cup s5
           s7 == (0 .. 3) \cup s6
           s8 == Room(t) \cup s7
<1>7. Fd \subseteq s8
  <2> SUFFICES ASSUME NEW f \in Fd PROVE f \in s8
    OBVIOUS
  <2>1. t[f].kind \in Kind /\ (t[f].kind = "free" => t[f] = Free) /\ DOMAIN t = Fd
    BY <1>1 DEF Table, Entry
  <2>2. CASE t[f].kind = "free"
    BY <2>1, <2>2 DEF Room
  <2>3. CASE t[f].kind \in {"std", "listen"}
    <3>1. f \in 0 .. 3
      BY <2>3, Sizes DEF Owned, FixedEntries, Fd
    <3> QED  BY <3>1
  <2>4. CASE t[f].kind \in {"sock", "lost", "out_r", "out_w", "err_r", "err_w"}
    BY <2>4 DEF Of
  <2> QED  BY <2>1, <2>2, <2>3, <2>4 DEF Kind
<1>8. IsFiniteSet(s1) /\ Cardinality(s1) \in Nat
  BY <1>2, FS_CardinalityType
<1>9. /\ IsFiniteSet(s2) /\ Cardinality(s2) \in Nat
      /\ Cardinality(s2) <= Cardinality(Of(t, "err_w")) + Cardinality(s1)
      /\ Cardinality(Of(t, "err_w")) \in Nat
  BY <1>2, <1>8, UnionBound
<1> HIDE DEF s2
<1>10. /\ IsFiniteSet(s3) /\ Cardinality(s3) \in Nat
       /\ Cardinality(s3) <= Cardinality(Of(t, "out_w")) + Cardinality(s2)
       /\ Cardinality(Of(t, "out_w")) \in Nat
  BY <1>2, <1>9, UnionBound
<1> HIDE DEF s3
<1>11. /\ IsFiniteSet(s4) /\ Cardinality(s4) \in Nat
       /\ Cardinality(s4) <= Cardinality(Of(t, "err_r")) + Cardinality(s3)
       /\ Cardinality(Of(t, "err_r")) \in Nat
  BY <1>2, <1>10, UnionBound
<1> HIDE DEF s4
<1>12. /\ IsFiniteSet(s5) /\ Cardinality(s5) \in Nat
       /\ Cardinality(s5) <= Cardinality(Of(t, "out_r")) + Cardinality(s4)
       /\ Cardinality(Of(t, "out_r")) \in Nat
  BY <1>2, <1>11, UnionBound
<1> HIDE DEF s5
<1>13. /\ IsFiniteSet(s6) /\ Cardinality(s6) \in Nat
       /\ Cardinality(s6) <= Cardinality(Of(t, "sock")) + Cardinality(s5)
       /\ Cardinality(Of(t, "sock")) \in Nat
  BY <1>2, <1>12, UnionBound
<1> HIDE DEF s6
<1>14. /\ IsFiniteSet(s7) /\ Cardinality(s7) \in Nat
       /\ Cardinality(s7) <= 4 + Cardinality(s6)
  BY <1>3, <1>13, UnionBound
<1> HIDE DEF s7
<1>15. /\ IsFiniteSet(s8) /\ Cardinality(s8) \in Nat
       /\ Cardinality(s8) <= Cardinality(Room(t)) + Cardinality(s7)
  BY <1>1, <1>14, UnionBound
<1> HIDE DEF s8
<1>16. MAX_FD <= Cardinality(s8)
  BY <1>1, <1>7, <1>15, FS_Subset
<1>17. /\ Cardinality(Of(t, "out_r")) <= Cardinality(UsedSlots(store))
       /\ Cardinality(Of(t, "err_r")) <= Cardinality(UsedSlots(store))
       /\ Cardinality(UsedSlots(store)) \in Nat
       /\ Cardinality(Of(t, "out_w")) <= n /\ Cardinality(Of(t, "err_w")) <= n
  BY ReadEndCount, WriteEndCount
<1> HIDE DEF s1
<1>18. MAX_FD <= Cardinality(Room(t)) + 4 + Len(s) + 2 * Cardinality(UsedSlots(store))
                        + 2 * n + Cardinality(s1)
  <2> DEFINE u == Cardinality(UsedSlots(store))
             m == Len(s)
             r == Cardinality(Room(t))
  <2>1. u \in Nat /\ m \in Nat /\ r \in Nat
    BY <1>1, <1>4, <1>17
  <2>2. Cardinality(s3) <= 2 * n + Cardinality(s1)
    BY <1>8, <1>9, <1>10, <1>17
  <2>3. Cardinality(s5) <= 2 * u + Cardinality(s3)
    BY <1>10, <1>11, <1>12, <1>17
  <2>4. Cardinality(s8) <= r + 4 + m + Cardinality(s5)
    BY <1>1, <1>4, <1>6, <1>12, <1>13, <1>14, <1>15
  <2> HIDE DEF u, m, r
  <2>5. MAX_FD <= r + 4 + m + 2 * u + 2 * n + Cardinality(s1)
    BY <1>8, <1>10, <1>12, <1>15, <1>16, <2>1, <2>2, <2>3, <2>4, Sizes
  <2> QED  BY <2>5 DEF u, m, r
<1> QED  BY <1>1, <1>4, <1>8, <1>17, <1>18 DEF s1

\* A launch that lacks descriptors finds a table that is used up.
LEMMA UsedUp ==
  ASSUME NEW t, NEW s, NEW store, NEW n \in Nat, Owned(t, s, store, n), ~ Enough(t, 4)
  PROVE  4 + Len(s) + 2 * Cardinality(UsedSlots(store)) + 2 * n + Cardinality(Of(t, "lost")) + 4
           > MAX_FD
<1> DEFINE r == Cardinality(Room(t))
           u == Cardinality(UsedSlots(store))
           m == Len(s)
           l == Cardinality(Of(t, "lost"))
<1>1. /\ r \in Nat /\ u \in Nat /\ m \in Nat /\ l \in Nat
      /\ MAX_FD <= r + 4 + m + 2 * u + 2 * n + l
  BY TableCount
<1>2. ~ (r >= 4)
  BY DEF Enough
<1> HIDE DEF r, u, m, l
<1>3. 4 + m + 2 * u + 2 * n + l + 4 > MAX_FD
  BY <1>1, <1>2, Sizes
<1> QED  BY <1>3 DEF u, m, l

\* Giving back the read ends of a slot loses nothing.
LEMMA ClosedLost ==
  ASSUME Inv, NEW i \in UsedSlots(process_store)
  PROVE  Of(ClosesBoth(Process(i)), "lost") = Of(fds, "lost")
<1> DEFINE out == Process(i).out_fd_r
           err == Process(i).err_fd_r
           v == close(fds, out)
           u == close(v, err)
<1>1. /\ out \in Fd /\ err \in Fd /\ fds[out].kind = "out_r" /\ fds[err].kind = "err_r"
      /\ Table(fds)
  BY ItemsOf, ReadEnds DEF Inv, Owned, Process
<1>2. Table(v) /\ \A g \in Fd : v[g] = IF g = out THEN Free ELSE fds[g]
  BY <1>1, CloseIs
<1>3. \A g \in Fd : u[g] = IF g = err THEN Free ELSE v[g]
  BY <1>1, <1>2, CloseIs
<1>4. ClosesBoth(Process(i)) = u
  BY DEF ClosesBoth
<1> HIDE DEF u, v, out, err
<1> QED  BY <1>1, <1>2, <1>3, <1>4, FreeIs DEF Of

\* The only steps that note a refusal are the two failing launches.
LEMMA RefusedBy ==
  ASSUME Next, ~ refused, refused'
  PROVE  (\E f : RequestLaunchFails(f)) \/ ReapLaunchFails
<1> SUFFICES ASSUME ~ \E f : RequestLaunchFails(f), ~ ReapLaunchFails
             PROVE  UNCHANGED refused
  OBVIOUS
<1>1. CASE Environment
  BY <1>1 DEF Environment, Connect, Input, ChildWrites, ChildEnds, server_vars
<1>2. CASE Select \/ ClientsDone \/ SkipProcess \/ server_process_print \/ ProcessesDone
  BY <1>2 DEF Select, ClientsDone, SkipProcess, server_process_print, ProcessesDone
<1>3. CASE NoIncoming \/ AcceptOverLimit \/ AcceptSetupFails \/ AcceptClient
  BY <1>3 DEF NoIncoming, AcceptOverLimit, AcceptSetupFails, AcceptClient, Accept, ToClients
<1>4. ASSUME NEW f, SkipClient(f) \/ HangsUp(f) \/ Dismiss(f) \/ RequestLaunches(f)
      PROVE  UNCHANGED refused
  BY <1>4 DEF SkipClient, HangsUp, Dismiss, RequestLaunches, Launch
<1>5. CASE Reap \/ ReapAndLaunch
  BY <1>5 DEF Reap, ReapAndLaunch, Launch
<1> QED  BY <1>1, <1>2, <1>3, <1>4, <1>5 DEF Next, ServerStep

\* A refused launch, with what is in the table at that moment.
LEMMA AffordStep ==
  ASSUME Inv, Next, ~ refused, refused'
  PROVE  4 + Len(client_stack) + 2 * Cardinality(UsedSlots(process_store'))
           + 2 * Len(child) + Cardinality({f \in DOMAIN fds : fds[f].kind = "lost"}) + 4
         > MAX_FD
<1>1. {f \in DOMAIN fds : fds[f].kind = "lost"} = Of(fds, "lost")
  BY WatchedOpen DEF Of
<1>2. Len(child) \in Nat
  BY ChildIs DEF Inv, LoopInv
<1>3. CASE \E f : RequestLaunchFails(f)
  <2>1. ~ Enough(fds, 4) /\ process_store' = process_store
    BY <1>3 DEF RequestLaunchFails, LaunchFails
  <2> QED  BY <1>1, <1>2, <2>1, UsedUp DEF Inv
<1>4. CASE ReapLaunchFails
  <2> DEFINE closed == ClosesBoth(Process(iter))
  <2>1. /\ Completed /\ ~ Enough(closed, 4)
        /\ process_store' = store_remove_at(process_store, iter)
    BY <1>4 DEF ReapLaunchFails, LaunchFails
  <2>2. Owned(closed, client_stack, process_store', Len(child))
    BY <2>1, ReapedIs
  <2>3. iter \in UsedSlots(process_store)
    BY <2>1, AtSlot DEF Completed
  <2>4. Of(closed, "lost") = Of(fds, "lost")
    BY <2>3, ClosedLost
  <2> HIDE DEF closed
  <2> QED  BY <1>1, <1>2, <2>1, <2>2, <2>4, UsedUp
<1> QED  BY <1>3, <1>4, RefusedBy

\* server_task_launch fails for want of descriptors only when the table is used up by the
\* clients, two read ends per running child, two write ends per child ever run, and what
\* failing calls have lost: the agent leaks write ends and nothing else.
THEOREM LaunchesAlwaysAfford == Spec => LaunchesAfford
<1> DEFINE A == ~ refused /\ refused' =>
                  4 + Len(client_stack) + 2 * Cardinality(UsedSlots(process_store'))
                    + 2 * Len(child) + Cardinality({f \in DOMAIN fds : fds[f].kind = "lost"}) + 4
                  > MAX_FD
<1>1. Inv /\ [Next]_vars => [A]_vars
  BY AffordStep
<1>2. LaunchesAfford <=> [][A]_vars
  BY DEF LaunchesAfford
<1> HIDE DEF A
<1> QED  BY <1>1, <1>2, SpecInv, PTL DEF Spec
=============================================================================
