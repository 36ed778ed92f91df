---------------------------- MODULE ServerProofs ----------------------------
(***************************************************************************)
(* Invariants of the server for every number of clients, names and files,  *)
(* every size of the stores and every pattern of failing system calls: its *)
(* types and stores; the client stack, and whom a pass over it serves; the *)
(* process store against the kernel's children; and what becomes of a run  *)
(* request, with the refinement of Jobs.                                   *)
(***************************************************************************)
EXTENDS Server, StructureLemmas

\* A task in use has been filled in by get_task.
TasksFilled ==
  \A k \in UsedSlots(task_store) :
    /\ task_store.data[k].name \in Name
    /\ task_store.data[k].cmd \in Path
    /\ task_store.data[k].owner \in Client

\* A process in use names a child that was forked.
PidsKnown ==
  \A k \in UsedSlots(process_store) : process_store.data[k].pid \in DOMAIN child

\* The inductive invariant behind type correctness.  A queued task becomes a
\* child and waitpid is called with a stored pid, hence the last two parts.
Inv == TypeOK /\ StoresSound /\ TasksFilled /\ PidsKnown

-----------------------------------------------------------------------------
\* The invariant makes both stores sound in the sense of the store lemmas.
LEMMA InvSound ==
  ASSUME Inv
  PROVE  /\ Sound(task_store, TASK_STORE_COUNT, Task)
         /\ Sound(process_store, PROCESS_STORE_COUNT, TaskProcess)
BY DEF Inv, TypeOK, StoresSound, Sound

\* The sizes that config_default_settings fixes are positive numbers.
LEMMA Sizes ==
  /\ TASK_STORE_COUNT \in Nat /\ PROCESS_STORE_COUNT \in Nat /\ MAX_CLIENTS \in Nat
  /\ TASK_STORE_COUNT > 0 /\ PROCESS_STORE_COUNT > 0 /\ MAX_CLIENTS > 0
BY SizeAssumption

\* The zeroed Task and the zeroed TaskProcess are items of their stores.
LEMMA ZeroItems == NoTask \in Task /\ NoProcess \in TaskProcess
BY DEF NoTask, Task, NoProcess, TaskProcess

-----------------------------------------------------------------------------
\* get_task failed: the task store is as before, seen through its used slots.
GotNothing(store) ==
  /\ Sound(store, TASK_STORE_COUNT, Task)
  /\ UsedSlots(store) = UsedSlots(task_store)
  /\ \A k \in UsedSlots(task_store) : store.data[k] = task_store.data[k]

\* get_task succeeded: one slot more, holding what the workspace says of n.
GotTask(store, key, n, c) ==
  /\ Sound(store, TASK_STORE_COUNT, Task)
  /\ key \in Slot(TASK_STORE_COUNT) \ UsedSlots(task_store)
  /\ UsedSlots(store) = UsedSlots(task_store) \cup {key}
  /\ \A k \in UsedSlots(task_store) : store.data[k] = task_store.data[k]
  /\ workspace \in Path /\ n \in Name
  /\ Section[workspace][n].cmd
  /\ store.data[key] = [name |-> n, cmd |-> workspace, owner |-> c,
                        wait |-> Section[workspace][n].wait]

\* What the parser hands over for a name: has it a command, what does it wait on.
LEMMA SectionType ==
  ASSUME NEW f \in Path, NEW n \in Name
  PROVE  Section[f][n] \in [cmd : BOOLEAN, wait : Name \cup {NULL}]
BY WorkspaceAssumption

\* workspace_task_get on a zeroed slot: it makes a task, and one with a command only
\* from a section of the active workspace that has a command.
LEMMA ParsedTask ==
  ASSUME NEW n \in Name, NEW c \in Client, workspace \in Path \cup {NULL}
  PROVE  /\ parsed_task(NoTask, n, c) \in Task
         /\ (workspace # NULL /\ parsed_task(NoTask, n, c).cmd # NULL) =>
              /\ workspace \in Path
              /\ Section[workspace][n].cmd
              /\ parsed_task(NoTask, n, c) =
                   [name |-> n, cmd |-> workspace, owner |-> c,
                    wait |-> Section[workspace][n].wait]
<1>1. CASE workspace \in Path
  <2>1. section_of(n) = Section[workspace][n]
    BY <1>1 DEF section_of
  <2>2. section_of(n) \in [cmd : BOOLEAN, wait : Name \cup {NULL}]
    BY <1>1, <2>1, SectionType
  <2> QED  BY <1>1, <2>1, <2>2 DEF parsed_task, NoTask, Task
<1>2. CASE workspace = NULL
  <2>1. section_of(n) = EmptySection
    BY <1>2, NameAssumption DEF section_of
  <2> QED  BY <1>2, <2>1 DEF parsed_task, NoTask, Task, EmptySection
<1> QED  BY <1>1, <1>2

\* get_task either leaves the task store as it was, on every error path, or adds one
\* filled slot.
LEMMA GetTask ==
  ASSUME Inv, NEW n \in Name \cup {NULL}, NEW c \in Client
  PROVE  \/ get_task(n, c).key = NoKey /\ GotNothing(get_task(n, c).store)
         \/ get_task(n, c).key # NoKey
              /\ GotTask(get_task(n, c).store, get_task(n, c).key, n, c)
<1> DEFINE key    == get_push_index(task_store)
           pushed == store_push_empty(task_store, NoTask)
           task   == parsed_task(pushed.data[key], n, c)
           filled == written(pushed, key, task)
           unset  == workspace = NULL \/ workspace \in Broken \/ task.cmd = NULL
<1> USE Sizes, ZeroItems, InvSound
<1>1. CASE n = NULL \/ key = NoKey
  <2>1. get_task(n, c) = [store |-> task_store, key |-> NoKey]
    BY <1>1 DEF get_task
  <2> QED  BY <2>1 DEF GotNothing
<1>2. CASE n # NULL /\ key # NoKey
  <2>1. n \in Name
    BY <1>2
  <2>2. /\ key \in Slot(TASK_STORE_COUNT)
        /\ pushed \in StoreType(TASK_STORE_COUNT, Task)
        /\ IsPush(task_store, pushed, key, NoTask)
    BY <1>2, PushEffect DEF store_push_empty
  <2>3. Sound(pushed, TASK_STORE_COUNT, Task)
    BY PushSound DEF store_push_empty
  <2>4. /\ key \notin UsedSlots(task_store)
        /\ pushed.data = [task_store.data EXCEPT ![key] = NoTask]
        /\ UsedSlots(pushed) = UsedSlots(task_store) \cup {key}
    BY <2>2 DEF IsPush
  <2>5. /\ task_store.data \in [Slot(TASK_STORE_COUNT) -> Task]
        /\ UsedSlots(task_store) \subseteq Slot(TASK_STORE_COUNT)
        /\ workspace \in Path \cup {NULL}
    BY DEF Inv, TypeOK, StoreType, UsedSlots
  <2>6. pushed.data[key] = NoTask
    BY <2>2, <2>4, <2>5
  <2>7. /\ task \in Task
        /\ (workspace # NULL /\ task.cmd # NULL) =>
             /\ workspace \in Path
             /\ Section[workspace][n].cmd
             /\ task = [name |-> n, cmd |-> workspace, owner |-> c,
                        wait |-> Section[workspace][n].wait]
    BY <2>1, <2>5, <2>6, ParsedTask
  <2>8. Sound(filled, TASK_STORE_COUNT, Task) /\ IsWrite(pushed, filled, key, task)
    BY <2>2, <2>3, <2>7, WrittenSound
  <2>9. /\ filled.data = [pushed.data EXCEPT ![key] = task]
        /\ UsedSlots(filled) = UsedSlots(task_store) \cup {key}
    BY <2>4, <2>8 DEF IsWrite
  <2>10. /\ \A k \in UsedSlots(task_store) : filled.data[k] = task_store.data[k]
         /\ filled.data[key] = task
    <3>1. pushed.data \in [Slot(TASK_STORE_COUNT) -> Task]
      BY <2>2 DEF StoreType
    <3> HIDE DEF pushed, key, task, filled
    <3> QED  BY <2>2, <2>4, <2>5, <2>9, <3>1
  <2>11. get_task(n, c) = IF unset
                          THEN [store |-> store_remove_at(filled, key), key |-> NoKey]
                          ELSE [store |-> filled, key |-> key]
    BY <1>2 DEF get_task
  <2>12. CASE unset
    <3>1. key \in UsedSlots(filled) /\ key \in Nat
      BY <2>2, <2>9 DEF Slot
    <3>2. Sound(store_remove_at(filled, key), TASK_STORE_COUNT, Task)
      BY <2>8, <3>1, RemoveSound
    <3>3. IsRemove(filled, store_remove_at(filled, key), key)
      BY <2>8, <3>1, RemoveEffect
    <3>4. GotNothing(store_remove_at(filled, key))
      <4> HIDE DEF filled, key
      <4> QED  BY <2>4, <2>9, <2>10, <3>2, <3>3 DEF GotNothing, IsRemove
    <3> QED  BY <2>11, <2>12, <3>4
  <2>13. CASE ~ unset
    <3>1. GotTask(filled, key, n, c)
      <4> HIDE DEF filled, key, task
      <4> QED  BY <2>1, <2>2, <2>4, <2>7, <2>8, <2>9, <2>10, <2>13 DEF GotTask
    <3>2. get_task(n, c).key = key /\ get_task(n, c).store = filled
      BY <2>11, <2>13
    <3> QED  BY <1>2, <3>1, <3>2
  <2> QED  BY <2>12, <2>13
<1> QED  BY <1>1, <1>2

-----------------------------------------------------------------------------
\* A launch adds one process, in a slot that was unused.
IsLaunch(before, after, k, task) ==
  /\ k \in Slot(PROCESS_STORE_COUNT) \ UsedSlots(before)
  /\ UsedSlots(after) = UsedSlots(before) \cup {k}
  /\ after.data = [before.data EXCEPT
                     ![k] = [pid |-> Len(child) + 1, task_name |-> task.name]]

\* The parent's half of server_task_launch, on a store with room.
LEMMA LaunchEffect ==
  ASSUME NEW s, Sound(s, PROCESS_STORE_COUNT, TaskProcess), HasOpen(s),
         NEW task \in Task, Len(child) \in Nat
  PROVE  /\ Sound(launched_store(s, task), PROCESS_STORE_COUNT, TaskProcess)
         /\ IsLaunch(s, launched_store(s, task), get_push_index(s), task)
<1> DEFINE key == get_push_index(s)
           pushed == store_push_empty(s, NoProcess)
           process == [pid |-> Len(child) + 1, task_name |-> task.name]
           after == launched_store(s, task)
<1> USE Sizes, ZeroItems
<1>1. /\ s.open_cnt \in 0 .. PROCESS_STORE_COUNT
      /\ s.data \in [Slot(PROCESS_STORE_COUNT) -> TaskProcess]
  BY DEF Sound, StoreType
<1>2. key # NoKey
  <2>1. s.open_cnt # 0
    BY <1>1 DEF HasOpen
  <2>2. key \in Slot(PROCESS_STORE_COUNT)
    BY <2>1, PushIndex
  <2> QED  BY <2>2 DEF NoKey, Slot
<1>3. /\ key \in Slot(PROCESS_STORE_COUNT)
      /\ pushed \in StoreType(PROCESS_STORE_COUNT, TaskProcess)
      /\ IsPush(s, pushed, key, NoProcess)
  BY <1>2, PushEffect DEF store_push_empty
<1>4. Sound(pushed, PROCESS_STORE_COUNT, TaskProcess)
  BY PushSound DEF store_push_empty
<1>5. process \in TaskProcess
  BY DEF TaskProcess, Task
<1>6. after = written(pushed, key, process)
  BY DEF launched_store
<1> HIDE DEF key, pushed, process, after
<1>7. /\ Sound(after, PROCESS_STORE_COUNT, TaskProcess)
      /\ IsWrite(pushed, after, key, process)
  BY <1>3, <1>4, <1>5, <1>6, WrittenSound
<1>8. /\ UsedSlots(after) = UsedSlots(s) \cup {key}
      /\ key \notin UsedSlots(s)
      /\ after.data = [pushed.data EXCEPT ![key] = process]
      /\ pushed.data = [s.data EXCEPT ![key] = NoProcess]
  BY <1>3, <1>7 DEF IsPush, IsWrite
<1>9. after.data = [s.data EXCEPT ![key] = process]
  BY <1>1, <1>8
<1> QED  BY <1>3, <1>7, <1>8, <1>9 DEF IsLaunch, key, process, after

-----------------------------------------------------------------------------
\* The task that is woken is one in use whose wait matches.
LEMMA NextTask ==
  ASSUME Inv, NEW done, next_task(done) # NoKey
  PROVE  /\ next_task(done) \in UsedSlots(task_store)
         /\ Woken(task_store.data[next_task(done)], done)
<1> DEFINE M == {k \in UsedSlots(task_store) : Woken(task_store.data[k], done)}
<1>1. M \in SUBSET Slot(TASK_STORE_COUNT)
  BY DEF UsedSlots, Inv, TypeOK, StoreType
<1>2. M # {} /\ next_task(done) = CHOOSE k \in M : \A j \in M : j <= k
  BY DEF next_task
<1>3. \E k \in M : \A j \in M : j <= k
  <2> HIDE DEF M
  <2> QED  BY <1>1, <1>2, LargestSlot, Sizes
<1>4. next_task(done) \in M
  <2> HIDE DEF M
  <2> QED  BY <1>2, <1>3
<1> QED  BY <1>4

-----------------------------------------------------------------------------
\* The invariant in two halves: what the loop and the sockets are made of, and
\* what the stores and the children are made of.
LoopType ==
  /\ workspace \in Path \cup {NULL}
  /\ client_stack \in Seq(Client) /\ Len(client_stack) <= MAX_CLIENTS
  /\ read_flags \subseteq Client \cup {"listen"}
  /\ pc \in {"select", "incoming", "clients", "processes"}
  /\ iter \in -1 .. MAX_CLIENTS + PROCESS_STORE_COUNT
  /\ pc = "clients" => iter < Len(client_stack)
  /\ pc = "processes" => iter < PROCESS_STORE_COUNT
  /\ backlog \in Seq(Client)
  /\ sock \in [Client -> {"none", "backlog", "accepted", "closed", "refused", "leaked"}]
  /\ msg \in [Client -> Command \cup {NULL}]
  /\ left \subseteq Client
  /\ answer \in [Client -> Verdict \cup {NULL}]
  /\ asked \in [Client -> Path \cup {NULL}]

StoreInv ==
  /\ Sound(task_store, TASK_STORE_COUNT, Task)
  /\ Sound(process_store, PROCESS_STORE_COUNT, TaskProcess)
  /\ child \in Seq(Child)
  /\ TasksFilled
  /\ PidsKnown

\* The two halves are the invariant.
LEMMA InvHalves == Inv <=> LoopType /\ StoreInv
BY DEF Inv, TypeOK, StoresSound, LoopType, StoreInv, Sound

\* run_as_server enters its loop with the invariant.
LEMMA InitInv == Init => Inv
<1> SUFFICES ASSUME Init PROVE LoopType /\ StoreInv
  BY InvHalves
<1>1. LoopType
  BY Sizes, WorkspaceAssumption DEF Init, LoopType
<1>2. /\ Sound(task_store, TASK_STORE_COUNT, Task)
      /\ Sound(process_store, PROCESS_STORE_COUNT, TaskProcess)
  BY Sizes, ZeroItems, NewSound DEF Init
<1>3. UsedSlots(task_store) = {} /\ UsedSlots(process_store) = {}
  BY DEF Init, store_new, UsedSlots, Slot
<1> QED  BY <1>1, <1>2, <1>3 DEF Init, StoreInv, TasksFilled, PidsKnown

-----------------------------------------------------------------------------
\* The clients, the children, select and accept.

\* What clients and children do leaves the loop in order.
LEMMA EnvironmentLoop ==
  ASSUME LoopType, Environment
  PROVE  LoopType'
<1>1. ASSUME NEW c \in Client, Connect(c) PROVE LoopType'
  BY <1>1, AppendProperties DEF Connect, LoopType, server_vars
<1>2. ASSUME NEW c \in Client, Send(c) PROVE LoopType'
  BY <1>2 DEF Send, LoopType, server_vars
<1>3. ASSUME NEW c \in Client, Leave(c) PROVE LoopType'
  BY <1>3 DEF Leave, LoopType, server_vars
<1>4. ASSUME NEW p \in DOMAIN child, ChildExit(p) \/ ChildStop(p) \/ ChildContinue(p)
      PROVE  LoopType'
  BY <1>4 DEF ChildExit, ChildStop, ChildContinue, LoopType, server_vars, client_vars
<1> QED  BY <1>1, <1>2, <1>3, <1>4 DEF Environment

\* The sockets that server_check_activity puts in the set are clients.
LEMMA WatchedClients ==
  ASSUME LoopType
  PROVE  Watched \subseteq Client
<1>1. \A j \in 0 .. Len(client_stack) - 1 : client_stack[j + 1] \in Client
  BY ElementOfSeq DEF LoopType
<1> QED  BY <1>1 DEF Watched, stack_get

\* server_check_activity leaves the loop in order.
LEMMA SelectLoop ==
  ASSUME LoopType, Select \/ SelectFails
  PROVE  LoopType'
BY WatchedClients DEF Select, SelectFails, LoopType, client_vars

\* server_handle_incoming never pushes beyond MAX_CLIENTS.
LEMMA IncomingLoop ==
  ASSUME LoopType, NoIncoming \/ AcceptOverLimit \/ AcceptSetupFails \/ AcceptClient
  PROVE  LoopType'
<1> USE Sizes
<1>1. Len(client_stack) \in Nat
  BY DEF LoopType
<1>2. CASE NoIncoming
  BY <1>1, <1>2 DEF NoIncoming, ToClients, LoopType
<1>3. CASE AcceptOverLimit \/ AcceptSetupFails
  <2>1. PICK st \in {"refused", "leaked"} : Accept(st) /\ UNCHANGED client_stack
    BY <1>3 DEF AcceptOverLimit, AcceptSetupFails
  <2>2. backlog' \in Seq(Client)
    BY <2>1, HeadTailProperties DEF Accept, LoopType
  <2> QED  BY <1>1, <2>1, <2>2 DEF Accept, ToClients, LoopType
<1>4. CASE AcceptClient
  <2>1. Head(backlog) \in Client /\ Tail(backlog) \in Seq(Client)
    BY <1>4, HeadTailProperties DEF AcceptClient, LoopType
  <2>2. client_stack' = Append(client_stack, Head(backlog))
    BY <1>1, <1>4 DEF AcceptClient, AtClientLimit, stack_push
  <2>3. /\ client_stack' \in Seq(Client)
        /\ Len(client_stack') = Len(client_stack) + 1
        /\ Len(client_stack') <= MAX_CLIENTS
    BY <1>1, <1>4, <2>1, <2>2, AppendProperties, SMTT(30)
       DEF AcceptClient, AtClientLimit, LoopType
  <2> QED  BY <1>1, <1>4, <2>1, <2>3 DEF AcceptClient, Accept, ToClients, LoopType
<1> QED  BY <1>2, <1>3, <1>4

-----------------------------------------------------------------------------
\* The client loop.

\* Answering keeps the stack, the index and the verdicts in range.
LEMMA RespondLoop ==
  ASSUME LoopType, NEW c \in Client, NEW v \in Verdict, AtClient(c),
         server_respond(c, v), workspace' \in Path \cup {NULL}
  PROVE  LoopType'
<1>1. iter \in 0 .. Len(client_stack) - 1 /\ Len(client_stack) \in Nat
  BY DEF AtClient, LoopType
<1>2. /\ client_stack' \in Seq(Client)
      /\ Len(client_stack') = Len(client_stack) - 1
  BY <1>1, RemoveFast DEF server_respond, LoopType
<1>3. /\ iter' \in -1 .. MAX_CLIENTS + PROCESS_STORE_COUNT
      /\ iter' < Len(client_stack')
      /\ Len(client_stack') <= MAX_CLIENTS
  BY <1>1, <1>2, Sizes DEF AtClient, LoopType
<1>4. pc' = "clients"
  BY DEF AtClient
<1> QED  BY <1>2, <1>3, <1>4 DEF AtClient, server_respond, LoopType

\* An iteration of the client loop keeps its index inside the shrinking stack.
LEMMA ClientLoop ==
  ASSUME LoopType, ClientStep \/ ClientsDone
  PROVE  LoopType'
<1> USE Sizes DEF Packet
<1>1. ASSUME NEW c \in Client, SkipClient(c) PROVE LoopType'
  BY <1>1 DEF SkipClient, AtClient, LoopType
<1>2. ASSUME NEW c \in Client, ClientClosed(c) PROVE LoopType'
  <2>1. iter \in 0 .. Len(client_stack) - 1 /\ Len(client_stack) \in Nat
    BY <1>2 DEF ClientClosed, AtClient, LoopType
  <2>2. /\ client_stack' \in Seq(Client)
        /\ Len(client_stack') = Len(client_stack) - 1
    BY <1>2, <2>1, RemoveFast DEF ClientClosed, LoopType
  <2> QED  BY <1>2, <2>1, <2>2 DEF ClientClosed, AtClient, LoopType
<1>3. ASSUME NEW c \in Client, InvalidPacket(c) PROVE LoopType'
  BY <1>3, RespondLoop DEF InvalidPacket, Verdict, LoopType
<1>4. ASSUME NEW c \in Client, TaskNotFound(c) PROVE LoopType'
  BY <1>4, RespondLoop DEF TaskNotFound, Verdict, LoopType
<1>5. ASSUME NEW c \in Client, TaskQueued(c) PROVE LoopType'
  BY <1>5, RespondLoop DEF TaskQueued, Verdict, LoopType
<1>6. ASSUME NEW c \in Client, TaskLaunchFailed(c) PROVE LoopType'
  BY <1>6, RespondLoop DEF TaskLaunchFailed, Verdict, LoopType
<1>7. ASSUME NEW c \in Client, TaskStarted(c) PROVE LoopType'
  BY <1>7, RespondLoop DEF TaskStarted, Verdict, LoopType
<1>8. ASSUME NEW c \in Client, WorkspaceSet(c) PROVE LoopType'
  <2>1. workspace' \in Path
    BY <1>8, WorkspaceAssumption DEF WorkspaceSet
  <2> QED  BY <1>8, <2>1, RespondLoop DEF WorkspaceSet, Verdict
<1>9. ASSUME NEW c \in Client, WorkspaceNotFound(c) PROVE LoopType'
  BY <1>9, RespondLoop DEF WorkspaceNotFound, Verdict, LoopType
<1>10. CASE ClientsDone
  BY <1>10 DEF ClientsDone, LoopType, client_vars
<1> QED  BY <1>1, <1>2, <1>3, <1>4, <1>5, <1>6, <1>7, <1>8, <1>9, <1>10 DEF ClientStep

\* An iteration of the process loop keeps its index inside the store.
LEMMA ProcessLoop ==
  ASSUME LoopType,
         SkipProcess \/ Reap \/ ReapAndLaunch \/ ReapLaunchFails \/ ProcessesDone
  PROVE  LoopType'
<1>1. CASE AtProcess
  BY <1>1, Sizes DEF AtProcess, LoopType, client_vars
<1>2. CASE ProcessesDone
  BY <1>2, Sizes DEF ProcessesDone, LoopType, client_vars
<1>3. SkipProcess \/ Reap \/ ReapAndLaunch \/ ReapLaunchFails => AtProcess
  BY DEF SkipProcess, Reap, ReapAndLaunch, ReapLaunchFails, Completed
<1> QED  BY <1>1, <1>2, <1>3

-----------------------------------------------------------------------------
\* The stores and the children.

\* Nothing happens to the stores and no child is forked.
LEMMA StoreFrame ==
  ASSUME StoreInv, UNCHANGED <<task_store, process_store>>,
         child' \in Seq(Child), Len(child') = Len(child)
  PROVE  StoreInv'
<1>1. DOMAIN child' = DOMAIN child
  BY LenProperties DEF StoreInv
<1> QED  BY <1>1 DEF StoreInv, TasksFilled, PidsKnown

\* A change of one child's state.
LEMMA ChildUpdate ==
  ASSUME child \in Seq(Child), NEW p \in DOMAIN child,
         NEW st \in {"running", "stopped", "zombie", "reaped"}, NEW held \in BOOLEAN
  PROVE  /\ [child EXCEPT ![p].st = st] \in Seq(Child)
         /\ Len([child EXCEPT ![p].st = st]) = Len(child)
         /\ [child EXCEPT ![p].st = st, ![p].held = held] \in Seq(Child)
         /\ Len([child EXCEPT ![p].st = st, ![p].held = held]) = Len(child)
<1>1. p \in 1 .. Len(child) /\ child[p] \in Child
  BY LenProperties, ElementOfSeq
<1>2. [child[p] EXCEPT !.st = st] \in Child
  BY <1>1 DEF Child
<1>3. [child[p] EXCEPT !.st = st, !.held = held] \in Child
  BY <1>1 DEF Child
<1>4. [child EXCEPT ![p].st = st] = [child EXCEPT ![p] = [child[p] EXCEPT !.st = st]]
  OBVIOUS
<1>5. [child EXCEPT ![p].st = st, ![p].held = held]
        = [child EXCEPT ![p] = [child[p] EXCEPT !.st = st, !.held = held]]
  BY <1>1, LenProperties
<1> QED  BY <1>1, <1>2, <1>3, <1>4, <1>5, ExceptSeq

\* What clients and children do leaves the stores in order.
LEMMA EnvironmentStores ==
  ASSUME StoreInv, Environment
  PROVE  StoreInv'
<1>1. ASSUME NEW c \in Client, Connect(c) \/ Send(c) \/ Leave(c) PROVE StoreInv'
  BY <1>1, StoreFrame DEF Connect, Send, Leave, server_vars, StoreInv
<1>2. ASSUME NEW p \in DOMAIN child, ChildExit(p) PROVE StoreInv'
  BY <1>2, ChildUpdate, StoreFrame DEF ChildExit, server_vars, StoreInv
<1>3. ASSUME NEW p \in DOMAIN child, ChildStop(p) PROVE StoreInv'
  BY <1>3, ChildUpdate, StoreFrame DEF ChildStop, server_vars, StoreInv
<1>4. ASSUME NEW p \in DOMAIN child, ChildContinue(p) PROVE StoreInv'
  BY <1>4, ChildUpdate, StoreFrame DEF ChildContinue, server_vars, StoreInv
<1> QED  BY <1>1, <1>2, <1>3, <1>4 DEF Environment

\* get_task left the store as it was.
LEMMA NothingStores ==
  ASSUME StoreInv, GotNothing(task_store'), UNCHANGED <<process_store, child>>
  PROVE  StoreInv'
<1>1. TasksFilled'
  BY DEF StoreInv, TasksFilled, GotNothing
<1> QED  BY <1>1 DEF StoreInv, PidsKnown, GotNothing

\* get_task filled a slot.
LEMMA GotTaskFilled ==
  ASSUME StoreInv, NEW s, NEW key, NEW n, NEW c \in Client, GotTask(s, key, n, c)
  PROVE  /\ \A k \in UsedSlots(s) :
              s.data[k].name \in Name /\ s.data[k].cmd \in Path /\ s.data[k].owner \in Client
         /\ s.data[key] \in Task
         /\ launched_child(s.data[key]) \in Child
<1>1. Section[workspace][n].wait \in Name \cup {NULL}
  BY SectionType DEF GotTask
<1>2. s.data[key].name = n /\ s.data[key].cmd = workspace /\ s.data[key].owner = c
      /\ s.data[key].wait = Section[workspace][n].wait
  BY DEF GotTask
<1>3. s.data[key] \in Task
  BY <1>1 DEF GotTask, Task
<1>4. launched_child(s.data[key]) \in Child
  BY <1>1, <1>2 DEF launched_child, Child, GotTask
<1>5. \A k \in UsedSlots(s) :
        s.data[k].name \in Name /\ s.data[k].cmd \in Path /\ s.data[k].owner \in Client
  BY <1>2 DEF GotTask, StoreInv, TasksFilled
<1> QED  BY <1>3, <1>4, <1>5

\* A request that is queued, or told it failed, leaves a filled slot behind.
LEMMA WaitingStores ==
  ASSUME StoreInv, NEW key, NEW n, NEW c \in Client, GotTask(task_store', key, n, c),
         UNCHANGED <<process_store, child>>
  PROVE  StoreInv'
<1>1. TasksFilled'
  BY GotTaskFilled DEF TasksFilled
<1> QED  BY <1>1 DEF StoreInv, PidsKnown, GotTask

\* A launch keeps the process store sound and its pids known.
LEMMA LaunchStores ==
  ASSUME NEW s, NEW children \in Seq(Child), NEW task \in Task,
         Sound(s, PROCESS_STORE_COUNT, TaskProcess),
         \A k \in UsedSlots(s) : s.data[k].pid \in DOMAIN children,
         child \in Seq(Child), Len(children) = Len(child),
         launched_child(task) \in Child,
         Launch(s, children, task)
  PROVE  /\ Sound(process_store', PROCESS_STORE_COUNT, TaskProcess)
         /\ child' \in Seq(Child)
         /\ PidsKnown'
<1>1. Len(child) \in Nat /\ HasOpen(s)
  BY DEF Launch
<1>2. /\ Sound(process_store', PROCESS_STORE_COUNT, TaskProcess)
      /\ IsLaunch(s, process_store', get_push_index(s), task)
  BY <1>1, LaunchEffect DEF Launch
<1>3. child' \in Seq(Child) /\ Len(child') = Len(child) + 1
  BY AppendProperties DEF Launch
<1>4. /\ DOMAIN children = 1 .. Len(child) /\ DOMAIN child' = 1 .. Len(child) + 1
  BY <1>3, LenProperties
<1>5. s.data \in [Slot(PROCESS_STORE_COUNT) -> TaskProcess]
      /\ UsedSlots(s) \subseteq Slot(PROCESS_STORE_COUNT)
  BY DEF Sound, StoreType, UsedSlots
<1>6. ASSUME NEW k \in UsedSlots(process_store')
      PROVE  process_store'.data[k].pid \in DOMAIN child'
  <2>1. CASE k = get_push_index(s)
    <3>1. process_store'.data[k] = [pid |-> Len(child) + 1, task_name |-> task.name]
      BY <1>2, <1>5, <2>1 DEF IsLaunch
    <3> QED  BY <1>1, <1>4, <3>1
  <2>2. CASE k # get_push_index(s)
    <3>1. k \in UsedSlots(s) /\ process_store'.data[k] = s.data[k]
      BY <1>2, <1>5, <2>2 DEF IsLaunch
    <3>2. s.data[k].pid \in 1 .. Len(child)
      BY <1>4, <3>1
    <3> QED  BY <1>1, <1>4, <3>1, <3>2
  <2> QED  BY <2>1, <2>2
<1> QED  BY <1>2, <1>3, <1>6 DEF PidsKnown

\* A request that is started leaves its slot and becomes a process.
LEMMA StartedStores ==
  ASSUME Inv, NEW c \in Client, NEW n \in Name \cup {NULL},
         get_task(n, c).key # NoKey,
         Launch(process_store, child, get_task(n, c).store.data[get_task(n, c).key]),
         task_store' = store_remove_at(get_task(n, c).store, get_task(n, c).key)
  PROVE  StoreInv'
<1> DEFINE s == get_task(n, c).store
           key == get_task(n, c).key
<1> USE Sizes
<1>1. GotTask(s, key, n, c) /\ StoreInv
  BY GetTask, InvHalves
<1> HIDE DEF s, key
<1>2. Sound(s, TASK_STORE_COUNT, Task) /\ key \in UsedSlots(s) /\ key \in Nat
  BY <1>1 DEF GotTask, Slot
<1>3. /\ Sound(task_store', TASK_STORE_COUNT, Task)
      /\ IsRemove(s, task_store', key)
  BY <1>2, RemoveSound, RemoveEffect DEF s, key
<1>4. /\ s.data[key] \in Task /\ launched_child(s.data[key]) \in Child
      /\ \A k \in UsedSlots(s) :
           s.data[k].name \in Name /\ s.data[k].cmd \in Path /\ s.data[k].owner \in Client
  BY <1>1, GotTaskFilled
<1>5. TasksFilled'
  BY <1>3, <1>4 DEF TasksFilled, IsRemove
<1>6. Launch(process_store, child, s.data[key])
  BY DEF s, key
<1>7. /\ Sound(process_store', PROCESS_STORE_COUNT, TaskProcess)
      /\ child' \in Seq(Child)
      /\ PidsKnown'
  BY <1>1, <1>4, <1>6, LaunchStores DEF StoreInv, PidsKnown
<1> QED  BY <1>3, <1>5, <1>7 DEF StoreInv

\* The argument of a run request is a name, or missing.
LEMMA ArgType ==
  ASSUME LoopType, NEW c \in Client, Packet(c, "run")
  PROVE  msg[c].arg \in Name \cup {NULL}
<1>1. msg[c] \in Command /\ msg[c].type = "run"
  BY DEF Packet, LoopType
<1> QED  BY <1>1, WorkspaceAssumption

\* An iteration of the client loop keeps the stores in order.
LEMMA ClientStores ==
  ASSUME Inv, ClientStep \/ ClientsDone
  PROVE  StoreInv'
<1> USE InvHalves, ArgType
<1>1. ASSUME NEW c \in Client,
             \/ SkipClient(c) \/ ClientClosed(c) \/ InvalidPacket(c)
             \/ WorkspaceSet(c) \/ WorkspaceNotFound(c)
      PROVE  StoreInv'
  BY <1>1, StoreFrame
     DEF SkipClient, ClientClosed, InvalidPacket, WorkspaceSet, WorkspaceNotFound, StoreInv
<1>2. ASSUME NEW c \in Client, TaskNotFound(c) PROVE StoreInv'
  <2>1. msg[c].arg \in Name \cup {NULL}
    BY <1>2 DEF TaskNotFound
  <2>2. GotNothing(task_store')
    BY <1>2, <2>1, GetTask DEF TaskNotFound
  <2> QED  BY <1>2, <2>2, NothingStores DEF TaskNotFound
<1>3. ASSUME NEW c \in Client, TaskQueued(c) PROVE StoreInv'
  <2>1. msg[c].arg \in Name \cup {NULL}
    BY <1>3 DEF TaskQueued
  <2>2. GotTask(task_store', get_task(msg[c].arg, c).key, msg[c].arg, c)
    BY <1>3, <2>1, GetTask DEF TaskQueued
  <2> QED  BY <1>3, <2>2, WaitingStores DEF TaskQueued
<1>4. ASSUME NEW c \in Client, TaskLaunchFailed(c) PROVE StoreInv'
  <2>1. msg[c].arg \in Name \cup {NULL}
    BY <1>4 DEF TaskLaunchFailed
  <2>2. GotTask(task_store', get_task(msg[c].arg, c).key, msg[c].arg, c)
    BY <1>4, <2>1, GetTask DEF TaskLaunchFailed
  <2> QED  BY <1>4, <2>2, WaitingStores DEF TaskLaunchFailed
<1>5. ASSUME NEW c \in Client, TaskStarted(c) PROVE StoreInv'
  <2>1. msg[c].arg \in Name \cup {NULL}
    BY <1>5 DEF TaskStarted
  <2> QED  BY <1>5, <2>1, StartedStores DEF TaskStarted
<1>6. CASE ClientsDone
  BY <1>6, StoreFrame DEF ClientsDone, StoreInv
<1> QED  BY <1>1, <1>2, <1>3, <1>4, <1>5, <1>6 DEF ClientStep
\* Select and accept do not touch the stores.
LEMMA LoopHeadStores ==
  ASSUME StoreInv,
         \/ Select \/ SelectFails
         \/ NoIncoming \/ AcceptOverLimit \/ AcceptSetupFails \/ AcceptClient
  PROVE  StoreInv'
BY StoreFrame DEF Select, SelectFails, NoIncoming, AcceptOverLimit, AcceptSetupFails,
                  AcceptClient, Accept, ToClients, StoreInv

-----------------------------------------------------------------------------
\* The process loop.

\* What waitpid leaves of the children, and what store_remove_at leaves of the
\* process store, is again in order.
LEMMA Reaped ==
  ASSUME LoopType, StoreInv, Completed
  PROVE  /\ iter \in UsedSlots(process_store)
         /\ Sound(store_remove_at(process_store, iter), PROCESS_STORE_COUNT, TaskProcess)
         /\ IsRemove(process_store, store_remove_at(process_store, iter), iter)
         /\ waited(process_store.data[iter].pid) \in Seq(Child)
         /\ Len(waited(process_store.data[iter].pid)) = Len(child)
         /\ \A k \in UsedSlots(store_remove_at(process_store, iter)) :
              store_remove_at(process_store, iter).data[k].pid \in DOMAIN child
<1> USE Sizes
<1> DEFINE p == process_store.data[iter].pid
           rest == store_remove_at(process_store, iter)
<1>1. iter \in UsedSlots(process_store) /\ iter \in Nat
  <2>1. /\ store_is_used(process_store, iter)
        /\ iter \in 0 .. PROCESS_STORE_COUNT - 1
    BY DEF Completed, AtProcess, LoopType
  <2>2. process_store.capacity = PROCESS_STORE_COUNT
    BY DEF StoreInv, Sound, StoreType
  <2> QED  BY <2>1, <2>2 DEF UsedSlots, Slot, store_is_used
<1>2. /\ Sound(rest, PROCESS_STORE_COUNT, TaskProcess)
      /\ IsRemove(process_store, rest, iter)
  BY <1>1, RemoveSound, RemoveEffect DEF StoreInv
<1>3. p \in DOMAIN child
  BY <1>1 DEF StoreInv, PidsKnown
<1>4. waited(p) \in Seq(Child) /\ Len(waited(p)) = Len(child)
  BY <1>3, ChildUpdate DEF waited, StoreInv
<1>5. \A k \in UsedSlots(rest) : rest.data[k].pid \in DOMAIN child
  <2> HIDE DEF rest
  <2> QED  BY <1>2 DEF StoreInv, PidsKnown, IsRemove
<1> QED  BY <1>1, <1>2, <1>4, <1>5

\* An iteration of the process loop, server_check_task_queue included, keeps the
\* stores in order.
LEMMA ProcessStores ==
  ASSUME Inv,
         SkipProcess \/ Reap \/ ReapAndLaunch \/ ReapLaunchFails \/ ProcessesDone
  PROVE  StoreInv'
<1> DEFINE rest == store_remove_at(process_store, iter)
           left_of == waited(process_store.data[iter].pid)
           done == process_store.data[iter].task_name
           next == next_task(done)
<1> USE InvHalves, Sizes
<1>1. CASE SkipProcess \/ ProcessesDone
  BY <1>1, StoreFrame DEF SkipProcess, ProcessesDone, StoreInv
<1>2. CASE Reap \/ ReapLaunchFails
  <2>1. Completed /\ process_store' = rest /\ child' = left_of /\ task_store' = task_store
    BY <1>2 DEF Reap, ReapLaunchFails
  <2>2. /\ Sound(rest, PROCESS_STORE_COUNT, TaskProcess)
        /\ left_of \in Seq(Child) /\ Len(left_of) = Len(child)
        /\ \A k \in UsedSlots(rest) : rest.data[k].pid \in DOMAIN child
    BY <2>1, Reaped
  <2> HIDE DEF rest, left_of
  <2>3. DOMAIN child' = DOMAIN child
    BY <2>1, <2>2, LenProperties DEF StoreInv
  <2> QED  BY <2>1, <2>2, <2>3 DEF StoreInv, TasksFilled, PidsKnown
<1>3. CASE ReapAndLaunch
  <2>1. /\ Completed /\ next # NoKey
        /\ Launch(rest, left_of, task_store.data[next])
        /\ task_store' = store_remove_at(task_store, next)
    BY <1>3 DEF ReapAndLaunch
  <2>2. /\ Sound(rest, PROCESS_STORE_COUNT, TaskProcess)
        /\ left_of \in Seq(Child) /\ Len(left_of) = Len(child)
        /\ \A k \in UsedSlots(rest) : rest.data[k].pid \in DOMAIN child
    BY <2>1, Reaped
  <2>3. next \in UsedSlots(task_store)
    BY <2>1, NextTask
  <2> HIDE DEF rest, left_of, next
  <2>4. /\ UsedSlots(task_store) \subseteq Slot(TASK_STORE_COUNT)
        /\ task_store.data \in [Slot(TASK_STORE_COUNT) -> Task]
    BY DEF StoreInv, Sound, StoreType, UsedSlots
  <2>5. next \in Nat /\ task_store.data[next] \in Task
    BY <2>3, <2>4 DEF Slot
  <2>6. /\ Sound(task_store', TASK_STORE_COUNT, Task)
        /\ IsRemove(task_store, task_store', next)
    BY <2>1, <2>3, <2>5, RemoveSound, RemoveEffect DEF StoreInv
  <2>7. TasksFilled'
    BY <2>6 DEF StoreInv, TasksFilled, IsRemove
  <2>8. launched_child(task_store.data[next]) \in Child
    BY <2>3, <2>5 DEF launched_child, Child, Task, StoreInv, TasksFilled
  <2>9. DOMAIN left_of = DOMAIN child
    BY <2>2, LenProperties DEF StoreInv
  <2>10. /\ Sound(process_store', PROCESS_STORE_COUNT, TaskProcess)
         /\ child' \in Seq(Child)
         /\ PidsKnown'
    BY <2>1, <2>2, <2>5, <2>8, <2>9, LaunchStores DEF StoreInv
  <2> QED  BY <2>6, <2>7, <2>10 DEF StoreInv
<1> QED  BY <1>1, <1>2, <1>3

-----------------------------------------------------------------------------
\* One step of the server, of a client or of a child keeps the invariant.
LEMMA NextInv ==
  ASSUME Inv, [Next]_vars
  PROVE  Inv'
<1> SUFFICES LoopType' /\ StoreInv'
  BY DEF Inv, TypeOK, StoresSound, LoopType, StoreInv, Sound
<1> USE InvHalves
<1>1. CASE Environment
  BY <1>1, EnvironmentLoop, EnvironmentStores
<1>2. CASE Select \/ SelectFails
  BY <1>2, SelectLoop, LoopHeadStores
<1>3. CASE NoIncoming \/ AcceptOverLimit \/ AcceptSetupFails \/ AcceptClient
  BY <1>3, IncomingLoop, LoopHeadStores
<1>4. CASE ClientStep \/ ClientsDone
  BY <1>4, ClientLoop, ClientStores
<1>5. CASE SkipProcess \/ Reap \/ ReapAndLaunch \/ ReapLaunchFails \/ ProcessesDone
  BY <1>5, ProcessLoop, ProcessStores
<1>6. CASE UNCHANGED vars
  BY <1>6 DEF vars, server_vars, client_vars, LoopType, StoreInv, TasksFilled, PidsKnown
<1> QED  BY <1>1, <1>2, <1>3, <1>4, <1>5, <1>6 DEF Next, ServerStep

\* The invariant holds in every state of every behaviour.
LEMMA SpecInv == Spec => []Inv
<1>1. Init => Inv
  BY InitInv
<1>2. Inv /\ [Next]_vars => Inv'
  BY NextInv
<1> QED  BY <1>1, <1>2, PTL DEF Spec

\* Every variable of the server keeps its type; no loop of run_as_server leaves
\* the array it runs over.
THEOREM TypeCorrect == Spec => []TypeOK
<1>1. Inv => TypeOK
  BY DEF Inv
<1> QED  BY <1>1, SpecInv, PTL

\* The task store and the process store of the server keep exact free lists:
\* whatever fails in get_task or server_task_launch, no slot is lost and none
\* is handed out twice.
THEOREM StoresAlwaysSound == Spec => []StoresSound
<1>1. Inv => StoresSound
  BY DEF Inv
<1> QED  BY <1>1, SpecInv, PTL

-----------------------------------------------------------------------------
\* The client stack.

\* The backlog and the stack hold each client at most once, and the state of a
\* client's socket says on which of them it is.
SocketInv ==
  /\ Distinct(client_stack) /\ Distinct(backlog)
  /\ Items(client_stack) = {c \in Client : sock[c] = "accepted"}
  /\ Items(backlog) = {c \in Client : sock[c] = "backlog"}

\* What select reported still has its input, and the part of the stack above
\* the index of the client loop has been served, when select works.
ServedInv ==
  ~ SYS_FAIL =>
    /\ \A c \in read_flags \cap Client : HasInput(c)
    /\ pc = "clients" =>
         \A j \in 1 .. Len(client_stack) : j > iter + 1 => client_stack[j] \notin read_flags
    /\ pc = "processes" =>
         \A j \in 1 .. Len(client_stack) : client_stack[j] \notin read_flags

-----------------------------------------------------------------------------
\* The sockets that server_check_activity watches are the items of the stack.
LEMMA WatchedItems ==
  ASSUME LoopType
  PROVE  Watched = Items(client_stack)
<1> DEFINE n == Len(client_stack)
<1>1. n \in Nat
  BY LenProperties DEF LoopType
<1> HIDE DEF n
<1>2. \A j \in 0 .. n - 1 : j + 1 \in 1 .. n
  BY <1>1
<1>3. \A j \in 1 .. n : j - 1 \in 0 .. n - 1 /\ (j - 1) + 1 = j
  BY <1>1
<1>4. {client_stack[j + 1] : j \in 0 .. n - 1} = {client_stack[j] : j \in 1 .. n}
  <2>1. ASSUME NEW j \in 1 .. n PROVE \E k \in 0 .. n - 1 : client_stack[j] = client_stack[k + 1]
    BY <1>3
  <2> QED  BY <1>2, <2>1
<1> QED  BY <1>4 DEF Watched, stack_get, Items, n

-----------------------------------------------------------------------------
\* The sockets.

\* A socket leaves the stack when its client is answered or has hung up.
LEMMA CloseSocket ==
  ASSUME LoopType, SocketInv, NEW c \in Client, AtClient(c),
         client_stack' = stack_remove_at_fast(client_stack, iter),
         sock' = [sock EXCEPT ![c] = "closed"]
  PROVE  SocketInv'
<1>1. iter \in 0 .. Len(client_stack) - 1
  BY DEF AtClient, LoopType
<1>2. c = client_stack[iter + 1] /\ backlog' = backlog
  BY DEF AtClient, stack_get
<1>3. /\ Distinct(client_stack')
      /\ Items(client_stack') = Items(client_stack) \ {c}
  BY <1>1, <1>2, RemoveDistinct DEF LoopType, SocketInv
<1>4. c \in Items(client_stack)
  <2>1. iter + 1 \in 1 .. Len(client_stack)
    BY <1>1, LenProperties DEF LoopType
  <2> QED  BY <1>2, <2>1 DEF Items
<1>5. sock[c] = "accepted"
  BY <1>4 DEF SocketInv
<1>6. \A d \in Client : sock'[d] = IF d = c THEN "closed" ELSE sock[d]
  BY DEF LoopType
<1> QED  BY <1>2, <1>3, <1>5, <1>6 DEF SocketInv

\* Nothing happens to the stack, the backlog and the sockets.
LEMMA SocketFrame ==
  ASSUME SocketInv, UNCHANGED <<client_stack, backlog, sock>>
  PROVE  SocketInv'
BY DEF SocketInv

\* A connection leaves the backlog.
LEMMA AcceptSocket ==
  ASSUME LoopType, SocketInv, NEW st \in {"refused", "leaked", "accepted"}, Accept(st)
  PROVE  /\ Head(backlog) \in Client /\ sock[Head(backlog)] = "backlog"
         /\ Distinct(backlog') /\ Items(backlog') = {c \in Client : sock'[c] = "backlog"}
         /\ \A c \in Client : sock'[c] = IF c = Head(backlog) THEN st ELSE sock[c]
<1> DEFINE h == Head(backlog)
<1>1. backlog \in Seq(Client) /\ backlog # <<>> /\ backlog' = Tail(backlog)
  BY DEF LoopType, Accept
<1>2. Distinct(backlog') /\ Items(backlog') = Items(backlog) \ {h} /\ h \in Items(backlog)
  BY <1>1, TailDistinct DEF SocketInv
<1>3. h \in Client /\ sock[h] = "backlog"
  BY <1>2 DEF SocketInv
<1>4. \A c \in Client : sock'[c] = IF c = h THEN st ELSE sock[c]
  BY DEF LoopType, Accept
<1> HIDE DEF h
<1>5. Items(backlog') = {c \in Client : sock'[c] = "backlog"}
  BY <1>2, <1>3, <1>4 DEF SocketInv
<1> QED  BY <1>2, <1>3, <1>4, <1>5 DEF h

\* One step keeps the sockets in order.
LEMMA NextSocket ==
  ASSUME Inv, SocketInv, [Next]_vars
  PROVE  SocketInv'
<1>1. LoopType
  BY InvHalves
<1>2. ASSUME NEW c \in Client, Connect(c) PROVE SocketInv'
  <2>1. backlog \in Seq(Client) /\ c \notin Items(backlog)
    BY <1>1, <1>2 DEF LoopType, Connect, SocketInv
  <2>2. Distinct(backlog') /\ Items(backlog') = Items(backlog) \cup {c}
    BY <1>2, <2>1, AppendDistinct DEF Connect, SocketInv
  <2>3. \A d \in Client : sock'[d] = IF d = c THEN "backlog" ELSE sock[d]
    BY <1>1, <1>2 DEF LoopType, Connect
  <2>4. client_stack' = client_stack /\ sock[c] = "none"
    BY <1>2 DEF Connect, server_vars
  <2> QED  BY <2>2, <2>3, <2>4 DEF SocketInv
<1>3. CASE \/ \E c \in Client : Send(c) \/ Leave(c)
           \/ \E p \in DOMAIN child : ChildExit(p) \/ ChildStop(p) \/ ChildContinue(p)
  BY <1>3, SocketFrame DEF Send, Leave, ChildExit, ChildStop, ChildContinue,
                           server_vars, client_vars
<1>4. CASE Select \/ SelectFails \/ NoIncoming \/ ClientsDone \/ ProcessesDone
  BY <1>4, SocketFrame
     DEF Select, SelectFails, NoIncoming, ClientsDone, ProcessesDone, client_vars
<1>5. CASE AcceptOverLimit \/ AcceptSetupFails
  <2>1. PICK st \in {"refused", "leaked"} : Accept(st) /\ client_stack' = client_stack
    BY <1>5 DEF AcceptOverLimit, AcceptSetupFails
  <2> DEFINE h == Head(backlog)
  <2>2. /\ h \in Client /\ sock[h] = "backlog"
        /\ Distinct(backlog') /\ Items(backlog') = {c \in Client : sock'[c] = "backlog"}
        /\ \A c \in Client : sock'[c] = IF c = h THEN st ELSE sock[c]
    BY <1>1, <2>1, AcceptSocket
  <2> HIDE DEF h
  <2>3. {c \in Client : sock'[c] = "accepted"} = {c \in Client : sock[c] = "accepted"}
    BY <2>1, <2>2
  <2> QED  BY <2>1, <2>2, <2>3 DEF SocketInv
<1>6. CASE AcceptClient
  <2> DEFINE h == Head(backlog)
  <2>1. Accept("accepted")
    BY <1>6 DEF AcceptClient
  <2>2. /\ h \in Client /\ sock[h] = "backlog"
        /\ Distinct(backlog') /\ Items(backlog') = {c \in Client : sock'[c] = "backlog"}
        /\ \A c \in Client : sock'[c] = IF c = h THEN "accepted" ELSE sock[c]
    BY <1>1, <2>1, AcceptSocket
  <2>3. client_stack' = Append(client_stack, h)
    <3>1. Len(client_stack) \in Nat
      BY <1>1 DEF LoopType
    <3> QED  BY <1>6, <3>1, Sizes DEF AcceptClient, AtClientLimit, stack_push
  <2> HIDE DEF h
  <2>4. h \notin Items(client_stack)
    BY <2>2 DEF SocketInv
  <2>5. /\ Distinct(client_stack')
        /\ Items(client_stack') = Items(client_stack) \cup {h}
    BY <1>1, <2>2, <2>3, <2>4, AppendDistinct DEF SocketInv, LoopType
  <2>6. Items(client_stack') = {c \in Client : sock'[c] = "accepted"}
    BY <2>2, <2>5 DEF SocketInv
  <2> QED  BY <2>2, <2>5, <2>6 DEF SocketInv
<1>7. ASSUME NEW c \in Client, SkipClient(c) PROVE SocketInv'
  BY <1>7, SocketFrame DEF SkipClient, AtClient
<1>8. ASSUME NEW c \in Client, ClientClosed(c) PROVE SocketInv'
  BY <1>1, <1>8, CloseSocket DEF ClientClosed
<1>9. ASSUME NEW c \in Client,
             \/ InvalidPacket(c) \/ TaskNotFound(c) \/ TaskQueued(c)
             \/ TaskLaunchFailed(c) \/ TaskStarted(c)
             \/ WorkspaceSet(c) \/ WorkspaceNotFound(c)
      PROVE  SocketInv'
  <2>1. AtClient(c) /\ \E v \in Verdict : server_respond(c, v)
    BY <1>9 DEF InvalidPacket, TaskNotFound, TaskQueued, TaskLaunchFailed, TaskStarted,
                WorkspaceSet, WorkspaceNotFound, Packet, Verdict
  <2> QED  BY <1>1, <2>1, CloseSocket DEF server_respond
<1>10. CASE SkipProcess \/ Reap \/ ReapAndLaunch \/ ReapLaunchFails
  <2>1. AtProcess
    BY <1>10 DEF SkipProcess, Reap, ReapAndLaunch, ReapLaunchFails, Completed
  <2> QED  BY <2>1, SocketFrame DEF AtProcess, client_vars
<1>11. CASE UNCHANGED vars
  BY <1>11, SocketFrame DEF vars, server_vars, client_vars
<1> QED  BY <1>2, <1>3, <1>4, <1>5, <1>6, <1>7, <1>8, <1>9, <1>10, <1>11
         DEF Next, ServerStep, ClientStep, Environment

\* The client stack always holds exactly the open sockets, each once, although
\* stack_remove_at_fast reorders it while the client loop runs over it.
THEOREM ClientStackAlwaysSound == Spec => []ClientStackSound
<1>1. Init => SocketInv
  BY DEF Init, SocketInv, Distinct, Items
<1>2. Inv /\ SocketInv /\ [Next]_vars => SocketInv'
  BY NextSocket
<1>3. Inv /\ SocketInv => ClientStackSound
  BY InvHalves, WatchedItems DEF SocketInv, ClientStackSound, Distinct
<1> QED  BY <1>1, <1>2, <1>3, SpecInv, PTL DEF Spec

-----------------------------------------------------------------------------
\* The pass over the stack.

\* Input does not go away before it is read: nothing takes back a message or a
\* closed connection.
LEMMA InputStays ==
  ASSUME LoopType, [Next]_vars, NEW c \in Client, HasInput(c)
  PROVE  HasInput(c)'
<1>1. CASE UNCHANGED <<msg, left>>
  BY <1>1 DEF HasInput
<1>2. ASSUME NEW d \in Client, Send(d) PROVE HasInput(c)'
  <2>1. \A m \in Command : m # NULL
    BY NameAssumption
  <2> QED  BY <1>2, <2>1 DEF Send, HasInput, LoopType
<1>3. ASSUME NEW d \in Client, Leave(d) PROVE HasInput(c)'
  BY <1>3 DEF Leave, HasInput
<1>4. CASE ServerStep
  <2>1. CASE Select \/ SelectFails \/ ClientsDone \/ ProcessesDone
    BY <1>1, <2>1 DEF Select, SelectFails, ClientsDone, ProcessesDone, client_vars
  <2>2. CASE NoIncoming \/ AcceptOverLimit \/ AcceptSetupFails \/ AcceptClient
    BY <1>1, <2>2
       DEF NoIncoming, AcceptOverLimit, AcceptSetupFails, AcceptClient, Accept, ToClients
  <2>3. CASE ClientStep
    <3>1. \E d \in Client : AtClient(d)
      BY <2>3 DEF ClientStep, SkipClient, ClientClosed, InvalidPacket, TaskNotFound,
                  TaskQueued, TaskLaunchFailed, TaskStarted, WorkspaceSet,
                  WorkspaceNotFound, Packet
    <3> QED  BY <1>1, <3>1 DEF AtClient
  <2>4. CASE SkipProcess \/ Reap \/ ReapAndLaunch \/ ReapLaunchFails
    <3>1. AtProcess
      BY <2>4 DEF SkipProcess, Reap, ReapAndLaunch, ReapLaunchFails, Completed
    <3> QED  BY <1>1, <3>1 DEF AtProcess, client_vars
  <2> QED  BY <1>4, <2>1, <2>2, <2>3, <2>4 DEF ServerStep
<1>5. CASE \/ \E d \in Client : Connect(d)
           \/ \E p \in DOMAIN child : ChildExit(p) \/ ChildStop(p) \/ ChildContinue(p)
  BY <1>1, <1>5 DEF Connect, ChildExit, ChildStop, ChildContinue, client_vars
<1>6. CASE UNCHANGED vars
  BY <1>1, <1>6 DEF vars, client_vars
<1> QED  BY <1>2, <1>3, <1>4, <1>5, <1>6 DEF Next, Environment

\* The client at the index is answered or closed: the last client of the stack
\* takes its place, and it was above the index, hence served.
LEMMA ServedMove ==
  ASSUME LoopType, NEW c \in Client, AtClient(c),
         client_stack' = stack_remove_at_fast(client_stack, iter),
         \A j \in 1 .. Len(client_stack) : j > iter + 1 => client_stack[j] \notin read_flags
  PROVE  \A j \in 1 .. Len(client_stack') : j > iter' + 1 => client_stack'[j] \notin read_flags'
<1> DEFINE n == Len(client_stack)
<1>1. /\ iter \in 0 .. n - 1 /\ n \in Nat
      /\ iter' = iter - 1 /\ read_flags' = read_flags
  BY DEF AtClient, LoopType
<1>2. /\ Len(client_stack') = n - 1
      /\ \A j \in 1 .. n - 1 :
            client_stack'[j] = IF j = iter + 1 THEN client_stack[n] ELSE client_stack[j]
  BY <1>1, RemoveFast DEF LoopType
<1>3. ASSUME NEW j \in 1 .. n - 1, j > iter' + 1
      PROVE  client_stack'[j] \notin read_flags
  <2>1. CASE j = iter + 1
    <3>1. n \in 1 .. n /\ n > iter + 1
      BY <1>1, <2>1
    <3> QED  BY <1>2, <2>1, <3>1
  <2>2. CASE j # iter + 1
    <3>1. j \in 1 .. n /\ j > iter + 1
      BY <1>1, <1>3, <2>2
    <3> QED  BY <1>2, <2>2, <3>1
  <2> QED  BY <2>1, <2>2
<1> QED  BY <1>1, <1>2, <1>3

\* One step keeps the served part of the stack served.
LEMMA NextServed ==
  ASSUME Inv, ServedInv, [Next]_vars
  PROVE  ServedInv'
<1> SUFFICES ASSUME ~ SYS_FAIL PROVE ServedInv'
  BY DEF ServedInv
<1> DEFINE above == \A j \in 1 .. Len(client_stack) :
                       j > iter + 1 => client_stack[j] \notin read_flags
           all == \A j \in 1 .. Len(client_stack) : client_stack[j] \notin read_flags
           input == \A c \in read_flags \cap Client : HasInput(c)
<1>1. LoopType /\ input /\ (pc = "clients" => above) /\ (pc = "processes" => all)
  BY InvHalves DEF ServedInv
<1>2. SUFFICES input' /\ (pc' = "clients" => above') /\ (pc' = "processes" => all')
  BY DEF ServedInv
<1>3. read_flags' = read_flags => input'
  BY <1>1, InputStays
<1>4. CASE UNCHANGED <<read_flags, client_stack, pc, iter>>
  BY <1>1, <1>3, <1>4
<1>5. CASE Environment \/ UNCHANGED vars
  BY <1>4, <1>5 DEF Environment, Connect, Send, Leave, ChildExit, ChildStop, ChildContinue,
                    vars, server_vars
<1>6. CASE Select
  <2>1. pc' = "incoming" /\ UNCHANGED <<msg, left>>
    BY <1>6 DEF Select, client_vars
  <2>2. \A c \in read_flags' \cap Client : HasInput(c)
    BY <1>6, NameAssumption DEF Select
  <2> QED  BY <2>1, <2>2 DEF HasInput
<1>7. ~ SelectFails
  BY DEF SelectFails
<1>8. CASE NoIncoming \/ AcceptOverLimit \/ AcceptSetupFails \/ AcceptClient
  <2>1. ToClients
    BY <1>8 DEF NoIncoming, AcceptOverLimit, AcceptSetupFails, AcceptClient, Accept
  <2>2. pc' = "clients" /\ iter' + 1 = Len(client_stack') /\ read_flags' = read_flags
    <3>1. client_stack' \in Seq(Client)
      BY <1>1, <1>8, IncomingLoop DEF LoopType
    <3>2. Len(client_stack') \in Nat
      BY <3>1, LenProperties
    <3> QED  BY <2>1, <3>2 DEF ToClients
  <2>3. above'
    BY <2>2
  <2> QED  BY <1>3, <2>2, <2>3
<1>9. ASSUME NEW c \in Client, SkipClient(c)
      PROVE  input' /\ (pc' = "clients" => above') /\ (pc' = "processes" => all')
  <2>1. /\ pc = "clients" /\ pc' = "clients" /\ iter' = iter - 1 /\ iter >= 0
        /\ read_flags' = read_flags /\ client_stack' = client_stack
        /\ c = client_stack[iter + 1]
    BY <1>9 DEF SkipClient, AtClient, stack_get
  <2>2. c \notin read_flags
    BY <1>1, <1>9 DEF SkipClient
  <2>3. iter \in Int
    BY <1>1 DEF LoopType
  <2>4. \A j \in 1 .. Len(client_stack) : j > iter' + 1 => j > iter + 1 \/ j = iter + 1
    BY <2>1, <2>3, LenProperties, <1>1 DEF LoopType
  <2>5. above'
    BY <1>1, <2>1, <2>2, <2>4
  <2> QED  BY <1>3, <2>1, <2>5
<1>10. ASSUME NEW c \in Client, AtClient(c),
              client_stack' = stack_remove_at_fast(client_stack, iter)
       PROVE  input' /\ (pc' = "clients" => above') /\ (pc' = "processes" => all')
  <2>1. pc = "clients" /\ pc' = "clients" /\ read_flags' = read_flags
    BY <1>10 DEF AtClient
  <2>2. above'
    BY <1>1, <1>10, <2>1, ServedMove
  <2> QED  BY <1>3, <2>1, <2>2
<1>11. CASE ClientStep
  <2>1. PICK c \in Client :
          \/ SkipClient(c) \/ ClientClosed(c) \/ InvalidPacket(c)
          \/ TaskNotFound(c) \/ TaskQueued(c) \/ TaskLaunchFailed(c) \/ TaskStarted(c)
          \/ WorkspaceSet(c) \/ WorkspaceNotFound(c)
    BY <1>11 DEF ClientStep
  <2>2. CASE SkipClient(c)
    BY <1>9, <2>2
  <2>3. CASE ~ SkipClient(c)
    <3>1. AtClient(c) /\ client_stack' = stack_remove_at_fast(client_stack, iter)
      BY <2>1, <2>3
         DEF ClientClosed, InvalidPacket, TaskNotFound, TaskQueued, TaskLaunchFailed,
             TaskStarted, WorkspaceSet, WorkspaceNotFound, Packet, server_respond
    <3> QED  BY <1>10, <3>1
  <2> QED  BY <2>2, <2>3
<1>12. CASE ClientsDone
  <2>1. /\ pc = "clients" /\ pc' = "processes" /\ iter < 0
        /\ read_flags' = read_flags /\ client_stack' = client_stack
    BY <1>12 DEF ClientsDone
  <2>2. \A j \in 1 .. Len(client_stack) : j > iter + 1
    BY <1>1, <2>1 DEF LoopType
  <2>3. all'
    BY <1>1, <2>1, <2>2
  <2> QED  BY <1>3, <2>1, <2>3
<1>13. CASE SkipProcess \/ Reap \/ ReapAndLaunch \/ ReapLaunchFails
  <2>1. AtProcess
    BY <1>13 DEF SkipProcess, Reap, ReapAndLaunch, ReapLaunchFails, Completed
  <2>2. pc = "processes" /\ UNCHANGED <<pc, read_flags, client_stack>>
    BY <2>1 DEF AtProcess
  <2> QED  BY <1>1, <1>3, <2>2
<1>14. CASE ProcessesDone
  BY <1>3, <1>14 DEF ProcessesDone
<1> QED  BY <1>5, <1>6, <1>7, <1>8, <1>11, <1>12, <1>13, <1>14 DEF Next, ServerStep

\* When select works, a pass serves every client that select reported: that
\* stack_remove_at_fast moves the last client into the hole makes the downward
\* loop skip nobody.
THEOREM PassAlwaysServesAll == Spec => []PassServesAll
<1>1. Init => ServedInv
  BY DEF Init, ServedInv
<1>2. Inv /\ ServedInv /\ [Next]_vars => ServedInv'
  BY NextServed
<1>3. Inv /\ ServedInv => PassServesAll
  BY InvHalves, WatchedItems DEF ServedInv, PassServesAll, Items
<1> QED  BY <1>1, <1>2, <1>3, SpecInv, PTL DEF Spec

-----------------------------------------------------------------------------
\* The process store and the children.

\* What ProcessesSound says of a store and a table of children, and that a
\* child which is stopped counts as one that has been: waitpid lets the server
\* forget a stopped child, so the invariant must know that it was stopped.
Agree(s, children) ==
  /\ \A k \in UsedSlots(s) :
        /\ s.data[k].pid \in DOMAIN children
        /\ children[s.data[k].pid].st # "reaped"
        /\ children[s.data[k].pid].name = s.data[k].task_name
  /\ \A k, l \in UsedSlots(s) : s.data[k].pid = s.data[l].pid => k = l
  /\ \A p \in DOMAIN children :
        children[p].st # "reaped" /\ ~ children[p].held =>
          /\ children[p].st # "stopped"
          /\ \E k \in UsedSlots(s) : s.data[k].pid = p

\* The invariant: what ServerProofs shows, and the agreement.
AgreeInv == Inv /\ Agree(process_store, child)

\* The agreement is what ProcessesSound asks for.
LEMMA AgreeSound == Agree(process_store, child) => ProcessesSound
BY DEF Agree, ProcessesSound

\* A child that is alive stays in agreement when it stops, continues or ends.
LEMMA AgreeChild ==
  ASSUME NEW s, NEW children, Agree(s, children), NEW p \in DOMAIN children,
         NEW after, DOMAIN after = DOMAIN children,
         \A q \in DOMAIN children \ {p} : after[q] = children[q],
         children[p].st # "reaped", after[p].st # "reaped",
         after[p].name = children[p].name,
         children[p].held => after[p].held,
         after[p].st = "stopped" => after[p].held
  PROVE  Agree(s, after)
<1>1. ASSUME NEW k \in UsedSlots(s)
      PROVE  /\ s.data[k].pid \in DOMAIN after
             /\ after[s.data[k].pid].st # "reaped"
             /\ after[s.data[k].pid].name = s.data[k].task_name
  <2>1. CASE s.data[k].pid = p
    BY <2>1 DEF Agree
  <2>2. CASE s.data[k].pid # p
    BY <2>2 DEF Agree
  <2> QED  BY <2>1, <2>2
<1>2. ASSUME NEW q \in DOMAIN after, after[q].st # "reaped", ~ after[q].held
      PROVE  after[q].st # "stopped" /\ \E k \in UsedSlots(s) : s.data[k].pid = q
  <2>1. CASE q = p
    BY <1>2, <2>1 DEF Agree
  <2>2. CASE q # p
    BY <1>2, <2>2 DEF Agree
  <2> QED  BY <2>1, <2>2
<1> QED  BY <1>1, <1>2 DEF Agree

\* Reaping: the slot goes and waitpid has been called for its child, which had
\* ended or was stopped.
LEMMA AgreeReap ==
  ASSUME NEW s, NEW t, NEW i \in UsedSlots(s), Agree(s, child), IsRemove(s, t, i),
         child \in Seq(Child), waitpid_reports(s.data[i].pid)
  PROVE  Agree(t, waited(s.data[i].pid))
<1> DEFINE p == s.data[i].pid
           after == waited(p)
<1>1. p \in DOMAIN child /\ child[p].st \in {"zombie", "stopped"} /\ child[p] \in Child
  <2>1. p \in DOMAIN child /\ child[p].st # "reaped"
    BY DEF Agree
  <2>2. p \in 1 .. Len(child)
    BY <2>1, LenProperties
  <2>3. child[p] \in Child
    BY <2>2, ElementOfSeq
  <2> QED  BY <2>1, <2>3 DEF waitpid_reports
<1>2. /\ DOMAIN after = DOMAIN child
      /\ \A q \in DOMAIN child \ {p} : after[q] = child[q]
      /\ after[p].st = "reaped" \/ (after[p] = child[p] /\ child[p].st = "stopped")
  BY <1>1 DEF waited, Child
<1> HIDE DEF p, after
<1>3. t.data = s.data /\ UsedSlots(t) = UsedSlots(s) \ {i}
  BY DEF IsRemove
<1>4. \A k \in UsedSlots(t) : k \in UsedSlots(s) /\ s.data[k].pid # p
  BY <1>3 DEF Agree, p
<1>5. ASSUME NEW k \in UsedSlots(t)
      PROVE  /\ t.data[k].pid \in DOMAIN after
             /\ after[t.data[k].pid].st # "reaped"
             /\ after[t.data[k].pid].name = t.data[k].task_name
  BY <1>2, <1>3, <1>4 DEF Agree
<1>6. \A k, l \in UsedSlots(t) : t.data[k].pid = t.data[l].pid => k = l
  BY <1>3, <1>4 DEF Agree
<1>7. ASSUME NEW q \in DOMAIN after, after[q].st # "reaped", ~ after[q].held
      PROVE  after[q].st # "stopped" /\ \E k \in UsedSlots(t) : t.data[k].pid = q
  <2>1. q # p
    BY <1>1, <1>2, <1>7 DEF Agree
  <2>2. child[q].st # "stopped" /\ \E k \in UsedSlots(s) : s.data[k].pid = q
    BY <1>2, <1>7, <2>1 DEF Agree
  <2> QED  BY <1>2, <1>3, <2>1, <2>2 DEF p
<1> QED  BY <1>5, <1>6, <1>7 DEF Agree, p, after

\* Launching: the new child gets a pid that no slot names yet.
LEMMA AgreeLaunch ==
  ASSUME NEW s, NEW t, NEW i, NEW children \in Seq(Child), NEW task,
         s.data \in [Slot(PROCESS_STORE_COUNT) -> TaskProcess],
         UsedSlots(s) \subseteq Slot(PROCESS_STORE_COUNT),
         Agree(s, children), Len(children) = Len(child), child \in Seq(Child),
         IsLaunch(s, t, i, task), launched_child(task) \in Child
  PROVE  Agree(t, Append(children, launched_child(task)))
<1> DEFINE n == Len(child) + 1
           new == launched_child(task)
           after == Append(children, new)
<1>1. Len(child) \in Nat /\ DOMAIN children = 1 .. Len(child)
  BY LenProperties
<1>2. /\ DOMAIN after = DOMAIN children \cup {n} /\ n \notin DOMAIN children
      /\ after[n] = new /\ \A q \in DOMAIN children : after[q] = children[q]
  <2>1. /\ after \in Seq(Child) /\ Len(after) = n
        /\ \A q \in 1 .. Len(children) : after[q] = children[q]
        /\ after[Len(children) + 1] = new
    BY AppendProperties
  <2>2. DOMAIN after = 1 .. n
    BY <2>1, LenProperties
  <2> HIDE DEF after, new
  <2> QED  BY <1>1, <2>1, <2>2
<1>3. new.st = "running" /\ ~ new.held /\ new.name = task.name
  BY DEF launched_child
<1>4. /\ i \in Slot(PROCESS_STORE_COUNT) \ UsedSlots(s)
      /\ UsedSlots(t) = UsedSlots(s) \cup {i}
      /\ t.data[i].pid = n /\ t.data[i].task_name = task.name
      /\ \A k \in UsedSlots(s) : t.data[k] = s.data[k]
  BY DEF IsLaunch
<1> HIDE DEF n, new, after
<1>5. \A k \in UsedSlots(s) : s.data[k].pid \in DOMAIN children /\ s.data[k].pid # n
  BY <1>2 DEF Agree
<1>6. ASSUME NEW k \in UsedSlots(t)
      PROVE  /\ t.data[k].pid \in DOMAIN after
             /\ after[t.data[k].pid].st # "reaped"
             /\ after[t.data[k].pid].name = t.data[k].task_name
  <2>1. CASE k = i
    BY <1>2, <1>3, <1>4, <2>1
  <2>2. CASE k # i
    BY <1>2, <1>4, <1>5, <2>2 DEF Agree
  <2> QED  BY <2>1, <2>2
<1>7. ASSUME NEW k \in UsedSlots(t), NEW l \in UsedSlots(t), t.data[k].pid = t.data[l].pid
      PROVE  k = l
  BY <1>4, <1>5, <1>7 DEF Agree
<1>8. ASSUME NEW q \in DOMAIN after, after[q].st # "reaped", ~ after[q].held
      PROVE  after[q].st # "stopped" /\ \E k \in UsedSlots(t) : t.data[k].pid = q
  <2>1. CASE q = n
    BY <1>2, <1>3, <1>4, <2>1
  <2>2. CASE q # n
    BY <1>2, <1>4, <1>8, <2>2 DEF Agree
  <2> QED  BY <2>1, <2>2
<1> QED  BY <1>6, <1>7, <1>8 DEF Agree, after, new

-----------------------------------------------------------------------------
\* Every action that forks nothing and reaps nothing keeps the agreement.
LEMMA AgreeFrame ==
  ASSUME Agree(process_store, child), UNCHANGED <<process_store, child>>
  PROVE  Agree(process_store, child)'
BY DEF Agree

\* What the clients and the children do.
LEMMA AgreeEnvironment ==
  ASSUME AgreeInv, Environment
  PROVE  Agree(process_store, child)'
<1> USE DEF AgreeInv
<1>1. ASSUME NEW c \in Client, Connect(c) \/ Send(c) \/ Leave(c)
      PROVE  Agree(process_store, child)'
  BY <1>1, AgreeFrame DEF Connect, Send, Leave, server_vars
<1>2. ASSUME NEW p \in DOMAIN child, ChildExit(p) \/ ChildStop(p) \/ ChildContinue(p)
      PROVE  Agree(process_store, child)'
  <2>1. p \in 1 .. Len(child) /\ child[p] \in Child
    BY LenProperties, ElementOfSeq DEF Inv, TypeOK
  <2>2. process_store' = process_store
    BY <1>2 DEF ChildExit, ChildStop, ChildContinue, server_vars
  <2>3. /\ DOMAIN child' = DOMAIN child
        /\ \A q \in DOMAIN child \ {p} : child'[q] = child[q]
        /\ child[p].st # "reaped"
        /\ child'[p].st # "reaped"
        /\ child'[p].name = child[p].name
        /\ child[p].held => child'[p].held
        /\ child'[p].st = "stopped" => child'[p].held
    BY <1>2, <2>1, ZenonT(40) DEF ChildExit, ChildStop, ChildContinue, Alive, Child
  <2>4. Agree(process_store, child')
    BY <2>3, AgreeChild
  <2> QED  BY <2>2, <2>4
<1> QED  BY <1>1, <1>2 DEF Environment

\* A request that is started forks a child.
LEMMA AgreeStarted ==
  ASSUME AgreeInv, NEW c \in Client, TaskStarted(c)
  PROVE  Agree(process_store, child)'
<1> DEFINE n == msg[c].arg
           s == get_task(n, c).store
           key == get_task(n, c).key
<1>1. Inv /\ LoopType /\ StoreInv /\ Agree(process_store, child)
  BY InvHalves DEF AgreeInv
<1>2. n \in Name \cup {NULL}
  BY <1>1, ArgType DEF TaskStarted
<1>3. GotTask(s, key, n, c)
  BY <1>1, <1>2, GetTask DEF TaskStarted
<1>4. Launch(process_store, child, s.data[key])
  BY DEF TaskStarted
<1> HIDE DEF n, s, key
<1>5. s.data[key] \in Task /\ launched_child(s.data[key]) \in Child
  BY <1>1, <1>3, GotTaskFilled
<1>6. /\ child \in Seq(Child) /\ Len(child) \in Nat
      /\ Sound(process_store, PROCESS_STORE_COUNT, TaskProcess)
  BY <1>1 DEF StoreInv
<1>7. IsLaunch(process_store, process_store', get_push_index(process_store), s.data[key])
  BY <1>4, <1>5, <1>6, LaunchEffect DEF Launch
<1>8. /\ process_store.data \in [Slot(PROCESS_STORE_COUNT) -> TaskProcess]
      /\ UsedSlots(process_store) \subseteq Slot(PROCESS_STORE_COUNT)
  BY <1>6 DEF Sound, StoreType, UsedSlots
<1>9. Agree(process_store', Append(child, launched_child(s.data[key])))
  BY <1>1, <1>5, <1>6, <1>7, <1>8, AgreeLaunch
<1> QED  BY <1>4, <1>9 DEF Launch

\* An iteration of the process loop.
LEMMA AgreeProcess ==
  ASSUME AgreeInv, SkipProcess \/ Reap \/ ReapAndLaunch \/ ReapLaunchFails \/ ProcessesDone
  PROVE  Agree(process_store, child)'
<1> DEFINE rest == store_remove_at(process_store, iter)
           pid == process_store.data[iter].pid
           children == waited(pid)
           next == next_task(process_store.data[iter].task_name)
<1>1. Inv /\ LoopType /\ StoreInv /\ Agree(process_store, child)
  BY InvHalves DEF AgreeInv
<1>2. CASE SkipProcess \/ ProcessesDone
  BY <1>1, <1>2, AgreeFrame DEF SkipProcess, ProcessesDone
<1>3. ASSUME Completed
      PROVE  /\ Agree(rest, children)
             /\ Sound(rest, PROCESS_STORE_COUNT, TaskProcess)
             /\ children \in Seq(Child) /\ Len(children) = Len(child)
  <2>1. /\ iter \in UsedSlots(process_store)
        /\ Sound(rest, PROCESS_STORE_COUNT, TaskProcess)
        /\ IsRemove(process_store, rest, iter)
        /\ children \in Seq(Child) /\ Len(children) = Len(child)
    BY <1>1, <1>3, Reaped
  <2>2. waitpid_reports(pid) /\ child \in Seq(Child)
    BY <1>1, <1>3 DEF Completed, StoreInv
  <2>3. Agree(rest, children)
    BY <1>1, <2>1, <2>2, AgreeReap
  <2> QED  BY <2>1, <2>3
<1>4. CASE Reap \/ ReapLaunchFails
  <2>1. Completed /\ process_store' = rest /\ child' = children
    BY <1>4 DEF Reap, ReapLaunchFails
  <2> QED  BY <1>3, <2>1
<1>5. CASE ReapAndLaunch
  <2>1. /\ Completed /\ next # NoKey
        /\ Launch(rest, children, task_store.data[next])
    BY <1>5 DEF ReapAndLaunch
  <2>2. next \in UsedSlots(task_store)
    BY <1>1, <2>1, NextTask
  <2> HIDE DEF rest, children, next
  <2>3. task_store.data[next] \in Task /\ launched_child(task_store.data[next]) \in Child
    <3>1. task_store.data[next] \in Task
      BY <1>1, <2>2 DEF StoreInv, Sound, StoreType, UsedSlots
    <3> QED  BY <1>1, <2>2, <3>1 DEF launched_child, Child, Task, StoreInv, TasksFilled
  <2>4. child \in Seq(Child) /\ Len(child) \in Nat
    BY <1>1 DEF StoreInv
  <2>5. IsLaunch(rest, process_store', get_push_index(rest), task_store.data[next])
    BY <1>3, <2>1, <2>3, <2>4, LaunchEffect DEF Launch
  <2>6. /\ rest.data \in [Slot(PROCESS_STORE_COUNT) -> TaskProcess]
        /\ UsedSlots(rest) \subseteq Slot(PROCESS_STORE_COUNT)
    BY <1>3, <2>1 DEF Sound, StoreType, UsedSlots
  <2>7. Agree(process_store', Append(children, launched_child(task_store.data[next])))
    BY <1>3, <2>1, <2>3, <2>4, <2>5, <2>6, AgreeLaunch
  <2> QED  BY <2>1, <2>7 DEF Launch
<1> QED  BY <1>2, <1>4, <1>5

\* One step keeps the agreement.
LEMMA NextAgree ==
  ASSUME AgreeInv, [Next]_vars
  PROVE  AgreeInv'
<1>1. Inv' /\ Agree(process_store, child)
  BY NextInv DEF AgreeInv
<1> SUFFICES Agree(process_store, child)'
  BY <1>1 DEF AgreeInv
<1>2. CASE Environment
  BY <1>2, AgreeEnvironment
<1>3. CASE \/ Select \/ SelectFails \/ ClientsDone
           \/ NoIncoming \/ AcceptOverLimit \/ AcceptSetupFails \/ AcceptClient
  BY <1>1, <1>3, AgreeFrame
     DEF Select, SelectFails, ClientsDone, NoIncoming, AcceptOverLimit,
         AcceptSetupFails, AcceptClient, Accept, ToClients
<1>4. CASE ClientStep
  <2>1. PICK c \in Client :
          \/ SkipClient(c) \/ ClientClosed(c) \/ InvalidPacket(c)
          \/ TaskNotFound(c) \/ TaskQueued(c) \/ TaskLaunchFailed(c) \/ TaskStarted(c)
          \/ WorkspaceSet(c) \/ WorkspaceNotFound(c)
    BY <1>4 DEF ClientStep
  <2>2. CASE TaskStarted(c)
    BY <2>2, AgreeStarted
  <2>3. CASE ~ TaskStarted(c)
    <3>1. UNCHANGED <<process_store, child>>
      BY <2>1, <2>3 DEF SkipClient, ClientClosed, InvalidPacket, TaskNotFound, TaskQueued,
                        TaskLaunchFailed, WorkspaceSet, WorkspaceNotFound
    <3> QED  BY <1>1, <3>1, AgreeFrame
  <2> QED  BY <2>2, <2>3
<1>5. CASE SkipProcess \/ Reap \/ ReapAndLaunch \/ ReapLaunchFails \/ ProcessesDone
  BY <1>5, AgreeProcess
<1>6. CASE UNCHANGED vars
  BY <1>1, <1>6, AgreeFrame DEF vars, server_vars
<1> QED  BY <1>2, <1>3, <1>4, <1>5, <1>6 DEF Next, ServerStep

\* run_as_server enters its loop with an empty process store and no child.
LEMMA InitAgree == Init => AgreeInv
<1> SUFFICES ASSUME Init PROVE AgreeInv
  OBVIOUS
<1>1. UsedSlots(process_store) = {}
  BY DEF Init, store_new, UsedSlots, Slot
<1>2. DOMAIN child = {}
  BY DEF Init
<1> QED  BY <1>1, <1>2, InitInv DEF AgreeInv, Agree

\* The process store and the kernel always agree: a used slot names a child
\* that has not been reaped, no child is named twice, and a child that was never
\* stopped is not forgotten before it is reaped, however the slots of the store
\* are freed and reused within a pass and whatever launches fail.
THEOREM ProcessesAlwaysSound == Spec => []ProcessesSound
<1>1. Init => AgreeInv
  BY InitAgree
<1>2. AgreeInv /\ [Next]_vars => AgreeInv'
  BY NextAgree
<1>3. AgreeInv => ProcessesSound
  BY AgreeSound DEF AgreeInv
<1> QED  BY <1>1, <1>2, <1>3, PTL DEF Spec

-----------------------------------------------------------------------------
\* Two process stores that differ in slot i at most.
SameBut(s, t, i) ==
  \A k \in Slot(PROCESS_STORE_COUNT) \ {i} : t.used[k] = s.used[k] /\ t.data[k] = s.data[k]

\* Stores with the same used slots have the same used bytes.
LEMMA SameUsed ==
  ASSUME NEW s, NEW t, Sound(s, PROCESS_STORE_COUNT, TaskProcess),
         Sound(t, PROCESS_STORE_COUNT, TaskProcess), NEW k \in Slot(PROCESS_STORE_COUNT),
         k \in UsedSlots(s) <=> k \in UsedSlots(t)
  PROVE  t.used[k] = s.used[k]
<1>1. /\ s.used \in [Slot(PROCESS_STORE_COUNT) -> BOOLEAN] /\ s.capacity = PROCESS_STORE_COUNT
      /\ t.used \in [Slot(PROCESS_STORE_COUNT) -> BOOLEAN] /\ t.capacity = PROCESS_STORE_COUNT
  BY DEF Sound, StoreType
<1>2. s.used[k] \in BOOLEAN /\ t.used[k] \in BOOLEAN
  BY <1>1
<1>3. s.used[k] <=> t.used[k]
  BY <1>1 DEF UsedSlots
<1> QED  BY <1>2, <1>3

\* The slot that store_remove_at gives back is the one the next push takes.
LEMMA FreedIsNext ==
  ASSUME NEW s, NEW t, Sound(s, PROCESS_STORE_COUNT, TaskProcess),
         NEW i \in UsedSlots(s), IsRemove(s, t, i)
  PROVE  get_push_index(t) = i
<1>1. /\ s.open_cnt \in 0 .. PROCESS_STORE_COUNT
      /\ s.open \in [Slot(PROCESS_STORE_COUNT) -> Slot(PROCESS_STORE_COUNT)]
  BY DEF Sound, StoreType
<1>2. s.open_cnt < PROCESS_STORE_COUNT
  BY Sizes, RoomForRemoved
<1>3. s.open_cnt \in Slot(PROCESS_STORE_COUNT) /\ s.open_cnt \in Nat
  BY <1>1, <1>2, Sizes DEF Slot
<1>4. t.open_cnt = s.open_cnt + 1 /\ t.open = [s.open EXCEPT ![s.open_cnt] = i]
  BY DEF IsRemove
<1>5. t.open_cnt > 0 /\ t.open_cnt - 1 = s.open_cnt
  BY <1>3, <1>4
<1>6. t.open[s.open_cnt] = i
  BY <1>1, <1>3, <1>4
<1> QED  BY <1>5, <1>6 DEF get_push_index

\* Reaping slot iter, with or without a launch, changes no other slot.
LEMMA ReapSameBut ==
  ASSUME Inv, Reap \/ ReapAndLaunch \/ ReapLaunchFails
  PROVE  SameBut(process_store, process_store', iter)
<1> DEFINE rest == store_remove_at(process_store, iter)
           next == next_task(process_store.data[iter].task_name)
           task == task_store.data[next]
<1>1. LoopType /\ StoreInv /\ Completed
  BY InvHalves DEF Reap, ReapAndLaunch, ReapLaunchFails
<1>2. /\ iter \in UsedSlots(process_store)
      /\ Sound(process_store, PROCESS_STORE_COUNT, TaskProcess)
      /\ Sound(rest, PROCESS_STORE_COUNT, TaskProcess)
      /\ IsRemove(process_store, rest, iter)
  BY <1>1, Reaped DEF StoreInv
<1>3. CASE Reap \/ ReapLaunchFails
  <2>1. process_store' = rest
    BY <1>3 DEF Reap, ReapLaunchFails
  <2> HIDE DEF rest
  <2>2. rest.data = process_store.data /\ UsedSlots(rest) = UsedSlots(process_store) \ {iter}
    BY <1>2 DEF IsRemove
  <2>3. \A k \in Slot(PROCESS_STORE_COUNT) \ {iter} : rest.used[k] = process_store.used[k]
    BY <1>2, <2>2, SameUsed
  <2> QED  BY <2>1, <2>2, <2>3 DEF SameBut
<1>4. CASE ReapAndLaunch
  <2>1. /\ next # NoKey
        /\ HasOpen(rest)
        /\ process_store' = launched_store(rest, task)
    BY <1>4 DEF ReapAndLaunch, Launch
  <2>2. next \in UsedSlots(task_store)
    BY <2>1, NextTask
  <2>3. task \in Task /\ Len(child) \in Nat
    BY <1>1, <2>2 DEF StoreInv, Sound, StoreType, UsedSlots
  <2> HIDE DEF rest, next, task
  <2>4. get_push_index(rest) = iter
    BY <1>2, FreedIsNext
  <2>5. /\ Sound(process_store', PROCESS_STORE_COUNT, TaskProcess)
        /\ IsLaunch(rest, process_store', iter, task)
    BY <1>2, <2>1, <2>3, <2>4, LaunchEffect
  <2>6. /\ UsedSlots(process_store') = UsedSlots(process_store)
        /\ \A k \in Slot(PROCESS_STORE_COUNT) \ {iter} :
             process_store'.data[k] = process_store.data[k]
    <3>1. rest.data = process_store.data /\ UsedSlots(rest) = UsedSlots(process_store) \ {iter}
      BY <1>2 DEF IsRemove
    <3>2. process_store.data \in [Slot(PROCESS_STORE_COUNT) -> TaskProcess]
      BY <1>2 DEF Sound, StoreType
    <3> QED  BY <1>2, <2>5, <3>1, <3>2 DEF IsLaunch
  <2>7. \A k \in Slot(PROCESS_STORE_COUNT) \ {iter} :
          process_store'.used[k] = process_store.used[k]
    BY <1>2, <2>5, <2>6, SameUsed
  <2> QED  BY <2>6, <2>7 DEF SameBut
<1> QED  BY <1>3, <1>4

\* While the process loop runs, a step changes no slot of the process store but
\* the one the loop stands on.  The free list is last in, first out: the task
\* that server_check_task_queue launches gets the slot just freed, so the rest
\* of the pass never meets a process that the pass itself started.
THEOREM ReapsInPlace == Spec => ReapTouchesOwnSlot
<1> DEFINE own == pc = "processes" =>
                    \A k \in Slot(PROCESS_STORE_COUNT) \ {iter} :
                       /\ process_store'.used[k] = process_store.used[k]
                       /\ process_store'.data[k] = process_store.data[k]
<1>1. ASSUME Inv, [Next]_vars PROVE [own]_vars
  <2> SUFFICES ASSUME pc = "processes", process_store' # process_store
               PROVE  SameBut(process_store, process_store', iter)
    BY DEF SameBut
  <2>1. Next
    BY <1>1 DEF vars, server_vars
  <2>2. ~ Environment
    BY DEF Environment, Connect, Send, Leave, ChildExit, ChildStop, ChildContinue,
           server_vars
  <2>3. ~ (Select \/ SelectFails \/ ClientsDone \/ ClientStep)
    BY DEF Select, SelectFails, ClientsDone, ClientStep, SkipClient, ClientClosed,
           InvalidPacket, TaskNotFound, TaskQueued, TaskLaunchFailed, TaskStarted,
           WorkspaceSet, WorkspaceNotFound, Packet, AtClient
  <2>4. ~ (NoIncoming \/ AcceptOverLimit \/ AcceptSetupFails \/ AcceptClient)
    BY DEF NoIncoming, AcceptOverLimit, AcceptSetupFails, AcceptClient, Accept, ToClients
  <2>5. ~ (SkipProcess \/ ProcessesDone)
    BY DEF SkipProcess, ProcessesDone
  <2>6. Reap \/ ReapAndLaunch \/ ReapLaunchFails
    BY <2>1, <2>2, <2>3, <2>4, <2>5 DEF Next, ServerStep
  <2> QED  BY <1>1, <2>6, ReapSameBut
<1>2. Inv /\ [Next]_vars => [own]_vars
  BY <1>1
<1>3. Spec => []Inv /\ [][Next]_vars
  BY SpecInv, PTL DEF Spec
<1> QED  BY <1>2, <1>3, PTL DEF ReapTouchesOwnSlot

-----------------------------------------------------------------------------
\* Waking the tasks that wait.

\* A used task that the completion of `done` wakes is found by the scan.
LEMMA WaiterFound ==
  ASSUME Inv, NEW done, NEW k \in UsedSlots(task_store), Woken(task_store.data[k], done)
  PROVE  next_task(done) # NoKey
<1> DEFINE M == {j \in UsedSlots(task_store) : Woken(task_store.data[j], done)}
<1>1. M \in SUBSET Slot(TASK_STORE_COUNT) /\ M # {}
  BY DEF UsedSlots, Inv, TypeOK, StoreType
<1>2. next_task(done) = CHOOSE j \in M : \A i \in M : i <= j
  BY DEF next_task
<1> HIDE DEF M
<1>3. \E j \in M : \A i \in M : i <= j
  BY <1>1, LargestSlot, Sizes
<1>4. next_task(done) \in Slot(TASK_STORE_COUNT)
  BY <1>1, <1>2, <1>3
<1> QED  BY <1>4 DEF NoKey, Slot

\* Only the process loop turns a zombie into a reaped child, and then it is the
\* child in the slot of the loop.
LEMMA OnlyWaitReaps ==
  ASSUME AgreeInv, Next, NEW p \in DOMAIN child,
         child[p].st = "zombie", child'[p].st = "reaped"
  PROVE  /\ Reap \/ ReapAndLaunch \/ ReapLaunchFails
         /\ p = process_store.data[iter].pid
<1>1. Inv /\ LoopType /\ StoreInv /\ child' # child
  BY InvHalves DEF AgreeInv
<1>2. ~ \E c \in Client : Connect(c) \/ Send(c) \/ Leave(c)
  BY <1>1 DEF Connect, Send, Leave
<1>3. ASSUME NEW q \in DOMAIN child PROVE ~ (ChildExit(q) \/ ChildStop(q) \/ ChildContinue(q))
  <2>1. child[p] \in Child /\ child[q] \in Child
    BY <1>1, LenProperties, ElementOfSeq DEF StoreInv
  <2> QED  BY <2>1 DEF ChildExit, ChildStop, ChildContinue, Child
<1>4. ~ \/ Select \/ SelectFails \/ ClientsDone
        \/ NoIncoming \/ AcceptOverLimit \/ AcceptSetupFails \/ AcceptClient
  BY <1>1 DEF Select, SelectFails, ClientsDone, NoIncoming, AcceptOverLimit,
              AcceptSetupFails, AcceptClient, Accept, ToClients
<1>5. ASSUME NEW children \in Seq(Child), NEW new, Len(children) = Len(child),
             child' = Append(children, new)
      PROVE  child'[p] = children[p]
  <2>1. p \in 1 .. Len(children) /\ Len(children) \in Nat
    BY <1>1, <1>5, LenProperties DEF StoreInv
  <2> QED  BY <1>5, <2>1
<1>6. ASSUME NEW c \in Client,
             \/ SkipClient(c) \/ ClientClosed(c) \/ InvalidPacket(c)
             \/ TaskNotFound(c) \/ TaskQueued(c) \/ TaskLaunchFailed(c)
             \/ WorkspaceSet(c) \/ WorkspaceNotFound(c)
      PROVE  FALSE
  BY <1>1, <1>6 DEF SkipClient, ClientClosed, InvalidPacket, TaskNotFound, TaskQueued,
                    TaskLaunchFailed, WorkspaceSet, WorkspaceNotFound
<1>7. ASSUME NEW c \in Client, TaskStarted(c) PROVE FALSE
  <2>1. PICK new : child' = Append(child, new)
    BY <1>7 DEF TaskStarted, Launch
  <2> QED  BY <1>1, <1>5, <2>1, SMTT(30) DEF StoreInv
<1>8. ~ (SkipProcess \/ ProcessesDone)
  BY <1>1 DEF SkipProcess, ProcessesDone
<1>9. Reap \/ ReapAndLaunch \/ ReapLaunchFails
  BY <1>2, <1>3, <1>4, <1>6, <1>7, <1>8 DEF Next, ServerStep, ClientStep, Environment
<1>10. p = process_store.data[iter].pid
  <2> DEFINE pid == process_store.data[iter].pid
  <2>1. Completed /\ (child' = waited(pid) \/ \E new : child' = Append(waited(pid), new))
    BY <1>9 DEF Reap, ReapAndLaunch, ReapLaunchFails, Launch
  <2>2. waited(pid) \in Seq(Child) /\ Len(waited(pid)) = Len(child)
    BY <1>1, <2>1, Reaped
  <2>3. child'[p] = waited(pid)[p]
    BY <1>5, <2>1, <2>2
  <2> QED  BY <2>3 DEF waited
<1> QED  BY <1>9, <1>10

\* When pipe and fork work, the child that is reaped hands its slot to a task that
\* waits for its name or for nothing: the scan of server_check_task_queue finds
\* one, and after store_remove_at there is room for it.
THEOREM CompletionAlwaysStartsWaiter == Spec => CompletionStartsWaiter
<1> DEFINE started ==
      \A p \in DOMAIN child :
        /\ ~ SYS_FAIL
        /\ child[p].st = "zombie" /\ child'[p].st = "reaped"
        /\ \E k \in UsedSlots(task_store) :
              task_store.data[k].wait \in {NULL, child[p].name}
        => Len(child') = Len(child) + 1
<1>1. ASSUME AgreeInv, [Next]_vars PROVE [started]_vars
  <2> SUFFICES ASSUME NEW p \in DOMAIN child, NEW k \in UsedSlots(task_store), ~ SYS_FAIL,
                      child[p].st = "zombie", child'[p].st = "reaped",
                      task_store.data[k].wait \in {NULL, child[p].name}
               PROVE  Len(child') = Len(child) + 1
    OBVIOUS
  <2> DEFINE rest == store_remove_at(process_store, iter)
             process == process_store.data[iter]
             children == waited(process.pid)
  <2>1. Inv /\ LoopType /\ StoreInv /\ Agree(process_store, child)
    BY <1>1, InvHalves DEF AgreeInv
  <2>2. Next
    BY <1>1 DEF vars
  <2>3. (Reap \/ ReapAndLaunch \/ ReapLaunchFails) /\ p = process.pid
    BY <1>1, <2>2, OnlyWaitReaps
  <2>4. Completed
    BY <2>3 DEF Reap, ReapAndLaunch, ReapLaunchFails
  <2>5. /\ iter \in UsedSlots(process_store)
        /\ IsRemove(process_store, rest, iter)
        /\ children \in Seq(Child) /\ Len(children) = Len(child)
    BY <2>1, <2>4, Reaped
  <2>6. process.task_name = child[p].name /\ child[p].name \in Name
    <3>1. process.task_name = child[p].name
      BY <2>1, <2>3, <2>5 DEF Agree
    <3>2. child[p] \in Child
      BY <2>1, LenProperties, ElementOfSeq DEF StoreInv
    <3> QED  BY <3>1, <3>2 DEF Child
  <2>7. Woken(task_store.data[k], process.task_name)
    BY <2>6, WorkspaceAssumption DEF Woken
  <2>8. ~ Reap
    BY <2>1, <2>7, WaiterFound DEF Reap
  <2>9. ~ ReapLaunchFails
    <3>1. process_store.open_cnt \in Nat
      BY <2>1 DEF StoreInv, Sound, StoreType
    <3>2. HasOpen(rest)
      BY <2>5, <3>1 DEF HasOpen, IsRemove
    <3> QED  BY <3>2 DEF ReapLaunchFails, LaunchFails
  <2>10. PICK new : child' = Append(children, new)
    BY <2>3, <2>8, <2>9 DEF ReapAndLaunch, Launch
  <2> QED  BY <2>5, <2>10
<1>2. AgreeInv /\ [Next]_vars => [started]_vars
  BY <1>1
<1>3. Spec => []AgreeInv /\ [][Next]_vars
  BY InitAgree, NextAgree, PTL DEF Spec
<1> QED  BY <1>2, <1>3, PTL DEF CompletionStartsWaiter

-----------------------------------------------------------------------------
(***************************************************************************)
(* What becomes of a run request: it is in one place, it is what the       *)
(* client asked for, and the agent keeps the promise of Jobs.              *)
(*                                                                         *)
(* Every step is first shown to have one of six effects on the tasks, the  *)
(* children and the answers; the invariant and the refinement then go by   *)
(* effect and not by action.                                               *)
(***************************************************************************)

\* A task and the child it becomes, or a child before and after a change of state.
SameDeed(x, y) ==
  x.name = y.name /\ x.cmd = y.cmd /\ x.wait = y.wait /\ x.owner = y.owner

Live(x) == x.st \in {"running", "stopped"}

\* No task comes or goes, no child comes or goes, no child ends.
SameTasks(store) ==
  /\ UsedSlots(store) = UsedSlots(task_store)
  /\ \A k \in UsedSlots(task_store) : store.data[k] = task_store.data[k]

SameJobs(children) ==
  /\ DOMAIN children = DOMAIN child
  /\ \A p \in DOMAIN child : SameDeed(children[p], child[p])

SameLife(children) == \A p \in DOMAIN child : Live(children[p]) <=> Live(child[p])

\* One child more, which runs the task.
NewChild(children, after, task) ==
  \E n :
    /\ n \notin DOMAIN children
    /\ DOMAIN after = DOMAIN children \cup {n}
    /\ \A p \in DOMAIN children : after[p] = children[p]
    /\ SameDeed(after[n], task) /\ Live(after[n])

\* What the active workspace says of the name in the message of c.
Requested(c, task) ==
  \E n \in Name :
    /\ msg[c] = [type |-> "run", arg |-> n]
    /\ workspace \in Path
    /\ Section[workspace][n].cmd
    /\ task.name = n /\ task.cmd = workspace /\ task.owner = c
    /\ task.wait = Section[workspace][n].wait

\* The effects: nothing; a child ends; a request is refused, is kept or is
\* started; a waiting task is started.
Idle ==
  /\ SameTasks(task_store') /\ SameJobs(child') /\ SameLife(child')
  /\ UNCHANGED <<answer, asked>>

Ends(p) ==
  /\ SameTasks(task_store') /\ SameJobs(child')
  /\ Live(child[p]) /\ ~ Live(child'[p])
  /\ \A q \in DOMAIN child \ {p} : child'[q] = child[q]
  /\ UNCHANGED <<answer, asked>>

Answers(c, v) ==
  /\ sock[c] = "accepted" /\ sock'[c] = "closed"
  /\ msg[c] \in Command
  /\ answer' = [answer EXCEPT ![c] = v]
  /\ asked' = [asked EXCEPT ![c] = workspace]

Refuses(c) ==
  /\ \E v \in {"not_found", "ws_set", "ws_not_found", "invalid"} : Answers(c, v)
  /\ SameTasks(task_store') /\ child' = child

Keeps(c) ==
  /\ \E v \in {"queued", "failed"} : Answers(c, v)
  /\ child' = child
  /\ \E key \in Slot(TASK_STORE_COUNT) \ UsedSlots(task_store) :
       /\ UsedSlots(task_store') = UsedSlots(task_store) \cup {key}
       /\ \A k \in UsedSlots(task_store) : task_store'.data[k] = task_store.data[k]
       /\ Requested(c, task_store'.data[key])

Starts(c) ==
  /\ Answers(c, "started")
  /\ SameTasks(task_store')
  /\ UsedSlots(task_store) # Slot(TASK_STORE_COUNT)
  /\ \E task : Requested(c, task) /\ NewChild(child, child', task)

Wakes(k) ==
  /\ UsedSlots(task_store') = UsedSlots(task_store) \ {k}
  /\ \A j \in UsedSlots(task_store') : task_store'.data[j] = task_store.data[j]
  /\ \E children :
       /\ SameJobs(children) /\ SameLife(children)
       /\ NewChild(children, child', task_store.data[k])
  /\ UNCHANGED <<answer, asked>>

Effect ==
  \/ Idle
  \/ \E p \in DOMAIN child : Ends(p)
  \/ \E c \in Client : Refuses(c) \/ Keeps(c) \/ Starts(c)
  \/ \E k \in UsedSlots(task_store) : Wakes(k)

-----------------------------------------------------------------------------
\* A step that leaves the tasks, the children and the answers alone is idle.
LEMMA IdleFrame ==
  ASSUME UNCHANGED <<task_store, child, answer, asked>>
  PROVE  Idle
BY DEF Idle, SameTasks, SameJobs, SameLife, SameDeed

\* Stopping and continuing leave a child alive, exiting ends it.
LEMMA ChildEffect ==
  ASSUME StoreInv, NEW p \in DOMAIN child, ChildExit(p) \/ ChildStop(p) \/ ChildContinue(p)
  PROVE  Idle \/ Ends(p)
<1>1. p \in 1 .. Len(child) /\ child[p] \in Child
  BY LenProperties, ElementOfSeq DEF StoreInv
<1>2. UNCHANGED <<task_store, answer, asked>>
  BY DEF ChildExit, ChildStop, ChildContinue, server_vars
<1>3. SameTasks(task_store')
  BY <1>2 DEF SameTasks
<1>4. /\ DOMAIN child' = DOMAIN child
      /\ \A q \in DOMAIN child \ {p} : child'[q] = child[q]
      /\ SameDeed(child'[p], child[p])
      /\ Live(child[p])
  BY <1>1 DEF ChildExit, ChildStop, ChildContinue, Alive, Child, SameDeed, Live
<1>5. SameJobs(child')
  BY <1>4 DEF SameJobs, SameDeed
<1>6. CASE Live(child'[p])
  <2>1. SameLife(child')
    BY <1>4, <1>6 DEF SameLife
  <2> QED  BY <1>2, <1>3, <1>5, <2>1 DEF Idle
<1>7. CASE ~ Live(child'[p])
  BY <1>2, <1>3, <1>4, <1>5, <1>7 DEF Ends
<1> QED  BY <1>6, <1>7

\* server_respond answers the client at the index, whose socket is open.
LEMMA RespondAnswers ==
  ASSUME LoopType, SocketInv, NEW c \in Client, NEW v, NEW type, Packet(c, type),
         server_respond(c, v)
  PROVE  Answers(c, v)
<1>1. iter \in 0 .. Len(client_stack) - 1 /\ c = client_stack[iter + 1]
  BY DEF Packet, AtClient, LoopType, stack_get
<1>2. iter + 1 \in 1 .. Len(client_stack)
  BY <1>1, LenProperties DEF LoopType
<1>3. sock[c] = "accepted"
  BY <1>1, <1>2 DEF SocketInv, Items
<1>4. msg[c] \in Command /\ sock'[c] = "closed"
  BY DEF Packet, LoopType, server_respond
<1> QED  BY <1>3, <1>4 DEF Answers, server_respond

\* A message that asks to run something is that record.
LEMMA RunMessage ==
  ASSUME LoopType, NEW c \in Client, Packet(c, "run")
  PROVE  msg[c] = [type |-> "run", arg |-> msg[c].arg]
<1>1. msg[c] \in Command /\ msg[c].type = "run"
  BY DEF Packet, LoopType
<1> QED  BY <1>1, WorkspaceAssumption

\* What get_task fills in is what was asked.
LEMMA GotRequested ==
  ASSUME LoopType, NEW c \in Client, Packet(c, "run"), NEW s, NEW key,
         GotTask(s, key, msg[c].arg, c)
  PROVE  Requested(c, s.data[key])
<1>1. msg[c].arg \in Name /\ msg[c] = [type |-> "run", arg |-> msg[c].arg]
  BY RunMessage DEF GotTask
<1>2. /\ s.data[key].name = msg[c].arg /\ s.data[key].cmd = workspace
      /\ s.data[key].owner = c /\ s.data[key].wait = Section[workspace][msg[c].arg].wait
      /\ workspace \in Path /\ Section[workspace][msg[c].arg].cmd
  BY DEF GotTask
<1> QED  BY <1>1, <1>2 DEF Requested

\* Appending a launched child.
LEMMA AppendChild ==
  ASSUME NEW children \in Seq(Child), NEW task, launched_child(task) \in Child
  PROVE  NewChild(children, Append(children, launched_child(task)), task)
<1> DEFINE n == Len(children) + 1
           new == launched_child(task)
           after == Append(children, new)
<1>1. /\ after \in Seq(Child) /\ Len(after) = n
      /\ \A q \in 1 .. Len(children) : after[q] = children[q]
      /\ after[n] = new
  BY AppendProperties
<1>2. Len(children) \in Nat /\ DOMAIN children = 1 .. Len(children) /\ DOMAIN after = 1 .. n
  BY <1>1, LenProperties
<1>3. SameDeed(new, task) /\ Live(new)
  BY DEF launched_child, SameDeed, Live
<1> HIDE DEF new, after
<1>4. n \notin DOMAIN children /\ DOMAIN after = DOMAIN children \cup {n}
  BY <1>2
<1>5. NewChild(children, after, task)
  BY <1>1, <1>2, <1>3, <1>4 DEF NewChild
<1> QED  BY <1>5 DEF after, new

\* server_eval_packet refuses, keeps or starts what it is asked.
LEMMA PacketEffect ==
  ASSUME Inv, SocketInv, NEW c \in Client,
         \/ InvalidPacket(c)
         \/ TaskNotFound(c) \/ TaskQueued(c) \/ TaskLaunchFailed(c) \/ TaskStarted(c)
         \/ WorkspaceSet(c) \/ WorkspaceNotFound(c)
  PROVE  Refuses(c) \/ Keeps(c) \/ Starts(c)
<1> DEFINE n == msg[c].arg
           s == get_task(n, c).store
           key == get_task(n, c).key
<1>1. LoopType /\ StoreInv
  BY InvHalves
<1>2. CASE InvalidPacket(c) \/ WorkspaceSet(c) \/ WorkspaceNotFound(c)
  <2>1. \E v \in {"not_found", "ws_set", "ws_not_found", "invalid"} : Answers(c, v)
    BY <1>1, <1>2, RespondAnswers DEF InvalidPacket, WorkspaceSet, WorkspaceNotFound
  <2>2. task_store' = task_store /\ child' = child
    BY <1>2 DEF InvalidPacket, WorkspaceSet, WorkspaceNotFound
  <2> QED  BY <2>1, <2>2 DEF Refuses, SameTasks
<1>3. ASSUME Packet(c, "run")
      PROVE  n \in Name \cup {NULL}
  BY <1>1, <1>3, ArgType
<1>4. CASE TaskNotFound(c)
  <2>1. Packet(c, "run") /\ server_respond(c, "not_found")
    BY <1>4 DEF TaskNotFound
  <2>2. Answers(c, "not_found")
    BY <1>1, <2>1, RespondAnswers
  <2>3. GotNothing(task_store') /\ child' = child
    BY <1>3, <1>4, <2>1, GetTask DEF TaskNotFound
  <2> QED  BY <2>2, <2>3 DEF Refuses, SameTasks, GotNothing
<1>5. CASE TaskQueued(c) \/ TaskLaunchFailed(c)
  <2>1. PICK v \in {"queued", "failed"} : Packet(c, "run") /\ server_respond(c, v)
    BY <1>5 DEF TaskQueued, TaskLaunchFailed
  <2>2. Answers(c, v)
    BY <1>1, <2>1, RespondAnswers
  <2>3. key # NoKey /\ task_store' = s /\ child' = child
    BY <1>5 DEF TaskQueued, TaskLaunchFailed
  <2>4. GotTask(task_store', key, n, c)
    BY <1>3, <2>1, <2>3, GetTask
  <2>5. Requested(c, task_store'.data[key])
    BY <1>1, <2>1, <2>4, GotRequested
  <2> QED  BY <2>2, <2>3, <2>4, <2>5 DEF Keeps, GotTask
<1>6. CASE TaskStarted(c)
  <2>1. /\ Packet(c, "run") /\ server_respond(c, "started") /\ key # NoKey
        /\ Launch(process_store, child, s.data[key])
        /\ task_store' = store_remove_at(s, key)
    BY <1>6 DEF TaskStarted
  <2>2. Answers(c, "started")
    BY <1>1, <2>1, RespondAnswers
  <2>3. GotTask(s, key, n, c)
    BY <1>3, <2>1, GetTask
  <2>4. Requested(c, s.data[key])
    BY <1>1, <2>1, <2>3, GotRequested
  <2> HIDE DEF s, key, n
  <2>5. /\ Sound(s, TASK_STORE_COUNT, Task) /\ key \in UsedSlots(s)
        /\ key \in Slot(TASK_STORE_COUNT) \ UsedSlots(task_store)
        /\ UsedSlots(s) = UsedSlots(task_store) \cup {key}
        /\ \A k \in UsedSlots(task_store) : s.data[k] = task_store.data[k]
    BY <2>3 DEF GotTask
  <2>6. IsRemove(s, task_store', key)
    BY <2>1, <2>5, RemoveEffect, Sizes
  <2>7. SameTasks(task_store')
    BY <2>5, <2>6 DEF SameTasks, IsRemove
  <2>8. NewChild(child, child', s.data[key])
    <3>1. launched_child(s.data[key]) \in Child
      BY <1>1, <2>3, GotTaskFilled
    <3> QED  BY <1>1, <2>1, <3>1, AppendChild DEF Launch, StoreInv
  <2> QED  BY <2>2, <2>4, <2>5, <2>7, <2>8 DEF Starts
<1> QED  BY <1>2, <1>4, <1>5, <1>6

\* waitpid takes nothing from a child but its zombie.
LEMMA WaitedSame ==
  ASSUME StoreInv, NEW p \in DOMAIN child
  PROVE  SameJobs(waited(p)) /\ SameLife(waited(p))
<1>1. p \in 1 .. Len(child) /\ child[p] \in Child
  BY LenProperties, ElementOfSeq DEF StoreInv
<1>2. /\ DOMAIN waited(p) = DOMAIN child
      /\ \A q \in DOMAIN child \ {p} : waited(p)[q] = child[q]
      /\ SameDeed(waited(p)[p], child[p])
      /\ Live(waited(p)[p]) <=> Live(child[p])
  BY <1>1 DEF waited, SameDeed, Live, Child
<1> QED  BY <1>2 DEF SameJobs, SameLife, SameDeed

\* An iteration of the process loop changes nothing or starts one waiting task.
LEMMA ProcessEffect ==
  ASSUME Inv, SkipProcess \/ Reap \/ ReapAndLaunch \/ ReapLaunchFails \/ ProcessesDone
  PROVE  Idle \/ \E k \in UsedSlots(task_store) : Wakes(k)
<1> DEFINE pid == process_store.data[iter].pid
           children == waited(pid)
           next == next_task(process_store.data[iter].task_name)
<1>1. LoopType /\ StoreInv
  BY InvHalves
<1>2. CASE SkipProcess \/ ProcessesDone
  BY <1>2, IdleFrame DEF SkipProcess, ProcessesDone, AtProcess
<1>3. ASSUME Completed
      PROVE  /\ SameJobs(children) /\ SameLife(children)
             /\ children \in Seq(Child)
             /\ UNCHANGED <<answer, asked>>
  <2>1. iter \in UsedSlots(process_store) /\ children \in Seq(Child)
    BY <1>1, <1>3, Reaped
  <2>2. pid \in DOMAIN child
    BY <1>1, <2>1 DEF StoreInv, PidsKnown
  <2> QED  BY <1>1, <1>3, <2>1, <2>2, WaitedSame DEF Completed, AtProcess
<1>4. CASE Reap \/ ReapLaunchFails
  <2>1. Completed /\ child' = children /\ task_store' = task_store
    BY <1>4 DEF Reap, ReapLaunchFails
  <2> QED  BY <1>3, <2>1 DEF Idle, SameTasks
<1>5. CASE ReapAndLaunch
  <2>1. /\ Completed /\ next # NoKey
        /\ child' = Append(children, launched_child(task_store.data[next]))
        /\ task_store' = store_remove_at(task_store, next)
    BY <1>5 DEF ReapAndLaunch, Launch
  <2>2. next \in UsedSlots(task_store)
    BY <2>1, NextTask
  <2> HIDE DEF children, next
  <2>3. IsRemove(task_store, task_store', next)
    BY <1>1, <2>1, <2>2, RemoveEffect, Sizes DEF StoreInv
  <2>4. launched_child(task_store.data[next]) \in Child
    <3>1. task_store.data[next] \in Task
      BY <1>1, <2>2 DEF StoreInv, Sound, StoreType, UsedSlots
    <3> QED  BY <1>1, <2>2, <3>1 DEF launched_child, Child, Task, StoreInv, TasksFilled
  <2>5. NewChild(children, child', task_store.data[next])
    BY <1>3, <2>1, <2>4, AppendChild
  <2>6. Wakes(next)
    BY <1>3, <2>1, <2>3, <2>5 DEF Wakes, IsRemove
  <2> QED  BY <2>2, <2>6
<1> QED  BY <1>2, <1>4, <1>5

\* Every step has one of the six effects.
LEMMA StepEffect ==
  ASSUME Inv, SocketInv, [Next]_vars
  PROVE  Effect
<1>1. LoopType /\ StoreInv
  BY InvHalves
<1>2. ASSUME NEW c \in Client, Connect(c) \/ Send(c) \/ Leave(c) PROVE Effect
  BY <1>2, IdleFrame DEF Connect, Send, Leave, server_vars, Effect
<1>3. ASSUME NEW p \in DOMAIN child, ChildExit(p) \/ ChildStop(p) \/ ChildContinue(p)
      PROVE  Effect
  BY <1>1, <1>3, ChildEffect DEF Effect
<1>4. CASE \/ Select \/ SelectFails \/ ClientsDone
           \/ NoIncoming \/ AcceptOverLimit \/ AcceptSetupFails \/ AcceptClient
  <2>1. UNCHANGED <<task_store, child, answer, asked>>
    BY <1>4 DEF Select, SelectFails, ClientsDone, NoIncoming, AcceptOverLimit,
                AcceptSetupFails, AcceptClient, Accept, ToClients
  <2> QED  BY <2>1, IdleFrame DEF Effect
<1>5. ASSUME NEW c \in Client, SkipClient(c) \/ ClientClosed(c) PROVE Effect
  BY <1>5, IdleFrame DEF SkipClient, ClientClosed, Effect
<1>6. ASSUME NEW c \in Client,
             \/ InvalidPacket(c)
             \/ TaskNotFound(c) \/ TaskQueued(c) \/ TaskLaunchFailed(c) \/ TaskStarted(c)
             \/ WorkspaceSet(c) \/ WorkspaceNotFound(c)
      PROVE  Effect
  BY <1>6, PacketEffect DEF Effect
<1>7. CASE SkipProcess \/ Reap \/ ReapAndLaunch \/ ReapLaunchFails \/ ProcessesDone
  BY <1>7, ProcessEffect DEF Effect
<1>8. CASE UNCHANGED vars
  BY <1>8, IdleFrame DEF vars, server_vars, Effect
<1> QED  BY <1>2, <1>3, <1>4, <1>5, <1>6, <1>7, <1>8
         DEF Next, ServerStep, ClientStep, Environment

-----------------------------------------------------------------------------
\* The invariant.  An answer closes the socket, so a client whose socket is still
\* open has no answer, and then no task and no child either: that is why a
\* request cannot get into the stores a second time.
AnswersClose ==
  \A c \in Client : answer[c] # NULL => sock[c] = "closed" /\ msg[c] # NULL

RequestInv == AnswersClose /\ RequestsAccounted /\ RunsWhatWasAsked

\* A closed socket stays closed and a message that was sent stays as it is.
LEMMA ClosedStays ==
  ASSUME LoopType, SocketInv, [Next]_vars, NEW c \in Client
  PROVE  /\ sock[c] = "closed" => sock'[c] = "closed"
         /\ msg[c] # NULL => msg'[c] = msg[c]
<1>1. CASE UNCHANGED <<sock, msg>>
  BY <1>1
<1>2. ASSUME NEW d \in Client, Connect(d) \/ Send(d) \/ Leave(d)
      PROVE  /\ sock[c] = "closed" => sock'[c] = "closed"
             /\ msg[c] # NULL => msg'[c] = msg[c]
  BY <1>2 DEF Connect, Send, Leave, LoopType
<1>3. CASE \/ \E p \in DOMAIN child : ChildExit(p) \/ ChildStop(p) \/ ChildContinue(p)
           \/ Select \/ SelectFails \/ ClientsDone \/ NoIncoming \/ ProcessesDone
           \/ UNCHANGED vars
  BY <1>1, <1>3 DEF ChildExit, ChildStop, ChildContinue, Select, SelectFails, ClientsDone,
                    NoIncoming, ToClients, ProcessesDone, vars, client_vars
<1>4. CASE AcceptOverLimit \/ AcceptSetupFails \/ AcceptClient
  <2>1. PICK st \in {"refused", "leaked", "accepted"} : Accept(st)
    BY <1>4 DEF AcceptOverLimit, AcceptSetupFails, AcceptClient
  <2>2. /\ sock[Head(backlog)] = "backlog"
        /\ sock'[c] = IF c = Head(backlog) THEN st ELSE sock[c]
    BY <2>1, AcceptSocket
  <2>3. msg' = msg
    BY <2>1 DEF Accept, ToClients
  <2> QED  BY <2>2, <2>3
<1>5. ASSUME NEW d \in Client,
             \/ SkipClient(d) \/ ClientClosed(d) \/ InvalidPacket(d)
             \/ TaskNotFound(d) \/ TaskQueued(d) \/ TaskLaunchFailed(d) \/ TaskStarted(d)
             \/ WorkspaceSet(d) \/ WorkspaceNotFound(d)
      PROVE  /\ sock[c] = "closed" => sock'[c] = "closed"
             /\ msg[c] # NULL => msg'[c] = msg[c]
  <2>1. msg' = msg
    BY <1>5 DEF SkipClient, ClientClosed, InvalidPacket, TaskNotFound, TaskQueued,
                TaskLaunchFailed, TaskStarted, WorkspaceSet, WorkspaceNotFound, Packet, AtClient
  <2>2. sock' = sock \/ sock' = [sock EXCEPT ![d] = "closed"]
    BY <1>5 DEF SkipClient, ClientClosed, InvalidPacket, TaskNotFound, TaskQueued,
                TaskLaunchFailed, TaskStarted, WorkspaceSet, WorkspaceNotFound, server_respond
  <2> QED  BY <2>1, <2>2 DEF LoopType
<1>6. CASE SkipProcess \/ Reap \/ ReapAndLaunch \/ ReapLaunchFails
  <2>1. AtProcess
    BY <1>6 DEF SkipProcess, Reap, ReapAndLaunch, ReapLaunchFails, Completed
  <2> QED  BY <1>1, <2>1 DEF AtProcess, client_vars
<1> QED  BY <1>2, <1>3, <1>4, <1>5, <1>6 DEF Next, ServerStep, ClientStep, Environment

\* The owners of the tasks and of the children have their answer.
LEMMA OwnersAnswered ==
  ASSUME StoreInv, RequestInv
  PROVE  /\ \A k \in UsedSlots(task_store) :
               /\ task_store.data[k].owner \in Client
               /\ answer[task_store.data[k].owner] \in {"started", "queued", "failed"}
               /\ answer[task_store.data[k].owner] # NULL
         /\ \A p \in DOMAIN child :
               /\ child[p].owner \in Client
               /\ answer[child[p].owner] \in {"started", "queued", "failed"}
               /\ answer[child[p].owner] # NULL
<1>1. \A p \in DOMAIN child : child[p] \in Child
  BY LenProperties, ElementOfSeq DEF StoreInv
<1>2. /\ \A k \in UsedSlots(task_store) : task_store.data[k].owner \in Client
      /\ \A p \in DOMAIN child : child[p].owner \in Client
  BY <1>1 DEF StoreInv, TasksFilled, Child
<1>3. \A v \in {"started", "queued", "failed"} : v # NULL
  BY AnswerAssumption DEF Verdict
<1> QED  BY <1>2, <1>3 DEF RequestInv, RequestsAccounted

\* A client that is being answered has no task and no child.
LEMMA AnsweredIsNew ==
  ASSUME StoreInv, RequestInv, NEW c \in Client, NEW v, Answers(c, v)
  PROVE  /\ answer[c] = NULL
         /\ \A k \in UsedSlots(task_store) : task_store.data[k].owner # c
         /\ \A p \in DOMAIN child : child[p].owner # c
<1>1. answer[c] = NULL
  BY DEF RequestInv, AnswersClose, Answers
<1> QED  BY <1>1, OwnersAnswered

\* Answers close their socket.
LEMMA AnswersCloseStep ==
  ASSUME LoopType, SocketInv, AnswersClose, [Next]_vars, Effect
  PROVE  AnswersClose'
<1> SUFFICES ASSUME NEW d \in Client, answer'[d] # NULL
             PROVE  sock'[d] = "closed" /\ msg'[d] # NULL
  BY DEF AnswersClose
<1>1. CASE answer'[d] = answer[d]
  BY <1>1, ClosedStays DEF AnswersClose
<1>2. ASSUME NEW c \in Client, NEW v, Answers(c, v)
      PROVE  sock'[d] = "closed" /\ msg'[d] # NULL
  <2>1. CASE d = c
    <3>1. msg[c] # NULL /\ sock'[c] = "closed"
      BY <1>2, NameAssumption DEF Answers
    <3> QED  BY <2>1, <3>1, ClosedStays
  <2>2. CASE d # c
    BY <1>1, <1>2, <2>2 DEF Answers, LoopType
  <2> QED  BY <2>1, <2>2
<1>3. ASSUME UNCHANGED answer PROVE sock'[d] = "closed" /\ msg'[d] # NULL
  BY <1>1, <1>3
<1> QED  BY <1>2, <1>3 DEF Effect, Idle, Ends, Refuses, Keeps, Starts, Wakes

-----------------------------------------------------------------------------
\* AsRequested, said of the messages m and of the workspaces a.
Fits(m, a, x) ==
  /\ m[x.owner] = [type |-> "run", arg |-> x.name]
  /\ x.cmd = a[x.owner]
  /\ Section[x.cmd][x.name].cmd
  /\ x.wait = Section[x.cmd][x.name].wait

\* No step changes what an answered request was about.
LEMMA FitsStays ==
  ASSUME LoopType, SocketInv, AnswersClose, [Next]_vars, Effect,
         NEW x, x.owner \in Client, answer[x.owner] # NULL, Fits(msg, asked, x)
  PROVE  Fits(msg', asked', x)
<1>1. msg[x.owner] # NULL /\ sock[x.owner] = "closed"
  BY DEF AnswersClose
<1>2. msg'[x.owner] = msg[x.owner]
  BY <1>1, ClosedStays
<1>3. asked'[x.owner] = asked[x.owner]
  <2>1. CASE UNCHANGED asked
    BY <2>1
  <2>2. ASSUME NEW c \in Client, NEW v, Answers(c, v) PROVE asked'[x.owner] = asked[x.owner]
    BY <1>1, <2>2 DEF Answers, LoopType
  <2> QED  BY <2>1, <2>2 DEF Effect, Idle, Ends, Refuses, Keeps, Starts, Wakes
<1> QED  BY <1>2, <1>3 DEF Fits

\* A child is what its task was.
LEMMA FitsSame ==
  ASSUME NEW m, NEW a, NEW x, NEW y, SameDeed(y, x), Fits(m, a, x)
  PROVE  Fits(m, a, y)
BY DEF SameDeed, Fits

\* What is kept or started fits its request.
LEMMA FitsRequested ==
  ASSUME LoopType, SocketInv, [Next]_vars, NEW c \in Client, NEW v, Answers(c, v),
         NEW x, Requested(c, x)
  PROVE  Fits(msg', asked', x)
<1>1. asked'[c] = workspace
  BY DEF Answers, LoopType
<1>2. msg'[c] = msg[c]
  BY ClosedStays, NameAssumption DEF Answers
<1> QED  BY <1>1, <1>2 DEF Requested, Fits

\* Every step keeps what waits and what runs as it was asked.
LEMMA AskedStep ==
  ASSUME Inv, SocketInv, RequestInv, [Next]_vars, Effect
  PROVE  RunsWhatWasAsked'
<1>1. LoopType /\ StoreInv /\ AnswersClose
  BY InvHalves DEF RequestInv
<1>2. \A k \in UsedSlots(task_store) : Fits(msg', asked', task_store.data[k])
  <2>1. \A k \in UsedSlots(task_store) : Fits(msg, asked, task_store.data[k])
    BY DEF RequestInv, RunsWhatWasAsked, AsRequested, Fits
  <2> QED  BY <1>1, <2>1, OwnersAnswered, FitsStays
<1>3. \A p \in DOMAIN child : Fits(msg', asked', child[p])
  <2>1. \A p \in DOMAIN child : Fits(msg, asked, child[p])
    BY DEF RequestInv, RunsWhatWasAsked, AsRequested, Fits
  <2> QED  BY <1>1, <2>1, OwnersAnswered, FitsStays
<1> SUFFICES /\ \A k \in UsedSlots(task_store') : Fits(msg', asked', task_store'.data[k])
             /\ \A p \in DOMAIN child' : Fits(msg', asked', child'[p])
  BY DEF RunsWhatWasAsked, AsRequested, Fits
<1>4. ASSUME SameTasks(task_store')
      PROVE  \A k \in UsedSlots(task_store') : Fits(msg', asked', task_store'.data[k])
  BY <1>2, <1>4 DEF SameTasks
<1>5. ASSUME NEW children, SameJobs(children)
      PROVE  \A p \in DOMAIN children : Fits(msg', asked', children[p])
  BY <1>3, <1>5, FitsSame DEF SameJobs
<1>6. ASSUME NEW children, NEW task, NewChild(children, child', task),
             \A p \in DOMAIN children : Fits(msg', asked', children[p]),
             Fits(msg', asked', task)
      PROVE  \A p \in DOMAIN child' : Fits(msg', asked', child'[p])
  BY <1>6, FitsSame DEF NewChild
<1>7. CASE Idle \/ \E p \in DOMAIN child : Ends(p)
  BY <1>4, <1>5, <1>7 DEF Idle, Ends
<1>8. ASSUME NEW c \in Client, Refuses(c)
      PROVE  /\ \A k \in UsedSlots(task_store') : Fits(msg', asked', task_store'.data[k])
             /\ \A p \in DOMAIN child' : Fits(msg', asked', child'[p])
  BY <1>3, <1>4, <1>8 DEF Refuses
<1>9. ASSUME NEW c \in Client, Keeps(c)
      PROVE  /\ \A k \in UsedSlots(task_store') : Fits(msg', asked', task_store'.data[k])
             /\ \A p \in DOMAIN child' : Fits(msg', asked', child'[p])
  <2>1. PICK v : Answers(c, v)
    BY <1>9 DEF Keeps
  <2>2. PICK key :
          /\ UsedSlots(task_store') = UsedSlots(task_store) \cup {key}
          /\ \A k \in UsedSlots(task_store) : task_store'.data[k] = task_store.data[k]
          /\ Requested(c, task_store'.data[key])
    BY <1>9 DEF Keeps
  <2>3. Fits(msg', asked', task_store'.data[key])
    BY <1>1, <2>1, <2>2, FitsRequested
  <2>4. child' = child
    BY <1>9 DEF Keeps
  <2> QED  BY <1>2, <1>3, <2>2, <2>3, <2>4
<1>10. ASSUME NEW c \in Client, Starts(c)
       PROVE  /\ \A k \in UsedSlots(task_store') : Fits(msg', asked', task_store'.data[k])
              /\ \A p \in DOMAIN child' : Fits(msg', asked', child'[p])
  <2>1. PICK task : Requested(c, task) /\ NewChild(child, child', task)
    BY <1>10 DEF Starts
  <2>2. Answers(c, "started") /\ SameTasks(task_store')
    BY <1>10 DEF Starts
  <2>3. Fits(msg', asked', task)
    BY <1>1, <2>1, <2>2, FitsRequested
  <2> QED  BY <1>3, <1>4, <1>6, <2>1, <2>2, <2>3
<1>11. ASSUME NEW k \in UsedSlots(task_store), Wakes(k)
       PROVE  /\ \A j \in UsedSlots(task_store') : Fits(msg', asked', task_store'.data[j])
              /\ \A p \in DOMAIN child' : Fits(msg', asked', child'[p])
  <2>1. PICK children : SameJobs(children) /\ NewChild(children, child', task_store.data[k])
    BY <1>11 DEF Wakes
  <2>2. \A p \in DOMAIN child' : Fits(msg', asked', child'[p])
    BY <1>2, <1>5, <1>6, <2>1
  <2> QED  BY <1>2, <1>11, <2>2 DEF Wakes
<1> QED  BY <1>7, <1>8, <1>9, <1>10, <1>11 DEF Effect

-----------------------------------------------------------------------------
\* RequestsAccounted, said of a task store, a table of children and the answers:
\* no owner twice among the tasks, among the children, or in both.
Apart(store, children) ==
  /\ \A k, l \in UsedSlots(store) : store.data[k].owner = store.data[l].owner => k = l
  /\ \A p, q \in DOMAIN children : children[p].owner = children[q].owner => p = q
  /\ \A k \in UsedSlots(store), p \in DOMAIN children :
        store.data[k].owner # children[p].owner

TaskOf(store, c) == \E k \in UsedSlots(store) : store.data[k].owner = c

ChildOf(children, c) == \E p \in DOMAIN children : children[p].owner = c

Accounted(store, children, answers, c) ==
  /\ answers[c] \in {"started", "queued", "failed"} <=> TaskOf(store, c) \/ ChildOf(children, c)
  /\ answers[c] = "started" => ChildOf(children, c)

\* The parts together are the property.
LEMMA AccountedParts ==
  /\ RequestsAccounted <=>
       Apart(task_store, child) /\ \A c \in Client : Accounted(task_store, child, answer, c)
  /\ RequestsAccounted' <=>
       Apart(task_store', child') /\ \A c \in Client : Accounted(task_store', child', answer', c)
BY DEF RequestsAccounted, Apart, Accounted, TaskOf, ChildOf

\* Only the owners matter.
LEMMA AccountedSame ==
  ASSUME Apart(task_store, child), NEW store, NEW children,
         SameTasks(store), SameJobs(children)
  PROVE  /\ Apart(store, children)
         /\ \A c : TaskOf(store, c) <=> TaskOf(task_store, c)
         /\ \A c : ChildOf(children, c) <=> ChildOf(child, c)
BY DEF Apart, TaskOf, ChildOf, SameTasks, SameJobs, SameDeed

\* A new child whose owner has nothing else.
LEMMA AccountedChild ==
  ASSUME NEW store, NEW children, NEW after, NEW task,
         Apart(store, children), NewChild(children, after, task),
         ~ TaskOf(store, task.owner), ~ ChildOf(children, task.owner)
  PROVE  /\ Apart(store, after)
         /\ \A c : ChildOf(after, c) <=> ChildOf(children, c) \/ c = task.owner
<1>1. PICK n :
        /\ n \notin DOMAIN children
        /\ DOMAIN after = DOMAIN children \cup {n}
        /\ \A p \in DOMAIN children : after[p] = children[p]
        /\ after[n].owner = task.owner
  BY DEF NewChild, SameDeed
<1>2. \A p \in DOMAIN children : children[p].owner # task.owner
  BY DEF ChildOf
<1>3. \A k \in UsedSlots(store) : store.data[k].owner # task.owner
  BY DEF TaskOf
<1>4. \A p, q \in DOMAIN after : after[p].owner = after[q].owner => p = q
  BY <1>1, <1>2 DEF Apart
<1>5. \A k \in UsedSlots(store), p \in DOMAIN after : store.data[k].owner # after[p].owner
  BY <1>1, <1>3 DEF Apart
<1>6. \A c : ChildOf(after, c) <=> ChildOf(children, c) \/ c = task.owner
  BY <1>1 DEF ChildOf
<1> QED  BY <1>4, <1>5, <1>6 DEF Apart

\* Every step keeps the account.
LEMMA AccountedStep ==
  ASSUME Inv, SocketInv, RequestInv, Effect
  PROVE  RequestsAccounted'
<1>1. /\ LoopType /\ StoreInv
      /\ Apart(task_store, child)
      /\ \A c \in Client : Accounted(task_store, child, answer, c)
  BY InvHalves, AccountedParts DEF RequestInv
<1>2. SUFFICES /\ Apart(task_store', child')
               /\ \A c \in Client : Accounted(task_store', child', answer', c)
  BY AccountedParts
<1>3. CASE Idle \/ \E p \in DOMAIN child : Ends(p)
  <2>1. SameTasks(task_store') /\ SameJobs(child') /\ answer' = answer
    BY <1>3 DEF Idle, Ends
  <2> QED  BY <1>1, <2>1, AccountedSame DEF Accounted
<1>4. ASSUME NEW c \in Client, NEW v, Answers(c, v)
      PROVE  /\ answer[c] = NULL
             /\ \A d \in Client : answer'[d] = IF d = c THEN v ELSE answer[d]
             /\ ~ TaskOf(task_store, c) /\ ~ ChildOf(child, c)
  BY <1>1, <1>4, AnsweredIsNew DEF Answers, LoopType, TaskOf, ChildOf
<1>5. ASSUME NEW c \in Client, Refuses(c)
      PROVE  /\ Apart(task_store', child')
             /\ \A d \in Client : Accounted(task_store', child', answer', d)
  <2>1. PICK v \in {"not_found", "ws_set", "ws_not_found", "invalid"} : Answers(c, v)
    BY <1>5 DEF Refuses
  <2>2. SameTasks(task_store') /\ child' = child
    BY <1>5 DEF Refuses
  <2>3. SameJobs(child')
    BY <2>2 DEF SameJobs, SameDeed
  <2>4. /\ Apart(task_store', child')
        /\ \A d : TaskOf(task_store', d) <=> TaskOf(task_store, d)
        /\ \A d : ChildOf(child', d) <=> ChildOf(child, d)
    BY <1>1, <2>2, <2>3, AccountedSame
  <2>5. v \notin {"started", "queued", "failed"}
    BY <2>1
  <2>6. ASSUME NEW d \in Client PROVE Accounted(task_store', child', answer', d)
    <3>1. CASE d = c
      BY <1>4, <2>1, <2>4, <2>5, <3>1 DEF Accounted
    <3>2. CASE d # c
      BY <1>1, <1>4, <2>1, <2>4, <3>2 DEF Accounted
    <3> QED  BY <3>1, <3>2
  <2> QED  BY <2>4, <2>6
<1>6. ASSUME NEW c \in Client, Keeps(c)
      PROVE  /\ Apart(task_store', child')
             /\ \A d \in Client : Accounted(task_store', child', answer', d)
  <2>1. PICK v \in {"queued", "failed"} : Answers(c, v)
    BY <1>6 DEF Keeps
  <2>2. PICK key \in Slot(TASK_STORE_COUNT) \ UsedSlots(task_store) :
          /\ UsedSlots(task_store') = UsedSlots(task_store) \cup {key}
          /\ \A k \in UsedSlots(task_store) : task_store'.data[k] = task_store.data[k]
          /\ task_store'.data[key].owner = c
    BY <1>6 DEF Keeps, Requested
  <2>3. child' = child
    BY <1>6 DEF Keeps
  <2>4. ~ TaskOf(task_store, c) /\ ~ ChildOf(child, c)
    BY <1>4, <2>1
  <2>5. Apart(task_store', child')
    BY <1>1, <2>2, <2>3, <2>4 DEF Apart, TaskOf, ChildOf
  <2>6. \A d : TaskOf(task_store', d) <=> TaskOf(task_store, d) \/ d = c
    BY <2>2 DEF TaskOf
  <2>7. v # "started"
    BY <2>1
  <2>8. ASSUME NEW d \in Client PROVE Accounted(task_store', child', answer', d)
    <3>1. CASE d = c
      BY <1>4, <2>1, <2>3, <2>6, <2>7, <3>1 DEF Accounted
    <3>2. CASE d # c
      BY <1>1, <1>4, <2>1, <2>3, <2>6, <3>2 DEF Accounted
    <3> QED  BY <3>1, <3>2
  <2> QED  BY <2>5, <2>8
<1>7. ASSUME NEW c \in Client, Starts(c)
      PROVE  /\ Apart(task_store', child')
             /\ \A d \in Client : Accounted(task_store', child', answer', d)
  <2>1. Answers(c, "started") /\ SameTasks(task_store')
    BY <1>7 DEF Starts
  <2>2. PICK task : task.owner = c /\ NewChild(child, child', task)
    BY <1>7 DEF Starts, Requested
  <2>3. SameJobs(child)
    BY DEF SameJobs, SameDeed
  <2>4. /\ Apart(task_store', child)
        /\ \A d : TaskOf(task_store', d) <=> TaskOf(task_store, d)
    BY <1>1, <2>1, <2>3, AccountedSame
  <2>5. /\ Apart(task_store', child')
        /\ \A d : ChildOf(child', d) <=> ChildOf(child, d) \/ d = c
    BY <1>4, <2>1, <2>2, <2>4, AccountedChild
  <2>6. ASSUME NEW d \in Client PROVE Accounted(task_store', child', answer', d)
    <3>1. CASE d = c
      BY <1>4, <2>1, <2>4, <2>5, <3>1 DEF Accounted
    <3>2. CASE d # c
      BY <1>1, <1>4, <2>1, <2>4, <2>5, <3>2 DEF Accounted
    <3> QED  BY <3>1, <3>2
  <2> QED  BY <2>5, <2>6
<1>8. ASSUME NEW k \in UsedSlots(task_store), Wakes(k)
      PROVE  /\ Apart(task_store', child')
             /\ \A d \in Client : Accounted(task_store', child', answer', d)
  <2> DEFINE task == task_store.data[k]
  <2>1. PICK children : SameJobs(children) /\ NewChild(children, child', task)
    BY <1>8 DEF Wakes
  <2>2. /\ UsedSlots(task_store') = UsedSlots(task_store) \ {k}
        /\ \A j \in UsedSlots(task_store') : task_store'.data[j] = task_store.data[j]
        /\ answer' = answer
    BY <1>8 DEF Wakes
  <2>3. SameTasks(task_store)
    BY DEF SameTasks
  <2>4. /\ Apart(task_store, children)
        /\ \A d : ChildOf(children, d) <=> ChildOf(child, d)
    BY <1>1, <2>1, <2>3, AccountedSame
  <2>5. /\ Apart(task_store', children)
        /\ \A d : TaskOf(task_store, d) <=> TaskOf(task_store', d) \/ d = task.owner
        /\ ~ TaskOf(task_store', task.owner)
    BY <2>2, <2>4 DEF Apart, TaskOf
  <2>6. ~ ChildOf(children, task.owner)
    BY <2>4 DEF Apart, ChildOf
  <2> HIDE DEF task
  <2>7. /\ Apart(task_store', child')
        /\ \A d : ChildOf(child', d) <=> ChildOf(children, d) \/ d = task.owner
    BY <2>1, <2>5, <2>6, AccountedChild
  <2>8. ASSUME NEW d \in Client PROVE Accounted(task_store', child', answer', d)
    BY <1>1, <2>2, <2>4, <2>5, <2>7 DEF Accounted
  <2> QED  BY <2>7, <2>8
<1> QED  BY <1>3, <1>5, <1>6, <1>7, <1>8 DEF Effect

-----------------------------------------------------------------------------
\* The sockets are in order in every state.
LEMMA SpecSocket == Spec => []SocketInv
<1>1. Init => SocketInv
  BY DEF Init, SocketInv, Distinct, Items
<1>2. Inv /\ SocketInv /\ [Next]_vars => SocketInv'
  BY NextSocket
<1> QED  BY <1>1, <1>2, SpecInv, PTL DEF Spec

\* run_as_server enters its loop without a request.
LEMMA InitRequest == Init => RequestInv
<1> SUFFICES ASSUME Init PROVE RequestInv
  OBVIOUS
<1>1. UsedSlots(task_store) = {} /\ DOMAIN child = {}
  BY DEF Init, store_new, UsedSlots, Slot
<1>2. \A c \in Client : answer[c] = NULL
  BY DEF Init
<1>3. NULL \notin {"started", "queued", "failed"}
  BY AnswerAssumption DEF Verdict
<1> QED  BY <1>1, <1>2, <1>3 DEF RequestInv, AnswersClose, RequestsAccounted, RunsWhatWasAsked

\* One step keeps the invariant.
LEMMA NextRequest ==
  ASSUME Inv, SocketInv, RequestInv, [Next]_vars
  PROVE  RequestInv'
<1>1. Effect
  BY StepEffect
<1>2. LoopType /\ AnswersClose
  BY InvHalves DEF RequestInv
<1> QED  BY <1>1, <1>2, AnswersCloseStep, AccountedStep, AskedStep DEF RequestInv

\* The invariant holds in every state of every behaviour.
LEMMA SpecRequest == Spec => []RequestInv
<1>1. Inv /\ SocketInv /\ RequestInv /\ [Next]_vars => RequestInv'
  BY NextRequest
<1> QED  BY <1>1, InitRequest, SpecInv, SpecSocket, PTL DEF Spec

\* A run request is in one place: a task that waits or a child, never both and
\* never twice, and just if the server's answer said so, whatever launch fails and
\* in whatever order the slots of the task store are reused.
THEOREM RequestsAlwaysAccounted == Spec => []RequestsAccounted
<1>1. RequestInv => RequestsAccounted
  BY DEF RequestInv
<1> QED  BY <1>1, SpecRequest, PTL

\* What waits and what runs is the section, of the workspace that was active when
\* the request was answered, that the client named: no slot of the task store
\* shows through what an earlier task left in it, and a workspace set meanwhile
\* changes nothing.
THEOREM AlwaysRunsWhatWasAsked == Spec => []RunsWhatWasAsked
<1>1. RequestInv => RunsWhatWasAsked
  BY DEF RequestInv
<1> QED  BY <1>1, SpecRequest, PTL

-----------------------------------------------------------------------------
\* The refinement of Jobs.

\* The job of a request, said of a task store and a table of children.
RunningOf(children, c) == \E p \in DOMAIN children : children[p].owner = c /\ Live(children[p])

Job(store, children, c) ==
  IF TaskOf(store, c) THEN "waiting"
  ELSE IF RunningOf(children, c) THEN "running"
  ELSE IF ChildOf(children, c) THEN "ended"
  ELSE "none"

\* It is the job that the refinement mapping gives the request.
LEMMA JobIs ==
  ASSUME NEW c
  PROVE  /\ JobOf(c) = Job(task_store, child, c)
         /\ JobOf(c)' = Job(task_store', child', c)
BY DEF JobOf, Job, TaskOf, RunningOf, ChildOf, Alive, Live

\* The mapped variable changes where a job changes.
LEMMA JobChange ==
  ASSUME NEW r \in Client, NEW j,
         \A c \in Client : Job(task_store', child', c)
                             = IF c = r THEN j ELSE Job(task_store, child, c)
  PROVE  [c \in Client |-> JobOf(c)]' = [[c \in Client |-> JobOf(c)] EXCEPT ![r] = j]
BY JobIs

\* The mapped variable stays when no job changes.
LEMMA JobFrame ==
  ASSUME \A c \in Client : Job(task_store', child', c) = Job(task_store, child, c)
  PROVE  [c \in Client |-> JobOf(c)]' = [c \in Client |-> JobOf(c)]
BY JobIs

\* As long as a slot of the task store is free, fewer requests wait than it has slots.
LEMMA WaitingBound ==
  ASSUME Inv, UsedSlots(task_store) # Slot(TASK_STORE_COUNT)
  PROVE  Promise!Cardinality(Promise!Waiting) < TASK_STORE_COUNT
<1> DEFINE U == UsedSlots(task_store)
           W == {c \in Client : TaskOf(task_store, c)}
           f == [k \in U |-> task_store.data[k].owner]
<1>1. Promise!Waiting = W
  <2>1. \A c \in Client : JobOf(c) = "waiting" <=> TaskOf(task_store, c)
    BY JobIs DEF Job
  <2> QED  BY <2>1 DEF Promise!Waiting
<1>2. f \in Surjection(U, W)
  <2>1. \A k \in U : task_store.data[k].owner \in W
    BY InvHalves DEF StoreInv, TasksFilled, TaskOf
  <2>2. \A c \in W : \E k \in U : f[k] = c
    BY DEF TaskOf
  <2> QED  BY <2>1, <2>2 DEF Surjection
<1>3. /\ IsFiniteSet(Slot(TASK_STORE_COUNT)) /\ Cardinality(Slot(TASK_STORE_COUNT)) = TASK_STORE_COUNT
      /\ U \in SUBSET Slot(TASK_STORE_COUNT)
  BY CountBelow, Sizes DEF Slot, UsedSlots, Inv, TypeOK, StoreType
<1> HIDE DEF U, W, f
<1>4. /\ IsFiniteSet(U) /\ Cardinality(U) <= TASK_STORE_COUNT
      /\ Cardinality(U) # TASK_STORE_COUNT
  BY <1>3, FS_Subset DEF U
<1>5. IsFiniteSet(W) /\ Cardinality(W) <= Cardinality(U)
  BY <1>2, <1>4, FS_Surjection
<1>6. Cardinality(W) \in Nat /\ Cardinality(U) \in Nat
  BY <1>4, <1>5, FS_CardinalityType
<1>7. Cardinality(W) < TASK_STORE_COUNT
  BY <1>4, <1>5, <1>6, Sizes
<1>8. Promise!Cardinality(W) = Cardinality(W)
  BY DEF Promise!Cardinality, Cardinality, Promise!IsFiniteSet, IsFiniteSet
<1> QED  BY <1>1, <1>7, <1>8

\* The same tasks and the same living children make the same jobs.
LEMMA JobSame ==
  ASSUME NEW store, NEW children, SameTasks(store), SameJobs(children), SameLife(children)
  PROVE  \A c : /\ Job(store, children, c) = Job(task_store, child, c)
                /\ RunningOf(children, c) <=> RunningOf(child, c)
                /\ ChildOf(children, c) <=> ChildOf(child, c)
                /\ TaskOf(store, c) <=> TaskOf(task_store, c)
<1>1. \A c : /\ RunningOf(children, c) <=> RunningOf(child, c)
             /\ ChildOf(children, c) <=> ChildOf(child, c)
             /\ TaskOf(store, c) <=> TaskOf(task_store, c)
  BY DEF SameTasks, SameJobs, SameLife, SameDeed, TaskOf, RunningOf, ChildOf
<1> QED  BY <1>1 DEF Job

\* A new child runs for its owner.
LEMMA JobNewChild ==
  ASSUME NEW children, NEW after, NEW task, NewChild(children, after, task)
  PROVE  \A c : /\ RunningOf(after, c) <=> RunningOf(children, c) \/ c = task.owner
                /\ ChildOf(after, c) <=> ChildOf(children, c) \/ c = task.owner
BY DEF NewChild, SameDeed, RunningOf, ChildOf

\* Every effect is a step of Jobs or none.
LEMMA EffectRefines ==
  ASSUME Inv, RequestInv, Effect
  PROVE  [Promise!Next]_(Promise!vars)
<1>1. /\ LoopType /\ StoreInv
      /\ Apart(task_store, child)
      /\ \A c \in Client : Accounted(task_store, child, answer, c)
  BY InvHalves, AccountedParts DEF RequestInv
<1>2. CASE Idle
  <2>1. [c \in Client |-> JobOf(c)]' = [c \in Client |-> JobOf(c)]
    BY <1>2, JobSame, JobFrame DEF Idle
  <2> QED  BY <1>2, <2>1 DEF Idle, Promise!vars
<1>3. ASSUME NEW p \in DOMAIN child, Ends(p) PROVE \E r \in Client : Promise!End(r)
  <2> DEFINE r == child[p].owner
  <2>1. r \in Client
    BY <1>1, OwnersAnswered
  <2>2. /\ SameTasks(task_store') /\ SameJobs(child')
        /\ Live(child[p]) /\ ~ Live(child'[p])
        /\ \A q \in DOMAIN child \ {p} : child'[q] = child[q]
        /\ answer' = answer
    BY <1>3 DEF Ends
  <2>3. \A c : /\ TaskOf(task_store', c) <=> TaskOf(task_store, c)
               /\ ChildOf(child', c) <=> ChildOf(child, c)
    BY <1>1, <2>2, AccountedSame
  <2>4. ~ TaskOf(task_store, r) /\ RunningOf(child, r) /\ ChildOf(child, r)
    BY <1>1, <2>2 DEF Apart, TaskOf, RunningOf, ChildOf
  <2>5. DOMAIN child' = DOMAIN child /\ child'[p].owner = r
    BY <2>2 DEF SameJobs, SameDeed
  <2>6. \A q \in DOMAIN child : child[q].owner = r => q = p
    BY <1>1 DEF Apart
  <2>7. ~ RunningOf(child', r)
    BY <2>2, <2>5, <2>6 DEF RunningOf
  <2>8. \A c : c # r => (RunningOf(child', c) <=> RunningOf(child, c))
    BY <2>2, <2>5 DEF RunningOf
  <2> HIDE DEF r
  <2>9. \A c : Job(task_store', child', c) = IF c = r THEN "ended" ELSE Job(task_store, child, c)
    BY <2>3, <2>4, <2>7, <2>8 DEF Job
  <2>10. JobOf(r) = "running"
    BY <2>4, JobIs DEF Job
  <2> QED  BY <2>1, <2>2, <2>9, <2>10, JobChange DEF Promise!End
<1>4. ASSUME NEW c \in Client, NEW v, Answers(c, v)
      PROVE  /\ answer[c] = NULL /\ answer' = [answer EXCEPT ![c] = v]
             /\ ~ TaskOf(task_store, c) /\ ~ ChildOf(child, c) /\ ~ RunningOf(child, c)
             /\ Job(task_store, child, c) = "none"
  <2>1. answer[c] = NULL /\ ~ TaskOf(task_store, c) /\ ~ ChildOf(child, c)
    BY <1>1, <1>4, AnsweredIsNew DEF TaskOf, ChildOf
  <2> QED  BY <1>4, <2>1 DEF Answers, RunningOf, ChildOf, Job
<1>5. ASSUME NEW c \in Client, Refuses(c) PROVE Promise!Refuse(c)
  <2>1. PICK v \in Promise!Refusing : Answers(c, v)
    BY <1>5 DEF Refuses, Promise!Refusing
  <2>2. SameTasks(task_store') /\ SameJobs(child') /\ SameLife(child')
    BY <1>5 DEF Refuses, SameJobs, SameLife, SameDeed
  <2>3. \A d : Job(task_store', child', d) = IF d = c THEN "none" ELSE Job(task_store, child, d)
    BY <1>4, <2>1, <2>2, JobSame
  <2>4. Promise!Answer(c, v, "none")
    BY <1>4, <2>1, <2>3, JobChange DEF Promise!Answer
  <2> QED  BY <2>1, <2>4 DEF Promise!Refuse
<1>6. ASSUME NEW c \in Client, Keeps(c) PROVE Promise!Keep(c)
  <2>1. PICK v \in Promise!Keeping : Answers(c, v)
    BY <1>6 DEF Keeps, Promise!Keeping
  <2>2. PICK key \in Slot(TASK_STORE_COUNT) \ UsedSlots(task_store) :
          /\ UsedSlots(task_store') = UsedSlots(task_store) \cup {key}
          /\ \A k \in UsedSlots(task_store) : task_store'.data[k] = task_store.data[k]
          /\ task_store'.data[key].owner = c
    BY <1>6 DEF Keeps, Requested
  <2>3. child' = child
    BY <1>6 DEF Keeps
  <2>4. \A d : TaskOf(task_store', d) <=> TaskOf(task_store, d) \/ d = c
    BY <2>2 DEF TaskOf
  <2>5. \A d : Job(task_store', child', d) = IF d = c THEN "waiting" ELSE Job(task_store, child, d)
    BY <2>3, <2>4 DEF Job
  <2>6. Promise!Answer(c, v, "waiting")
    BY <1>4, <2>1, <2>5, JobChange DEF Promise!Answer
  <2>7. Promise!Cardinality(Promise!Waiting) < TASK_STORE_COUNT
    BY <2>2, WaitingBound
  <2> QED  BY <2>1, <2>6, <2>7 DEF Promise!Keep
<1>7. ASSUME NEW c \in Client, Starts(c) PROVE Promise!StartAtOnce(c)
  <2>1. Answers(c, "started") /\ SameTasks(task_store') /\ UsedSlots(task_store) # Slot(TASK_STORE_COUNT)
    BY <1>7 DEF Starts
  <2>2. PICK task : task.owner = c /\ NewChild(child, child', task)
    BY <1>7 DEF Starts, Requested
  <2>3. \A d : TaskOf(task_store', d) <=> TaskOf(task_store, d)
    BY <2>1 DEF SameTasks, TaskOf
  <2>4. \A d : /\ RunningOf(child', d) <=> RunningOf(child, d) \/ d = c
               /\ ChildOf(child', d) <=> ChildOf(child, d) \/ d = c
    BY <2>2, JobNewChild
  <2>5. \A d : Job(task_store', child', d) = IF d = c THEN "running" ELSE Job(task_store, child, d)
    BY <1>4, <2>1, <2>3, <2>4 DEF Job
  <2>6. Promise!Answer(c, "started", "running")
    BY <1>4, <2>1, <2>5, JobChange DEF Promise!Answer
  <2> QED  BY <2>1, <2>6, WaitingBound DEF Promise!StartAtOnce
<1>8. ASSUME NEW k \in UsedSlots(task_store), Wakes(k) PROVE \E r \in Client : Promise!Start(r)
  <2> DEFINE task == task_store.data[k]
             r == task.owner
  <2>1. r \in Client
    BY <1>1, OwnersAnswered
  <2>2. PICK children : /\ SameJobs(children) /\ SameLife(children)
                        /\ NewChild(children, child', task)
    BY <1>8 DEF Wakes
  <2>3. /\ UsedSlots(task_store') = UsedSlots(task_store) \ {k}
        /\ \A j \in UsedSlots(task_store') : task_store'.data[j] = task_store.data[j]
        /\ answer' = answer
    BY <1>8 DEF Wakes
  <2>4. /\ \A d : TaskOf(task_store, d) <=> TaskOf(task_store', d) \/ d = r
        /\ ~ TaskOf(task_store', r) /\ TaskOf(task_store, r)
    BY <1>1, <2>3 DEF Apart, TaskOf
  <2>5. SameTasks(task_store)
    BY DEF SameTasks
  <2>6. \A d : /\ RunningOf(children, d) <=> RunningOf(child, d)
               /\ ChildOf(children, d) <=> ChildOf(child, d)
    BY <2>2, <2>5, JobSame
  <2>7. \A d : /\ RunningOf(child', d) <=> RunningOf(children, d) \/ d = r
               /\ ChildOf(child', d) <=> ChildOf(children, d) \/ d = r
    BY <2>2, JobNewChild
  <2> HIDE DEF task, r
  <2>8. \A d : Job(task_store', child', d) = IF d = r THEN "running" ELSE Job(task_store, child, d)
    BY <2>4, <2>6, <2>7 DEF Job
  <2>9. JobOf(r) = "waiting"
    BY <2>4, JobIs DEF Job
  <2> QED  BY <2>1, <2>3, <2>8, <2>9, JobChange DEF Promise!Start
<1> QED  BY <1>2, <1>3, <1>5, <1>6, <1>7, <1>8 DEF Effect, Promise!Next

\* The agent begins with no answer and no job.
LEMMA InitRefines == Init => Promise!Init
<1> SUFFICES ASSUME Init PROVE Promise!Init
  OBVIOUS
<1>1. UsedSlots(task_store) = {} /\ DOMAIN child = {}
  BY DEF Init, store_new, UsedSlots, Slot
<1>2. \A c \in Client : JobOf(c) = "none"
  BY <1>1, JobIs DEF Job, TaskOf, RunningOf, ChildOf
<1> QED  BY <1>2 DEF Init, Promise!Init

\* The agent implements Jobs: with its stores, its loop and failing launches, every
\* step answers one request once, starts one waiting job, ends one running job or
\* changes no job, and it never keeps more jobs waiting than the task store holds.
THEOREM JobsImplemented == Spec => ImplementsJobs
<1>1. Inv /\ SocketInv /\ RequestInv /\ [Next]_vars => [Promise!Next]_(Promise!vars)
  BY StepEffect, EffectRefines
<1> QED  BY <1>1, InitRefines, SpecInv, SpecSocket, SpecRequest, PTL
         DEF Spec, ImplementsJobs, Promise!Spec

-----------------------------------------------------------------------------
\* One instance of a task that waits for itself.

\* No name other than itself is a prefix of a name that waits for itself: the
\* condition under which strncmp in server_check_task_queue compares whole names.
WholeNames == \A n \in SelfWaiting, m \in Name : <<m, n>> \in PrefixOf => m = n

\* The process store holds at most one process of each such name.
OneSlot(processes) ==
  \A n \in SelfWaiting : \A k, l \in UsedSlots(processes) :
    processes.data[k].task_name = n /\ processes.data[l].task_name = n => k = l

\* A task whose name waits for itself has its own name in its wait field.
LEMMA SelfWait ==
  ASSUME NEW m, NEW a, NEW x, Fits(m, a, x), x.cmd \in Path, x.name \in SelfWaiting
  PROVE  x.wait = x.name
BY DEF Fits, SelfWaiting

\* Launching one process more, when no other runs under its name.
LEMMA OneSlotLaunch ==
  ASSUME NEW s, NEW t, NEW i, NEW task, OneSlot(s), IsLaunch(s, t, i, task),
         Sound(s, PROCESS_STORE_COUNT, TaskProcess),
         task.name \in SelfWaiting =>
           \A k \in UsedSlots(s) : s.data[k].task_name # task.name
  PROVE  OneSlot(t)
<1>1. /\ s.data \in [Slot(PROCESS_STORE_COUNT) -> TaskProcess]
      /\ UsedSlots(s) \subseteq Slot(PROCESS_STORE_COUNT)
  BY DEF Sound, StoreType, UsedSlots
<1>2. /\ UsedSlots(t) = UsedSlots(s) \cup {i} /\ i \notin UsedSlots(s)
      /\ t.data[i].task_name = task.name
      /\ \A k \in UsedSlots(s) : t.data[k] = s.data[k]
  BY <1>1 DEF IsLaunch
<1> QED  BY <1>2 DEF OneSlot

\* Removing a process.
LEMMA OneSlotRemove ==
  ASSUME NEW s, NEW t, NEW i, OneSlot(s), IsRemove(s, t, i)
  PROVE  OneSlot(t)
BY DEF OneSlot, IsRemove

\* A request that is started found no process of the name it waits for.
LEMMA OneSlotStarted ==
  ASSUME Inv, OneSlot(process_store), NEW c \in Client, TaskStarted(c)
  PROVE  OneSlot(process_store')
<1> DEFINE n == msg[c].arg
           s == get_task(n, c).store
           key == get_task(n, c).key
           task == s.data[key]
<1>1. LoopType /\ StoreInv
  BY InvHalves
<1>2. /\ Packet(c, "run") /\ key # NoKey
      /\ ~ server_task_wait_match(task)
      /\ Launch(process_store, child, task)
  BY DEF TaskStarted
<1>3. GotTask(s, key, n, c)
  BY <1>1, <1>2, ArgType, GetTask
<1> HIDE DEF n, s, key
<1>4. task \in Task
  BY <1>1, <1>3, GotTaskFilled
<1>5. /\ n \in Name /\ workspace \in Path /\ Section[workspace][n].cmd
      /\ task.name = n /\ task.wait = Section[workspace][n].wait
  BY <1>3 DEF GotTask
<1>6. ASSUME n \in SelfWaiting
      PROVE  \A k \in UsedSlots(process_store) : process_store.data[k].task_name # n
  <2>1. task.wait = n /\ n # NULL
    BY <1>5, <1>6, NameAssumption DEF SelfWaiting
  <2> QED  BY <1>2, <2>1 DEF server_task_wait_match
<1>7. IsLaunch(process_store, process_store', get_push_index(process_store), task)
  BY <1>1, <1>2, <1>4, LaunchEffect DEF Launch, StoreInv
<1> HIDE DEF task
<1> QED  BY <1>1, <1>5, <1>6, <1>7, OneSlotLaunch DEF StoreInv

\* A task that a completion wakes waited for the process that just left the store.
LEMMA OneSlotReap ==
  ASSUME WholeNames, Inv, Agree(process_store, child), RequestInv, OneSlot(process_store),
         Reap \/ ReapAndLaunch \/ ReapLaunchFails
  PROVE  OneSlot(process_store')
<1> DEFINE rest == store_remove_at(process_store, iter)
           done == process_store.data[iter].task_name
           next == next_task(done)
           task == task_store.data[next]
<1>1. LoopType /\ StoreInv /\ Completed
  BY InvHalves DEF Reap, ReapAndLaunch, ReapLaunchFails
<1>2. /\ iter \in UsedSlots(process_store)
      /\ Sound(rest, PROCESS_STORE_COUNT, TaskProcess)
      /\ IsRemove(process_store, rest, iter)
  BY <1>1, Reaped
<1>3. OneSlot(rest)
  BY <1>2, OneSlotRemove
<1>4. CASE Reap \/ ReapLaunchFails
  BY <1>3, <1>4 DEF Reap, ReapLaunchFails
<1>5. CASE ReapAndLaunch
  <2>1. next # NoKey /\ HasOpen(rest) /\ process_store' = launched_store(rest, task)
    BY <1>5 DEF ReapAndLaunch, Launch
  <2>2. next \in UsedSlots(task_store) /\ Woken(task, done)
    BY <2>1, NextTask
  <2>3. task \in Task /\ task.name \in Name /\ task.cmd \in Path /\ Len(child) \in Nat
    BY <1>1, <2>2, SMTT(30) DEF StoreInv, Sound, StoreType, UsedSlots, TasksFilled
  <2>4. Fits(msg, asked, task)
    BY <2>2 DEF RequestInv, RunsWhatWasAsked, AsRequested, Fits
  <2>5. done \in Name
    <3>1. /\ process_store.data[iter].pid \in DOMAIN child
          /\ child[process_store.data[iter].pid].name = done
      BY <1>2 DEF Agree
    <3>2. child[process_store.data[iter].pid] \in Child
      BY <1>1, <3>1, LenProperties, ElementOfSeq DEF StoreInv
    <3> QED  BY <3>1, <3>2 DEF Child
  <2> HIDE DEF rest, next, task
  <2>6. ASSUME task.name \in SelfWaiting
        PROVE  \A k \in UsedSlots(rest) : rest.data[k].task_name # task.name
    <3>1. task.wait = task.name
      BY <2>3, <2>4, <2>6, SelfWait
    <3>2. done = task.name
      BY <2>2, <2>3, <2>5, <2>6, <3>1, NameAssumption DEF Woken, WholeNames
    <3>3. /\ rest.data = process_store.data
          /\ UsedSlots(rest) = UsedSlots(process_store) \ {iter}
      BY <1>2 DEF IsRemove
    <3> QED  BY <1>2, <2>6, <3>2, <3>3 DEF OneSlot
  <2>7. IsLaunch(rest, process_store', get_push_index(rest), task)
    BY <1>2, <2>1, <2>3, LaunchEffect
  <2> QED  BY <1>2, <1>3, <2>6, <2>7, OneSlotLaunch
<1> QED  BY <1>4, <1>5

\* One step keeps at most one process of each such name in the store.
LEMMA NextOneSlot ==
  ASSUME WholeNames, AgreeInv, RequestInv, OneSlot(process_store), [Next]_vars
  PROVE  OneSlot(process_store')
<1>1. Inv /\ Agree(process_store, child)
  BY DEF AgreeInv
<1>2. CASE process_store' = process_store
  BY <1>2
<1>3. CASE Environment \/ UNCHANGED vars
  BY <1>2, <1>3 DEF Environment, Connect, Send, Leave, ChildExit, ChildStop, ChildContinue,
                    vars, server_vars
<1>4. CASE \/ Select \/ SelectFails \/ ClientsDone
           \/ NoIncoming \/ AcceptOverLimit \/ AcceptSetupFails \/ AcceptClient
           \/ SkipProcess \/ ProcessesDone
  BY <1>2, <1>4 DEF Select, SelectFails, ClientsDone, NoIncoming, AcceptOverLimit,
                    AcceptSetupFails, AcceptClient, Accept, ToClients, SkipProcess, ProcessesDone
<1>5. CASE ClientStep
  <2>1. PICK c \in Client :
          \/ SkipClient(c) \/ ClientClosed(c) \/ InvalidPacket(c)
          \/ TaskNotFound(c) \/ TaskQueued(c) \/ TaskLaunchFailed(c) \/ TaskStarted(c)
          \/ WorkspaceSet(c) \/ WorkspaceNotFound(c)
    BY <1>5 DEF ClientStep
  <2>2. CASE TaskStarted(c)
    BY <1>1, <2>2, OneSlotStarted
  <2>3. CASE ~ TaskStarted(c)
    BY <1>2, <2>1, <2>3
       DEF SkipClient, ClientClosed, InvalidPacket, TaskNotFound, TaskQueued,
           TaskLaunchFailed, WorkspaceSet, WorkspaceNotFound
  <2> QED  BY <2>2, <2>3
<1>6. CASE Reap \/ ReapAndLaunch \/ ReapLaunchFails
  BY <1>1, <1>6, OneSlotReap
<1> QED  BY <1>3, <1>4, <1>5, <1>6 DEF Next, ServerStep

\* A task that waits for itself runs in one instance, as src/README.md says, among the
\* children that were never stopped, if no other name is a prefix of its name.  The
\* condition is needed: the completion of "loop" wakes what waits for "looptest",
\* because server_check_task_queue compares with strncmp up to the length of the
\* name that completed.
THEOREM OneInstanceAlways == ASSUME WholeNames PROVE Spec => []OneInstance
<1>1. Init => OneSlot(process_store)
  <2>1. Init => UsedSlots(process_store) = {}
    BY DEF Init, store_new, UsedSlots, Slot
  <2> QED  BY <2>1 DEF OneSlot
<1>2. AgreeInv /\ RequestInv /\ OneSlot(process_store) /\ [Next]_vars => OneSlot(process_store)'
  <2> SUFFICES ASSUME AgreeInv, RequestInv, OneSlot(process_store), [Next]_vars
               PROVE  OneSlot(process_store')
    BY DEF OneSlot
  <2> QED  BY NextOneSlot
<1>3. AgreeInv /\ OneSlot(process_store) => OneInstance
  <2> SUFFICES ASSUME AgreeInv, OneSlot(process_store), NEW n \in SelfWaiting,
                      NEW p \in DOMAIN child, child[p].name = n, Alive(p), ~ child[p].held,
                      NEW q \in DOMAIN child, child[q].name = n, Alive(q), ~ child[q].held
               PROVE  p = q
    BY DEF OneInstance
  <2>1. Agree(process_store, child) /\ child[p].st # "reaped" /\ child[q].st # "reaped"
    BY DEF AgreeInv, Alive
  <2>2. PICK k \in UsedSlots(process_store) : process_store.data[k].pid = p
    BY <2>1 DEF Agree
  <2>3. PICK l \in UsedSlots(process_store) : process_store.data[l].pid = q
    BY <2>1 DEF Agree
  <2>4. process_store.data[k].task_name = n /\ process_store.data[l].task_name = n
    BY <2>1, <2>2, <2>3 DEF Agree
  <2> QED  BY <2>2, <2>3, <2>4 DEF OneSlot
<1>4. Spec => []AgreeInv
  BY InitAgree, NextAgree, PTL DEF Spec
<1> QED  BY <1>1, <1>2, <1>3, <1>4, SpecRequest, PTL DEF Spec
=============================================================================
