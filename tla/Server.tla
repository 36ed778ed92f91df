------------------------------- MODULE Server -------------------------------
(***************************************************************************)
(* The agent of src/src/server.h: one thread that accepts client sockets,  *)
(* answers one request on each, forks a child for a task and reaps it, and *)
(* keeps the tasks that wait in a store of their own.  One action stands   *)
(* for one iteration of a loop of run_as_server; between two of them the   *)
(* clients, the children and the kernel take their own steps.              *)
(*                                                                         *)
(* A client is one run of `dpatch <command>`: it connects, sends one       *)
(* message and waits for the answer.  Command text and environment are     *)
(* abstracted to the workspace file they were read from.                   *)
(***************************************************************************)
EXTENDS StoreOps, StackOps, FiniteSets

CONSTANTS
  Client,               \* runs of the client program
  Name,                 \* task names
  Path,                 \* workspace files
  NULL,
  Command,              \* the messages the clients may send
  Readable,             \* the files access(path, R_OK) finds
  Broken,               \* the readable files ini_parse rejects
  Section,              \* what the parser hands over for a name in a file
  PrefixOf,             \* <<p, w>>: the name p is a prefix of the name w
  BOOT,                 \* the workspaces to begin with: NULL when the server has just
                        \* started, a file when an earlier client has set it
  TASK_STORE_COUNT, PROCESS_STORE_COUNT, MAX_CLIENTS, MAX_PENDING_CONN,
  CAN_LEAVE,            \* may a client hang up before it has its answer?
  SYS_FAIL,             \* may select, accept, read, fcntl, pipe or fork fail?
  CAN_STOP              \* may a child be stopped (SIGSTOP, SIGTTIN)?

ASSUME SizeAssumption ==
  /\ TASK_STORE_COUNT \in Nat \ {0}
  /\ PROCESS_STORE_COUNT \in Nat \ {0}
  /\ MAX_CLIENTS \in Nat \ {0}
  /\ MAX_PENDING_CONN \in Nat \ {0}
  /\ CAN_LEAVE \in BOOLEAN
  /\ SYS_FAIL \in BOOLEAN
  /\ CAN_STOP \in BOOLEAN

ASSUME NameAssumption ==
  /\ NULL \notin Name /\ NULL \notin Path /\ NULL \notin Client
  /\ NULL \notin Command
  /\ "listen" \notin Client

ASSUME WorkspaceAssumption ==
  /\ Command \subseteq [type : {"run"}, arg : Name \cup {NULL}]
                       \cup [type : {"set"}, arg : Path \cup {NULL}]
                       \cup [type : {"invalid"}, arg : {NULL}]
  /\ Readable \subseteq Path /\ Broken \subseteq Readable
  /\ Section \in [Path -> [Name -> [cmd : BOOLEAN, wait : Name \cup {NULL}]]]
  /\ PrefixOf \subseteq Name \X Name
  /\ \A n \in Name : <<n, n>> \in PrefixOf
  /\ BOOT \subseteq Readable \cup {NULL}

VARIABLES
  workspace,      \* server.workspace, NULL while it is the empty string
  task_store,     \* the tasks being evaluated or waiting
  process_store,  \* the children the server knows of
  client_stack,   \* the accepted sockets
  read_flags,     \* what select reported readable
  pc, iter,       \* the loop of run_as_server and its index
  backlog,        \* connections the kernel holds for accept
  sock,           \* the socket of each client
  msg,            \* what each client sent
  left,           \* the clients that closed their end
  child,          \* every process ever forked; its index is the pid
  answer, asked   \* the verdict on each request, and the workspace then

server_vars == <<workspace, task_store, process_store, client_stack, read_flags,
                 pc, iter>>
client_vars == <<backlog, sock, msg, left>>
vars == <<server_vars, client_vars, child, answer, asked>>

-----------------------------------------------------------------------------
\* A zeroed Task and a zeroed TaskProcess.
NoTask == [name |-> NULL, cmd |-> NULL, wait |-> NULL, owner |-> NULL]
NoProcess == [pid |-> 0, task_name |-> NULL]

Task == [name : Name \cup {NULL}, cmd : Path \cup {NULL},
         wait : Name \cup {NULL}, owner : Client \cup {NULL}]
TaskProcess == [pid : Nat, task_name : Name \cup {NULL}]
Child == [st : {"running", "stopped", "zombie", "reaped"}, held : BOOLEAN,
          name : Name, cmd : Path, wait : Name \cup {NULL}, owner : Client]

Verdict == {"started", "queued", "failed", "not_found",
            "ws_set", "ws_not_found", "invalid"}

\* A client that has no answer yet is told apart from one that has.
ASSUME AnswerAssumption == NULL \notin Verdict

Alive(p) == child[p].st \in {"running", "stopped"}

Init ==
  /\ workspace \in BOOT
  /\ task_store = store_new(TASK_STORE_COUNT, NoTask)
  /\ process_store = store_new(PROCESS_STORE_COUNT, NoProcess)
  /\ client_stack = <<>>
  /\ read_flags = {}
  /\ pc = "select" /\ iter = -1
  /\ backlog = <<>>
  /\ sock = [c \in Client |-> "none"]
  /\ msg = [c \in Client |-> NULL]
  /\ left = {}
  /\ child = <<>>
  /\ answer = [c \in Client |-> NULL]
  /\ asked = [c \in Client |-> NULL]

-----------------------------------------------------------------------------
\* The clients and the children.

Connect(c) ==
  /\ sock[c] = "none"
  /\ Len(backlog) < MAX_PENDING_CONN
  /\ sock' = [sock EXCEPT ![c] = "backlog"]
  /\ backlog' = Append(backlog, c)
  /\ UNCHANGED <<server_vars, msg, left, child, answer, asked>>

Send(c) ==
  /\ sock[c] \in {"backlog", "accepted"}
  /\ msg[c] = NULL /\ c \notin left
  /\ \E m \in Command : msg' = [msg EXCEPT ![c] = m]
  /\ UNCHANGED <<server_vars, backlog, sock, left, child, answer, asked>>

\* The client times out or is killed before it has its answer.
Leave(c) ==
  /\ CAN_LEAVE
  /\ sock[c] \in {"backlog", "accepted"}
  /\ c \notin left
  /\ left' = left \cup {c}
  /\ UNCHANGED <<server_vars, backlog, sock, msg, child, answer, asked>>

ChildExit(p) ==
  /\ Alive(p)
  /\ child' = [child EXCEPT ![p].st = "zombie"]
  /\ UNCHANGED <<server_vars, client_vars, answer, asked>>

ChildStop(p) ==
  /\ CAN_STOP
  /\ child[p].st = "running"
  /\ child' = [child EXCEPT ![p].st = "stopped", ![p].held = TRUE]
  /\ UNCHANGED <<server_vars, client_vars, answer, asked>>

ChildContinue(p) ==
  /\ child[p].st = "stopped"
  /\ child' = [child EXCEPT ![p].st = "running"]
  /\ UNCHANGED <<server_vars, client_vars, answer, asked>>

-----------------------------------------------------------------------------
\* The top of the loop: server_check_activity.

HasInput(c) == msg[c] # NULL \/ c \in left

Watched == {stack_get(client_stack, j) : j \in 0 .. Len(client_stack) - 1}

Select ==
  /\ pc = "select"
  /\ read_flags' = {c \in Watched : HasInput(c)}
                   \cup (IF backlog # <<>> THEN {"listen"} ELSE {})
  /\ pc' = "incoming"
  /\ UNCHANGED <<workspace, task_store, process_store, client_stack, iter,
                 client_vars, child, answer, asked>>

\* A failed select leaves the set as it was filled, and the pass goes on.
SelectFails ==
  /\ SYS_FAIL
  /\ pc = "select"
  /\ read_flags' = Watched \cup {"listen"}
  /\ pc' = "incoming"
  /\ UNCHANGED <<workspace, task_store, process_store, client_stack, iter,
                 client_vars, child, answer, asked>>

-----------------------------------------------------------------------------
\* server_handle_incoming: at most one connection per pass.

\* Mutant: the loop starts one socket too low.
ToClientsShort ==
  /\ pc = "incoming"
  /\ pc' = "clients"
  /\ iter' = (IF Len(client_stack') > 0 THEN Len(client_stack') - 2 ELSE -1)
  /\ UNCHANGED <<workspace, task_store, process_store, read_flags, msg, left,
                 child, answer, asked>>

ToClients ==
  /\ pc = "incoming"
  /\ pc' = "clients"
  /\ iter' = Len(client_stack') - 1
  /\ UNCHANGED <<workspace, task_store, process_store, read_flags, msg, left,
                 child, answer, asked>>

\* No flag, or accept fails: nobody is waiting, or the call itself fails and the
\* connection stays where it is.
NoIncoming ==
  /\ "listen" \notin read_flags \/ backlog = <<>> \/ SYS_FAIL
  /\ UNCHANGED <<client_stack, backlog, sock>>
  /\ ToClients

\* Mutant: one client too many passes the limit.
LimitOffByOne == Len(client_stack) > MAX_CLIENTS

AtClientLimit == Len(client_stack) >= MAX_CLIENTS

Accept(state) ==
  /\ "listen" \in read_flags /\ backlog # <<>>
  /\ ToClients
  /\ backlog' = Tail(backlog)
  /\ sock' = [sock EXCEPT ![Head(backlog)] = state]

AcceptOverLimit ==
  /\ AtClientLimit
  /\ UNCHANGED client_stack
  /\ Accept("refused")

\* The socket options cannot be set: the socket stays open and is forgotten.
AcceptSetupFails ==
  /\ SYS_FAIL
  /\ ~ AtClientLimit
  /\ UNCHANGED client_stack
  /\ Accept("leaked")

AcceptClient ==
  /\ backlog # <<>>
  /\ ~ AtClientLimit
  /\ client_stack' = stack_push(client_stack, MAX_CLIENTS, Head(backlog))
  /\ Accept("accepted")

-----------------------------------------------------------------------------
\* Launching: server_task_launch, used by the two loops below.

EmptySection == [cmd |-> FALSE, wait |-> NULL]

section_of(n) == IF workspace \in Path THEN Section[workspace][n] ELSE EmptySection

\* What workspace_task_get makes of the new slot: only the keys that the
\* section has are written.
parsed_task(task, n, c) ==
  LET sec == section_of(n)
  IN  [ name  |-> n,
        cmd   |-> IF sec.cmd THEN workspace ELSE task.cmd,
        wait  |-> IF sec.wait # NULL THEN sec.wait ELSE task.wait,
        owner |-> c ]

\* The slot that get_task fills, as a store and a key (NoKey on failure).
get_task(n, c) ==
  LET key    == get_push_index(task_store)
      pushed == store_push_empty(task_store, NoTask)
      task   == parsed_task(pushed.data[key], n, c)
      filled == written(pushed, key, task)
  IN  IF n = NULL \/ key = NoKey THEN [store |-> task_store, key |-> NoKey]
      ELSE IF workspace = NULL \/ workspace \in Broken \/ task.cmd = NULL
           THEN [store |-> store_remove_at(filled, key), key |-> NoKey]
           ELSE [store |-> filled, key |-> key]

HasOpen(processes) == processes.open_cnt >= 1

launched_store(processes, task) ==
  written(store_push_empty(processes, NoProcess), get_push_index(processes),
          [pid |-> Len(child) + 1, task_name |-> task.name])

launched_child(task) ==
  [st |-> "running", held |-> FALSE, name |-> task.name, cmd |-> task.cmd,
   wait |-> task.wait, owner |-> task.owner]

\* server_task_launch succeeds on the given process store.
Launch(processes, children, task) ==
  /\ HasOpen(processes)
  /\ process_store' = launched_store(processes, task)
  /\ child' = Append(children, launched_child(task))

\* It returns -1: the store is full, or pipe, fcntl or fork fails.
LaunchFails(processes) == ~ HasOpen(processes) \/ SYS_FAIL

\* Mutant: the test of the name is dropped, nobody ever waits.
NeverMatches(task) == FALSE

server_task_wait_match(task) ==
  /\ task.wait # NULL
  /\ \E k \in UsedSlots(process_store) : process_store.data[k].task_name = task.wait

-----------------------------------------------------------------------------
\* The client loop and server_eval_packet.

AtClient(c) ==
  /\ pc = "clients" /\ iter >= 0
  /\ c = stack_get(client_stack, iter)
  /\ iter' = iter - 1
  /\ UNCHANGED <<pc, read_flags, backlog, msg, left>>

\* FD_ISSET fails, or the read fails: with nothing to read, or on a connection that
\* was reset.  The socket stays on the stack.
SkipClient(c) ==
  /\ AtClient(c)
  /\ c \notin read_flags \/ ~ HasInput(c) \/ SYS_FAIL
  /\ UNCHANGED <<workspace, task_store, process_store, client_stack, sock, child,
                 answer, asked>>

\* The read returns 0.
ClientClosed(c) ==
  /\ AtClient(c)
  /\ c \in read_flags /\ msg[c] = NULL /\ c \in left
  /\ client_stack' = stack_remove_at_fast(client_stack, iter)
  /\ sock' = [sock EXCEPT ![c] = "closed"]
  /\ UNCHANGED <<workspace, task_store, process_store, child, answer, asked>>

Packet(c, type) ==
  /\ AtClient(c)
  /\ c \in read_flags /\ msg[c] # NULL
  /\ msg[c].type = type

\* The socket is closed whether or not the answer could be sent.
server_respond(c, verdict) ==
  /\ answer' = [answer EXCEPT ![c] = verdict]
  /\ asked' = [asked EXCEPT ![c] = workspace]
  /\ sock' = [sock EXCEPT ![c] = "closed"]
  /\ client_stack' = stack_remove_at_fast(client_stack, iter)

\* protocol_read fails, or the message is of a type the switch does not know.
InvalidPacket(c) ==
  /\ Packet(c, "invalid")
  /\ server_respond(c, "invalid")
  /\ UNCHANGED <<workspace, task_store, process_store, child>>

TaskNotFound(c) ==
  LET got == get_task(msg[c].arg, c)
  IN  /\ Packet(c, "run")
      /\ got.key = NoKey
      /\ task_store' = got.store
      /\ server_respond(c, "not_found")
      /\ UNCHANGED <<workspace, process_store, child>>

TaskQueued(c) ==
  LET got == get_task(msg[c].arg, c)
  IN  /\ Packet(c, "run")
      /\ got.key # NoKey
      /\ server_task_wait_match(got.store.data[got.key])
      /\ task_store' = got.store
      /\ server_respond(c, "queued")
      /\ UNCHANGED <<workspace, process_store, child>>

\* The client is told that the task failed; the task stays in the store.
TaskLaunchFailed(c) ==
  LET got == get_task(msg[c].arg, c)
  IN  /\ Packet(c, "run")
      /\ got.key # NoKey
      /\ ~ server_task_wait_match(got.store.data[got.key])
      /\ LaunchFails(process_store)
      /\ task_store' = got.store
      /\ server_respond(c, "failed")
      /\ UNCHANGED <<workspace, process_store, child>>

\* Mutant: the task is started and stays in the store.
StartKeepsTask(c) ==
  LET got == get_task(msg[c].arg, c)
  IN  /\ Packet(c, "run")
      /\ got.key # NoKey
      /\ ~ server_task_wait_match(got.store.data[got.key])
      /\ Launch(process_store, child, got.store.data[got.key])
      /\ task_store' = got.store
      /\ server_respond(c, "started")
      /\ UNCHANGED workspace

TaskStarted(c) ==
  LET got == get_task(msg[c].arg, c)
  IN  /\ Packet(c, "run")
      /\ got.key # NoKey
      /\ ~ server_task_wait_match(got.store.data[got.key])
      /\ Launch(process_store, child, got.store.data[got.key])
      /\ task_store' = store_remove_at(got.store, got.key)
      /\ server_respond(c, "started")
      /\ UNCHANGED workspace

WorkspaceSet(c) ==
  /\ Packet(c, "set")
  /\ msg[c].arg \in Readable
  /\ workspace' = msg[c].arg
  /\ server_respond(c, "ws_set")
  /\ UNCHANGED <<task_store, process_store, child>>

WorkspaceNotFound(c) ==
  /\ Packet(c, "set")
  /\ msg[c].arg \notin Readable
  /\ server_respond(c, "ws_not_found")
  /\ UNCHANGED <<workspace, task_store, process_store, child>>

\* Mutant: the loop starts one slot too high.
ClientsDoneHigh ==
  /\ pc = "clients" /\ iter < 0
  /\ pc' = "processes"
  /\ iter' = PROCESS_STORE_COUNT
  /\ UNCHANGED <<workspace, task_store, process_store, client_stack, read_flags,
                 client_vars, child, answer, asked>>

\* Mutant: the loop starts one slot too low.
ClientsDoneLow ==
  /\ pc = "clients" /\ iter < 0
  /\ pc' = "processes"
  /\ iter' = PROCESS_STORE_COUNT - 2
  /\ UNCHANGED <<workspace, task_store, process_store, client_stack, read_flags,
                 client_vars, child, answer, asked>>

ClientsDone ==
  /\ pc = "clients" /\ iter < 0
  /\ pc' = "processes"
  /\ iter' = PROCESS_STORE_COUNT - 1
  /\ UNCHANGED <<workspace, task_store, process_store, client_stack, read_flags,
                 client_vars, child, answer, asked>>

-----------------------------------------------------------------------------
\* The process loop, waitpid and server_check_task_queue.

\* waitpid(pid, WNOHANG | WUNTRACED) returns something other than 0.
waitpid_reports(p) == child[p].st \in {"zombie", "stopped", "reaped"}

\* What the call leaves of the child.
waited(p) == IF child[p].st = "zombie" THEN [child EXCEPT ![p].st = "reaped"] ELSE child

AtProcess ==
  /\ pc = "processes" /\ iter >= 0
  /\ iter' = iter - 1
  /\ UNCHANGED <<workspace, client_stack, read_flags, pc, client_vars, answer, asked>>

\* An unused slot, or a child that runs on and whose output is copied to the log.
SkipProcess ==
  /\ AtProcess
  /\ store_is_used(process_store, iter) =>
       ~ waitpid_reports(process_store.data[iter].pid)
  /\ UNCHANGED <<task_store, process_store, child>>

\* Mutant: the result of waitpid is ignored.
CompletedAnyway ==
  /\ AtProcess
  /\ store_is_used(process_store, iter)

Completed ==
  /\ AtProcess
  /\ store_is_used(process_store, iter)
  /\ waitpid_reports(process_store.data[iter].pid)

\* strncmp(task->wait, done, strlen(done)) == 0
Woken(task, done) == task.wait = NULL \/ <<done, task.wait>> \in PrefixOf

\* Mutant: the scan ends above slot 0.
ScanStopsEarly(done) ==
  LET match == {k \in UsedSlots(task_store) : k > 0 /\ Woken(task_store.data[k], done)}
  IN  IF match = {} THEN NoKey
      ELSE CHOOSE k \in match : \A j \in match : j <= k

\* The slot the downward scan of the task store stops at, or NoKey.
next_task(done) ==
  LET match == {k \in UsedSlots(task_store) : Woken(task_store.data[k], done)}
  IN  IF match = {} THEN NoKey
      ELSE CHOOSE k \in match : \A j \in match : j <= k

Reap ==
  LET process == process_store.data[iter]
      rest    == store_remove_at(process_store, iter)
  IN  /\ Completed
      /\ next_task(process.task_name) = NoKey
      /\ process_store' = rest
      /\ child' = waited(process.pid)
      /\ UNCHANGED task_store

\* Mutant: the queue is looked at before the slot is given back.
ReapChecksFirst ==
  LET process == process_store.data[iter]
      next    == next_task(process.task_name)
  IN  /\ Completed
      /\ next # NoKey
      /\ IF HasOpen(process_store)
         THEN /\ process_store' = store_remove_at(
                                    launched_store(process_store, task_store.data[next]), iter)
              /\ child' = Append(waited(process.pid), launched_child(task_store.data[next]))
              /\ task_store' = store_remove_at(task_store, next)
         ELSE /\ process_store' = store_remove_at(process_store, iter)
              /\ child' = waited(process.pid)
              /\ UNCHANGED task_store

ReapAndLaunch ==
  LET process == process_store.data[iter]
      rest    == store_remove_at(process_store, iter)
      next    == next_task(process.task_name)
  IN  /\ Completed
      /\ next # NoKey
      /\ Launch(rest, waited(process.pid), task_store.data[next])
      /\ task_store' = store_remove_at(task_store, next)

\* Mutant: the task is dropped when it cannot be started.
ReapDropsTask ==
  LET process == process_store.data[iter]
      rest    == store_remove_at(process_store, iter)
      next    == next_task(process.task_name)
  IN  /\ Completed
      /\ next # NoKey
      /\ LaunchFails(rest)
      /\ process_store' = rest
      /\ child' = waited(process.pid)
      /\ task_store' = store_remove_at(task_store, next)

\* The task stays in the store until another completion wakes it.
ReapLaunchFails ==
  LET process == process_store.data[iter]
      rest    == store_remove_at(process_store, iter)
  IN  /\ Completed
      /\ next_task(process.task_name) # NoKey
      /\ LaunchFails(rest)
      /\ process_store' = rest
      /\ child' = waited(process.pid)
      /\ UNCHANGED task_store

ProcessesDone ==
  /\ pc = "processes" /\ iter < 0
  /\ pc' = "select"
  /\ UNCHANGED <<workspace, task_store, process_store, client_stack, read_flags,
                 iter, client_vars, child, answer, asked>>

-----------------------------------------------------------------------------
ClientStep ==
  \E c \in Client :
    \/ SkipClient(c) \/ ClientClosed(c) \/ InvalidPacket(c)
    \/ TaskNotFound(c) \/ TaskQueued(c) \/ TaskLaunchFailed(c) \/ TaskStarted(c)
    \/ WorkspaceSet(c) \/ WorkspaceNotFound(c)

ServerStep ==
  \/ Select \/ SelectFails
  \/ NoIncoming \/ AcceptOverLimit \/ AcceptSetupFails \/ AcceptClient
  \/ ClientStep \/ ClientsDone
  \/ SkipProcess \/ Reap \/ ReapAndLaunch \/ ReapLaunchFails \/ ProcessesDone

Environment ==
  \/ \E c \in Client : Connect(c) \/ Send(c) \/ Leave(c)
  \/ \E p \in DOMAIN child : ChildExit(p) \/ ChildStop(p) \/ ChildContinue(p)

Next == ServerStep \/ Environment

Spec == Init /\ [][Next]_vars

-----------------------------------------------------------------------------
\* Fairness: the loop of run_as_server never blocks (select has a timeout, the
\* sockets and pipes are non-blocking, waitpid has WNOHANG), so the server keeps
\* taking steps; nothing is assumed of the clients.
FairSpec == Spec /\ WF_vars(ServerStep)

-----------------------------------------------------------------------------
\* Every variable keeps its type; in particular no index of a loop leaves the
\* arrays it is used on.
TypeOK ==
  /\ workspace \in Path \cup {NULL}
  /\ task_store \in StoreType(TASK_STORE_COUNT, Task)
  /\ process_store \in StoreType(PROCESS_STORE_COUNT, TaskProcess)
  /\ client_stack \in Seq(Client) /\ Len(client_stack) <= MAX_CLIENTS
  /\ read_flags \subseteq Client \cup {"listen"}
  /\ pc \in {"select", "incoming", "clients", "processes"}
  /\ iter \in -1 .. MAX_CLIENTS + PROCESS_STORE_COUNT
  /\ pc = "clients" => iter < Len(client_stack)
  /\ pc = "processes" => iter < PROCESS_STORE_COUNT
  /\ backlog \in Seq(Client)
  /\ sock \in [Client -> {"none", "backlog", "accepted", "closed", "refused", "leaked"}]
  /\ msg \in [Client -> Command \cup {NULL}]
  /\ left \subseteq Client
  /\ child \in Seq(Child)
  /\ answer \in [Client -> Verdict \cup {NULL}]
  /\ asked \in [Client -> Path \cup {NULL}]

\* Both stores of the server keep an exact free list through get_task's error
\* paths and through slots that are freed and taken again inside one pass.
StoresSound == FreeListExact(task_store) /\ FreeListExact(process_store)

\* The client stack holds exactly the sockets that were accepted and not closed, each
\* once, although it is reordered by stack_remove_at_fast while the client loop runs
\* over it.  (A socket whose options could not be set is open and in no stack.)
ClientStackSound ==
  /\ \A j, k \in 1 .. Len(client_stack) : client_stack[j] = client_stack[k] => j = k
  /\ Watched = {c \in Client : sock[c] = "accepted"}

\* When select and read work, the client loop has served every client that select
\* reported by the time it ends: reordering the stack makes it skip nobody.
PassServesAll ==
  ~ SYS_FAIL /\ pc = "processes" => read_flags \cap Watched = {}

\* A run request is in one place: a task that waits or a child, never both,
\* never twice; it is in neither unless the server said so, and a request
\* answered with "started" has its child.
RequestsAccounted ==
  /\ \A k, l \in UsedSlots(task_store) :
        task_store.data[k].owner = task_store.data[l].owner => k = l
  /\ \A p, q \in DOMAIN child : child[p].owner = child[q].owner => p = q
  /\ \A k \in UsedSlots(task_store), p \in DOMAIN child :
        task_store.data[k].owner # child[p].owner
  /\ \A c \in Client :
        answer[c] \in {"started", "queued", "failed"} <=>
          \/ \E k \in UsedSlots(task_store) : task_store.data[k].owner = c
          \/ \E p \in DOMAIN child : child[p].owner = c
  /\ \A c \in Client :
        answer[c] = "started" => \E p \in DOMAIN child : child[p].owner = c

\* What a request was answered about is what waits and what runs: the section
\* of the workspace that was active then, however long the task waits, whatever
\* used its slot before and whatever workspace is set meanwhile.
AsRequested(x) ==
  /\ msg[x.owner] = [type |-> "run", arg |-> x.name]
  /\ x.cmd = asked[x.owner]
  /\ Section[x.cmd][x.name].cmd
  /\ x.wait = Section[x.cmd][x.name].wait

RunsWhatWasAsked ==
  /\ \A k \in UsedSlots(task_store) : AsRequested(task_store.data[k])
  /\ \A p \in DOMAIN child : AsRequested(child[p])

\* The process store and the kernel agree: a used slot names a child that has
\* not been reaped, no two slots name the same one, and a child that was never
\* stopped stays in the store until it is reaped, so no zombie is forgotten.
ProcessesSound ==
  /\ \A k \in UsedSlots(process_store) :
        LET process == process_store.data[k]
        IN  /\ process.pid \in DOMAIN child
            /\ child[process.pid].st # "reaped"
            /\ child[process.pid].name = process.task_name
  /\ \A k, l \in UsedSlots(process_store) :
        process_store.data[k].pid = process_store.data[l].pid => k = l
  /\ \A p \in DOMAIN child :
        child[p].st # "reaped" /\ ~ child[p].held =>
          \E k \in UsedSlots(process_store) : process_store.data[k].pid = p

\* The names whose section waits for the name itself in every file that has it.
SelfWaiting ==
  {n \in Name : \A f \in Path : Section[f][n].cmd => Section[f][n].wait = n}

\* "'wait' on self means you can only run one instance at a time" (README.md), as
\* far as the children are concerned that were never stopped: a stopped one is
\* dropped from the store.
OneInstance ==
  \A n \in SelfWaiting :
    \A p, q \in {p \in DOMAIN child : child[p].name = n /\ Alive(p) /\ ~ child[p].held} :
      p = q

\* The process loop changes no slot but the one it stands on: a process that is
\* launched while slot i is reaped lands in slot i, so the loop never comes to a
\* child that it launched itself.  (It does come to the children that the client
\* loop of the same pass has launched.)
ReapTouchesOwnSlot ==
  [][pc = "processes" =>
       \A k \in Slot(PROCESS_STORE_COUNT) \ {iter} :
          /\ process_store'.used[k] = process_store.used[k]
          /\ process_store'.data[k] = process_store.data[k]]_vars

\* When pipe and fork work, reaping a child starts a task as soon as one waits
\* for it or for nothing: a freed slot is never left idle.
CompletionStartsWaiter ==
  [][\A p \in DOMAIN child :
       /\ ~ SYS_FAIL
       /\ child[p].st = "zombie" /\ child'[p].st = "reaped"
       /\ \E k \in UsedSlots(task_store) :
             task_store.data[k].wait \in {NULL, child[p].name}
       => Len(child') = Len(child) + 1]_vars

\* The job of a request: its task in the store, or else its child.
JobOf(c) ==
  IF \E k \in UsedSlots(task_store) : task_store.data[k].owner = c THEN "waiting"
  ELSE IF \E p \in DOMAIN child : child[p].owner = c /\ Alive(p) THEN "running"
  ELSE IF \E p \in DOMAIN child : child[p].owner = c THEN "ended"
  ELSE "none"

Promise == INSTANCE Jobs WITH
  Request <- Client, QUEUE_SIZE <- TASK_STORE_COUNT, job <- [c \in Client |-> JobOf(c)]

\* The agent keeps its promise: every step of its loop answers one request, starts
\* one waiting job or changes no job; no queued task is lost or started twice, and
\* no answer is taken back, also when launching fails.
ImplementsJobs == Promise!Spec

\* When accept and read work, every connection that sent its request or hung up is
\* disposed of, in the presence of idle and of refused clients.
RequestsSettled ==
  \A c \in Client :
    (sock[c] \in {"backlog", "accepted"} /\ HasInput(c))
      ~> sock[c] \in {"closed", "refused"}

\* A child that ended is reaped.
ZombiesReaped ==
  \A p \in 1 .. Cardinality(Client) :
    (p \in DOMAIN child /\ child[p].st = "zombie")
      ~> (p \in DOMAIN child /\ child[p].st = "reaped")

\* The tasks end: as long as some child is alive, sooner or later one ends.
ChildrenEnd == WF_vars(\E p \in DOMAIN child : ChildExit(p))

HasChild(c) == \E p \in DOMAIN child : child[p].owner = c

\* A task that was "put in queue" is started some day, if the tasks end.
QueuedEventuallyStarts ==
  ChildrenEnd => \A c \in Client : answer[c] = "queued" ~> HasChild(c)

\* Another task waits beside the one of c, the completion that c waits for may wake
\* it instead, and it will not run under the name that c waits for.
Outrun(c) ==
  \E k, l \in UsedSlots(task_store) :
    LET mine == task_store.data[k]  other == task_store.data[l]
    IN  /\ mine.owner = c /\ k # l
        /\ Woken(other, mine.wait)
        /\ other.name # mine.wait

\* One completion wakes one task, the first that server_check_task_queue meets.  A
\* task that was "put in queue" is started nevertheless, whatever else waits, unless
\* it is outrun at some time: tasks that wait for themselves pass the wake-up on.
QueuedStartsUnlessOutrun ==
  ChildrenEnd =>
    \A c \in Client : [](~ Outrun(c)) => (answer[c] = "queued" ~> HasChild(c))
=============================================================================
