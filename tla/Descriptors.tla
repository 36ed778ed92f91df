---------------------------- MODULE Descriptors -----------------------------
(***************************************************************************)
(* The descriptors of the agent of src/src/server.h: what accept, pipe and *)
(* close do to the kernel's table in one pass after another, while numbers *)
(* are given out again as soon as they are free and the flags of select    *)
(* stay what they were at the start of the pass.  Also the output of the   *)
(* children, which comes through two of the descriptors and goes to the    *)
(* log through the one input buffer that requests are read into as well.   *)
(*                                                                         *)
(* Which task a request or a completion starts is the subject of Server;   *)
(* here any of them may start one.                                         *)
(***************************************************************************)
EXTENDS StoreOps, StackOps, FiniteSets, FiniteSetsExt

CONSTANTS
  MAX_FD,                         \* the size of the kernel's table
  MAX_CLIENTS, PROCESS_STORE_COUNT, BUFFER_SIZE,
  MAX_CONNECTIONS, MAX_CHILDREN, MAX_WRITES,  \* bounds: clients, tasks, writes of a task
  Burst,                          \* bytes on stdout and on stderr in one write
  Message,                        \* lengths of requests
  SYS_FAIL                        \* may select, fcntl, pipe or fork fail?

ASSUME DescriptorAssumption ==
  /\ MAX_FD \in Nat /\ MAX_FD > 4
  /\ MAX_CLIENTS \in Nat \ {0} /\ PROCESS_STORE_COUNT \in Nat \ {0}
  /\ BUFFER_SIZE \in Nat \ {0}
  /\ MAX_CONNECTIONS \in Nat /\ MAX_CHILDREN \in Nat /\ MAX_WRITES \in Nat
  /\ Burst \subseteq Nat \X Nat /\ Message \subseteq 1 .. BUFFER_SIZE
  /\ SYS_FAIL \in BOOLEAN

VARIABLES
  fds,                            \* what every descriptor refers to
  client_stack, process_store, read_flags, pc, iter,
  backlog, connections,           \* clients not accepted yet, clients so far
  input,                          \* the sockets with something to read
  child,                          \* the children; the bytes in their pipes
  in_buf,                         \* the input buffer
  out_buf,                        \* the first byte of the output buffer, which lies behind it
  line,                           \* history: what the last print of this pass logged
  refused                         \* history: has a launch found too few descriptors?

log_vars == <<in_buf, out_buf, line>>
server_vars == <<fds, client_stack, process_store, read_flags, pc, iter, refused, log_vars>>
vars == <<server_vars, backlog, connections, input, child>>

-----------------------------------------------------------------------------
\* The table.  A new descriptor is the lowest free number.

\* Mutant: the read ends of the pipes are left blocking.
BlockingPipes(kind, id) == [kind |-> kind, id |-> id, nonblock |-> kind = "sock"]

\* Accepted sockets and the read ends of pipes are set non-blocking.
Object(kind, id) == [kind |-> kind, id |-> id, nonblock |-> kind \in {"sock", "out_r", "err_r"}]
Free == Object("free", 0)

Room(t) == {f \in DOMAIN t : t[f] = Free}
Opened(t, object) == [t EXCEPT ![Min(Room(t))] = object]
FdOf(t, object) == CHOOSE f \in DOMAIN t : t[f] = object
close(t, f) == [t EXCEPT ![f] = Free]

LISTEN == 3

-----------------------------------------------------------------------------
\* The buffers.  A byte is 0 or known by where it comes from.

NUL == <<"nul", 0>>
FromClient == <<"client", 0>>
FromAgent == <<"agent", 0>>
FromChild(stream, p) == <<stream, p>>

\* memset(buf, 0, n)
Zeroed(buf, n) == [k \in DOMAIN buf |-> IF k <= n THEN NUL ELSE buf[k]]

\* read(fd, buf, ...)
Filled(buf, bytes) == [k \in DOMAIN buf |-> IF k <= Len(bytes) THEN bytes[k] ELSE buf[k]]

\* A string ends at its first 0.
Zeros(s) == {k \in DOMAIN s : s[k] = NUL}
UpToZero(s) == IF Zeros(s) = {} THEN s ELSE SubSeq(s, 1, Min(Zeros(s)) - 1)

\* What "%s" prints of the input buffer.  When it has no 0 the line goes on with the
\* output buffer, where the length of an answer begins.
Shown(buf) == IF Zeros(buf) = {} /\ out_buf # NUL THEN Append(buf, out_buf) ELSE UpToZero(buf)

-----------------------------------------------------------------------------
Running(p) == child[p].st = "running"

NoProcess == [pid |-> 0, out_fd_r |-> 0, err_fd_r |-> 0]

Init ==
  /\ fds = [f \in 0 .. MAX_FD - 1 |->
              IF f < LISTEN THEN Object("std", f)
              ELSE IF f = LISTEN THEN Object("listen", 0) ELSE Free]
  /\ client_stack = <<>>
  /\ process_store = store_new(PROCESS_STORE_COUNT, NoProcess)
  /\ read_flags = {}
  /\ pc = "select" /\ iter = -1
  /\ backlog = 0 /\ connections = 0 /\ input = {}
  /\ child = <<>>
  /\ in_buf = [k \in 1 .. BUFFER_SIZE |-> NUL] /\ out_buf = NUL
  /\ line = {}
  /\ refused = FALSE

-----------------------------------------------------------------------------
\* The clients and the children.

Connect ==
  /\ connections < MAX_CONNECTIONS
  /\ backlog' = backlog + 1 /\ connections' = connections + 1
  /\ UNCHANGED <<server_vars, input, child>>

\* A request arrives, or the client hangs up.
Input(f) ==
  /\ fds[f].kind = "sock" /\ f \notin input
  /\ input' = input \cup {f}
  /\ UNCHANGED <<server_vars, backlog, connections, child>>

ChildWrites(p) ==
  /\ Running(p) /\ child[p].writes < MAX_WRITES
  /\ \E burst \in Burst :
       child' = [child EXCEPT ![p].out = @ + burst[1], ![p].err = @ + burst[2],
                              ![p].writes = @ + 1]
  /\ UNCHANGED <<server_vars, backlog, connections, input>>

\* It exits, or is stopped: waitpid will report it.
ChildEnds(p) ==
  /\ Running(p)
  /\ child' = [child EXCEPT ![p].st = "ended"]
  /\ UNCHANGED <<server_vars, backlog, connections, input>>

-----------------------------------------------------------------------------
\* connection_init_set and server_check_activity.

Process(k) == process_store.data[k]
ClientFds == {client_stack[j] : j \in 1 .. Len(client_stack)}
PipeFds == UNION {{Process(k).out_fd_r, Process(k).err_fd_r} : k \in UsedSlots(process_store)}

Readable(f) ==
  LET object == fds[f]
  IN  CASE object.kind = "listen" -> backlog > 0
        [] object.kind = "sock"   -> f \in input
        [] object.kind = "out_r"  -> child[object.id].out > 0
        [] object.kind = "err_r"  -> child[object.id].err > 0
        [] OTHER                  -> FALSE

Watched == {LISTEN} \cup ClientFds \cup PipeFds

\* Both buffers are cleared.  A failed select leaves the set as it was filled.
Select ==
  /\ pc = "select"
  /\ in_buf' = Zeroed(in_buf, BUFFER_SIZE) /\ out_buf' = NUL /\ line' = {}
  /\ read_flags' \in {{f \in Watched : Readable(f)}} \cup (IF SYS_FAIL THEN {Watched} ELSE {})
  /\ pc' = "incoming"
  /\ UNCHANGED <<fds, client_stack, process_store, iter, backlog, connections, input, child,
                 refused>>

-----------------------------------------------------------------------------
\* server_handle_incoming.

ToClients ==
  /\ pc = "incoming"
  /\ pc' = "clients"
  /\ iter' = Len(client_stack') - 1
  /\ UNCHANGED <<process_store, read_flags, connections, input, child, refused, log_vars>>

\* No flag, or accept fails: nobody is waiting, or the table is full.
NoIncoming ==
  /\ LISTEN \notin read_flags \/ backlog = 0 \/ Room(fds) = {}
  /\ UNCHANGED <<fds, client_stack, backlog>>
  /\ ToClients

Incoming == pc = "incoming" /\ LISTEN \in read_flags /\ backlog > 0 /\ Room(fds) # {}

Accept == backlog' = backlog - 1 /\ ToClients

\* Mutant: the surplus connection is left open.
OverLimitLeaks ==
  /\ Incoming
  /\ Len(client_stack) >= MAX_CLIENTS
  /\ fds' = Opened(fds, Object("surplus", 0))
  /\ UNCHANGED client_stack
  /\ Accept

\* The surplus connection is closed at once.
AcceptOverLimit ==
  /\ Incoming
  /\ Len(client_stack) >= MAX_CLIENTS
  /\ UNCHANGED <<fds, client_stack>>
  /\ Accept

\* The socket options cannot be set: the socket stays open and is forgotten.
AcceptSetupFails ==
  /\ SYS_FAIL
  /\ Incoming
  /\ Len(client_stack) < MAX_CLIENTS
  /\ fds' = Opened(fds, Object("lost", 0))
  /\ UNCHANGED client_stack
  /\ Accept

AcceptClient ==
  /\ Incoming
  /\ Len(client_stack) < MAX_CLIENTS
  /\ fds' = Opened(fds, Object("sock", 0))
  /\ client_stack' = stack_push(client_stack, MAX_CLIENTS, Min(Room(fds)))
  /\ Accept

-----------------------------------------------------------------------------
\* server_task_launch.

NextPid == Len(child) + 1

\* A pipe of the next child, or one that nobody will know of.
Piped(t, r, w) == Opened(Opened(t, r), w)
LostPipe(t) == Piped(t, Object("lost", 0), Object("lost", 0))

\* Both pipes.  The write ends stay open when the child has its own.
Pipes(t) ==
  Piped(Piped(t, Object("out_r", NextPid), Object("out_w", NextPid)),
        Object("err_r", NextPid), Object("err_w", NextPid))

Enough(t, n) == Cardinality(Room(t)) >= n

\* The tables that a failing call leaves: no pipe, one pipe, both pipes.
FailedTables(t) ==
     (IF SYS_FAIL \/ ~ Enough(t, 2) THEN {t} ELSE {})
  \cup (IF Enough(t, 2) /\ (SYS_FAIL \/ ~ Enough(t, 4)) THEN {LostPipe(t)} ELSE {})
  \cup (IF Enough(t, 4) /\ SYS_FAIL THEN {LostPipe(LostPipe(t))} ELSE {})

\* The launch succeeds on the given table, store and children.
Launch(t, store, children) ==
  /\ store.open_cnt >= 1 /\ Enough(t, 4)
  /\ Len(child) < MAX_CHILDREN
  /\ process_store' =
       written(store_push_empty(store, NoProcess), get_push_index(store),
               [pid      |-> NextPid,
                out_fd_r |-> FdOf(Pipes(t), Object("out_r", NextPid)),
                err_fd_r |-> FdOf(Pipes(t), Object("err_r", NextPid))])
  /\ child' = Append(children, [st |-> "running", out |-> 0, err |-> 0, writes |-> 0])
  /\ UNCHANGED refused

\* It fails and leaves the table after.
LaunchFails(t, store, after) ==
  /\ \/ store.open_cnt < 1 /\ after = t
     \/ store.open_cnt >= 1 /\ after \in FailedTables(t)
  /\ refused' = (refused \/ (store.open_cnt >= 1 /\ ~ Enough(t, 4)))

-----------------------------------------------------------------------------
\* The client loop.

AtClient(f) ==
  /\ pc = "clients" /\ iter >= 0
  /\ f = stack_get(client_stack, iter)

NextClient ==
  /\ iter' = iter - 1
  /\ UNCHANGED <<pc, read_flags, backlog, connections, line>>

\* FD_ISSET fails, or the read finds nothing.
SkipClient(f) ==
  /\ AtClient(f)
  /\ f \notin read_flags \/ ~ Readable(f)
  /\ NextClient
  /\ UNCHANGED <<fds, client_stack, process_store, input, child, refused, in_buf, out_buf>>

Request(f) == AtClient(f) /\ f \in read_flags /\ Readable(f)

\* The socket is closed and leaves the stack, with the table t before.
Dropped(f, t) ==
  /\ fds' = close(t, f)
  /\ input' = input \ {f}
  /\ client_stack' = stack_remove_at_fast(client_stack, iter)
  /\ NextClient

\* The read returns 0: the client hung up.
HangsUp(f) ==
  /\ Request(f)
  /\ Dropped(f, fds)
  /\ UNCHANGED <<process_store, child, refused, in_buf, out_buf>>

\* The request was read into the input buffer, and server_respond writes the answer
\* into the output buffer and closes the socket after the request has been dealt with.
Responded(f, t) ==
  /\ \E n \in Message : in_buf' = Filled(in_buf, [k \in 1 .. n |-> FromClient])
  /\ out_buf' = FromAgent
  /\ Dropped(f, t)

\* A request that starts nothing.
Dismiss(f) ==
  /\ Request(f)
  /\ Responded(f, fds)
  /\ UNCHANGED <<process_store, child, refused>>

RequestLaunches(f) ==
  /\ Request(f)
  /\ Launch(fds, process_store, child)
  /\ Responded(f, Pipes(fds))

RequestLaunchFails(f) ==
  /\ Request(f)
  /\ \E after \in {fds} \cup FailedTables(fds) :
       LaunchFails(fds, process_store, after) /\ Responded(f, after)
  /\ UNCHANGED <<process_store, child>>

\* Mutant: the loop starts one slot too high.
ClientsDoneHigh ==
  /\ pc = "clients" /\ iter < 0
  /\ pc' = "processes"
  /\ iter' = PROCESS_STORE_COUNT
  /\ UNCHANGED <<fds, client_stack, process_store, read_flags, backlog, connections, input, child,
                 refused, log_vars>>

\* Mutant: the loop starts one slot too low.
ClientsDoneLow ==
  /\ pc = "clients" /\ iter < 0
  /\ pc' = "processes"
  /\ iter' = PROCESS_STORE_COUNT - 2
  /\ UNCHANGED <<fds, client_stack, process_store, read_flags, backlog, connections, input, child,
                 refused, log_vars>>

ClientsDone ==
  /\ pc = "clients" /\ iter < 0
  /\ pc' = "processes"
  /\ iter' = PROCESS_STORE_COUNT - 1
  /\ UNCHANGED <<fds, client_stack, process_store, read_flags, backlog, connections, input, child,
                 refused, log_vars>>

-----------------------------------------------------------------------------
\* The process loop.

AtProcess ==
  /\ pc = "processes" /\ iter >= 0
  /\ UNCHANGED <<client_stack, read_flags, backlog, connections, input>>

NextProcess == iter' = iter - 1 /\ UNCHANGED pc

SkipProcess ==
  /\ AtProcess
  /\ ~ store_is_used(process_store, iter)
  /\ NextProcess
  /\ UNCHANGED <<fds, process_store, child, refused, log_vars>>

\* One read of server_process_print, as the number of bytes.
BytesRead(f, pending) == IF f \in read_flags THEN Min({pending, BUFFER_SIZE}) ELSE 0

\* A descriptor that is flagged, empty and not set non-blocking stops the server.
Stuck(f, pending) == f \in read_flags /\ pending = 0 /\ ~ fds[f].nonblock

\* What a read of n bytes may find in the pipe.
Output(stream, p, n) == [1 .. n -> {FromChild(stream, p), NUL}]

\* Mutant: what requests and earlier prints of the pass have left is not cleared.
UnclearedBuffer == in_buf

\* The buffer that the output of a child is read into.
PrintBuffer == Zeroed(in_buf, BUFFER_SIZE)

\* The buffer when stdout has been read into it and logged.
PrintedStdout(buf, text) == Zeroed(Filled(buf, text), Len(text))

Logged(buf, text) ==
  IF text = <<>> THEN {} ELSE {[read |-> text, shown |-> Shown(Filled(buf, text))]}

server_process_print ==
  LET process == Process(iter)
      data    == child[process.pid]
      n       == BytesRead(process.out_fd_r, data.out)
      m       == BytesRead(process.err_fd_r, data.err)
  IN  /\ AtProcess
      /\ store_is_used(process_store, iter)
      /\ Running(process.pid)
      /\ IF Stuck(process.out_fd_r, data.out) \/ Stuck(process.err_fd_r, data.err)
         THEN pc' = "blocked" /\ UNCHANGED <<iter, child, log_vars>>
         ELSE /\ NextProcess
              /\ child' = [child EXCEPT ![process.pid].out = @ - n,
                                        ![process.pid].err = @ - m]
              /\ \E out \in Output("out", process.pid, n), err \in Output("err", process.pid, m) :
                   LET between == PrintedStdout(PrintBuffer, out)
                   IN  /\ in_buf' = Filled(between, err)
                       /\ line' = Logged(PrintBuffer, out) \cup Logged(between, err)
              /\ UNCHANGED out_buf
      /\ UNCHANGED <<fds, process_store, refused>>

Completed ==
  /\ AtProcess
  /\ store_is_used(process_store, iter)
  /\ ~ Running(Process(iter).pid)
  /\ NextProcess
  /\ UNCHANGED log_vars

ClosesBoth(process) == close(close(fds, process.out_fd_r), process.err_fd_r)

Waited(p) == [child EXCEPT ![p] = [st |-> "reaped", out |-> 0, err |-> 0, writes |-> 0]]

Reap ==
  /\ Completed
  /\ fds' = ClosesBoth(Process(iter))
  /\ process_store' = store_remove_at(process_store, iter)
  /\ child' = Waited(Process(iter).pid)
  /\ UNCHANGED refused

\* Mutant: the pipes are closed after the queue was looked at.  The new process has
\* the same slot, so it is its descriptors that are closed.
ReapClosesLate ==
  /\ Completed
  /\ Launch(fds, store_remove_at(process_store, iter), Waited(Process(iter).pid))
  /\ fds' = close(close(Pipes(fds), process_store'.data[iter].out_fd_r),
                  process_store'.data[iter].err_fd_r)

ReapAndLaunch ==
  /\ Completed
  /\ Launch(ClosesBoth(Process(iter)), store_remove_at(process_store, iter),
            Waited(Process(iter).pid))
  /\ fds' = Pipes(ClosesBoth(Process(iter)))

ReapLaunchFails ==
  LET closed == ClosesBoth(Process(iter))
  IN  /\ Completed
      /\ process_store' = store_remove_at(process_store, iter)
      /\ \E after \in {closed} \cup FailedTables(closed) :
           LaunchFails(closed, process_store', after) /\ fds' = after
      /\ child' = Waited(Process(iter).pid)

ProcessesDone ==
  /\ pc = "processes" /\ iter < 0
  /\ pc' = "select"
  /\ UNCHANGED <<fds, client_stack, process_store, read_flags, iter, backlog, connections, input,
                 child, refused, log_vars>>

-----------------------------------------------------------------------------
ServerStep ==
  \/ Select
  \/ NoIncoming \/ AcceptOverLimit \/ AcceptSetupFails \/ AcceptClient
  \/ \E f \in DOMAIN fds :
       SkipClient(f) \/ HangsUp(f) \/ Dismiss(f) \/ RequestLaunches(f) \/ RequestLaunchFails(f)
  \/ ClientsDone
  \/ SkipProcess \/ server_process_print \/ Reap \/ ReapAndLaunch \/ ReapLaunchFails
  \/ ProcessesDone

Environment ==
  \/ Connect
  \/ \E f \in DOMAIN fds : Input(f)
  \/ \E p \in DOMAIN child : ChildWrites(p) \/ ChildEnds(p)

Next == ServerStep \/ Environment

Spec == Init /\ [][Next]_vars

\* The loop takes its steps: nothing in it waits for a client or a child.
FairSpec == Spec /\ WF_vars(ServerStep)

-----------------------------------------------------------------------------
\* The loops stay inside the stack and the store, and the descriptors that are
\* known are numbers of the table.
TypeOK ==
  /\ pc \in {"select", "incoming", "clients", "processes", "blocked"}
  /\ pc = "clients" => iter \in -1 .. Len(client_stack) - 1
  /\ pc = "processes" => iter \in -1 .. PROCESS_STORE_COUNT - 1
  /\ Len(client_stack) <= MAX_CLIENTS
  /\ Watched \cup read_flags \subseteq DOMAIN fds

\* The agent knows every socket and every read end that is open, and each is what
\* it takes it for: numbers that are closed and given out again inside a pass make
\* it close or read nothing of somebody else's.
DescriptorsSound ==
  /\ fds[LISTEN].kind = "listen" /\ \A f \in 0 .. 2 : fds[f].kind = "std"
  /\ {f \in DOMAIN fds : fds[f].kind = "sock"} = ClientFds
  /\ Cardinality(ClientFds) = Len(client_stack)
  /\ \A k \in UsedSlots(process_store) :
       /\ fds[Process(k).out_fd_r] = Object("out_r", Process(k).pid)
       /\ fds[Process(k).err_fd_r] = Object("err_r", Process(k).pid)
  /\ {f \in DOMAIN fds : fds[f].kind \in {"out_r", "err_r"}} = PipeFds

\* No read of a pipe blocks, although select's flags are stale for a pipe that got
\* the number of a socket closed in the same pass, and meaningless after an error.
NeverBlocks == pc # "blocked"

\* A launch fails for want of descriptors only when the table is really used up: by
\* the clients, two read ends per running child, two write ends per child ever run,
\* and what failing calls have lost.
LaunchesAfford ==
  [][~ refused /\ refused' =>
       4 + Len(client_stack) + 2 * Cardinality(UsedSlots(process_store'))
         + 2 * Len(child) + Cardinality({f \in DOMAIN fds : fds[f].kind = "lost"}) + 4
       > MAX_FD]_vars

\* A line of the log is the text that was read from that pipe, up to its first 0: no
\* request, no output of another child and no rest of a longer text shows in it,
\* although all of them are read into the same buffer in one pass.  Only behind a text
\* that fills the buffer a byte of the last answer of the pass may appear.
LinesExact ==
  \A l \in line :
    \/ l.shown = UpToZero(l.read)
    \/ Len(l.read) = BUFFER_SIZE /\ l.shown = Append(l.read, out_buf)

\* What a child has written is copied to the log while it runs on.
OutputDrained ==
  \A p \in 1 .. MAX_CHILDREN :
    (p \in DOMAIN child /\ child[p].out + child[p].err > 0)
      ~> (p \in DOMAIN child /\ (child[p].out + child[p].err = 0 \/ ~ Running(p)))
=============================================================================
