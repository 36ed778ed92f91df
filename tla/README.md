# A TLA+ model of dpatch

dpatch is a task runner: an agent (`dpatch`) listens on a port, and a client
(`dpatch run <task>`, `dpatch set <workspace>`) sends it one message per
connection. Tasks are the sections of an INI file, the workspace. The agent
forks a child per task, copies its output to the log, reaps it, and keeps the
tasks that must wait for a named process in a queue.

Paths below are relative to the repository (`src/server.h` is listed as
`src/src/server.h` in PROJECT.json).

## Inventory

| Part | State | Operations | What makes it correct |
|---|---|---|---|
| Slot store, `store.h` | slots with a used byte, the free list `open[0..open_cnt-1]` | push, push_empty, replace, remove_at, length, reset | the free list is exact; a bounded map to its callers |
| Client stack, `stack.h` | `count` items | push, pop, get, remove_at, remove_at_fast, reset | holds the open sockets, each once |
| Server, `server.h` | active workspace, task store, process store, client stack, descriptor set, the buffers and the token stream that all clients share | the loop: select, accept one connection, serve each readable client, wait for each process and look at the queue | see the runs |
| Client, `client.h` | one connection, or an inotify watch | connect, send, poll for the answer; again per event in watch mode | one answer per request, no growth in watch mode |
| Network helpers, `net.h` | socket, the two buffers, descriptor sets | connect or listen, non-blocking and timeout options | |
| Protocol, `protocol.h` | token stream, buffer | encode, decode, split into arguments and variables | decode after encode is the identity |
| INI parser, `ini.h` | parse mode, section, key, value across lines | parse a line, hand over a value | every value is handed over once, to its own section |
| Arena, `arena.h` | list of regions, locked or not | create, alloc, free | allocations do not overlap and stay inside a region |
| Configuration, `config.h`; entry point, `main.c`; log, `log.h` | flags and defaults | collect arguments, pick a mode | |

The server is one thread. It shares nothing with the clients but sockets, and
with the children but pipes and their exit status, so the difficulty is not in
locks: it is that clients and children act between any two iterations of the
server's loops, that both loops change the arrays they run over, that a slot
freed in an iteration is taken again in the same iteration, and that every
system call may fail half-way through a request. The list of hazards, each at
its line, is in PROJECT.json.

## Modules

| Module | Models |
|---|---|
| `StoreOps` | the functions of `store.h` as functions from store to store |
| `Store` | one store under every sequence of calls |
| `StoreMap` | what the store promises: a bounded map from keys to items |
| `StackOps` | the functions of `stack.h` that the server calls, on sequences |
| `Stack` | one stack under every sequence of calls, as array and header |
| `StackSeq` | what the stack promises: a bounded sequence, with the operators of `StackOps` |
| `Server` | `run_as_server` with its clients, its children and the kernel |
| `Jobs` | what the agent promises about a request: answered once, waiting, running, ended |
| `Descriptors` | the same loop seen from the kernel's descriptor table, and the output of the children |
| `Protocol` | the functions of `protocol.h` on bytes |
| `Arena` | the functions of `arena.h` as functions from arena to arena |
| `Exchange` | client programs (`client.h`, `config.h`) and the request side of the agent, byte by byte; composes `Protocol` and `Arena` |
| `Ini` | `ini_parse` with the handler that collects a task, and a reference reading of a file |
| `MCStore`, `MCStack`, `MCServer`, `MCDescriptors`, `MCExchange`, `MCIni` | values of the constants for TLC |
| `StructureLemmas` | what the store and stack operations preserve; facts about sequences and numbers |
| `StoreProofs` | the invariants of `Store`, and that it implements `StoreMap` |
| `StackProofs` | the type of `Stack`, and that it implements `StackSeq` |
| `ServerProofs` | types, stores, client stack and process store of `Server`; what becomes of a request, and that the server implements `Jobs` |
| `DescriptorProofs` | the safety properties of `Descriptors` |
| `ExchangeProofs` | the memory of a client program in `Exchange` |
| `WireProofs` | requests and answers through the shared streams and buffers of `Exchange` |
| `IniProofs` | which files the parser of `Ini` rejects, which entries it hands over and which task is collected from them |

The server appears three times because its state is three independent concerns:
which task runs and which waits (`Server`), which number in the descriptor table
is what (`Descriptors`), and what is in the shared buffers (`Exchange`). Each
module keeps the whole control flow of the loop for its concern and leaves the
decisions of the others open: in `Descriptors` any request and any completion may
start a task, in `Exchange` any request may succeed or fail. `Server` in turn
takes the result of the parser (`Ini`) and of the decoder (`Exchange`) as given.

### Store

A store is a record with the fields of `struct Store`; the byte array is split
into `used` and `data`. `store_remove_at` clears the byte and leaves the item in
place, as the code does: what a new tenant of the slot sees of the old one is
the business of `store_push_empty`, which zeroes. The part of `open` above
`open_cnt` keeps its stale contents. The variable `call` records the last call
with its arguments in `Store` and in `StoreMap` (and likewise in `Stack` and
`StackSeq`), so the refinement holds call by call: a removal may not pass for
the removal of another key.

### Stack

`Stack` keeps the cells that are not in use, because the functions zero some and
leave others, and the capacity as a field, because `stack_reset` may overwrite
it: its `memset` starts at the struct, so with three ints (12 bytes) it passes
the 8-byte count. `RESET_MAX` bounds the number of items on a stack that is reset; it
is 2 in the run, see the known deviations.

### Server

`pc` and `iter` say where `run_as_server` is: `"select"`, `"incoming"`
(`server_handle_incoming`), `"clients"` and `"processes"` (the two downward
loops, `iter` being the code's `i`). One action is one iteration. This is the
right grain: what a client or a child does during an iteration can be moved
before or after it, because an iteration looks at its client or at its child
once (one `read`, one `waitpid`).

| Action | Code |
|---|---|
| `Connect`, `Send`, `Leave` | `connection_init`, `send_cmd`, the timeout of `poll_response` (or a kill) |
| `ChildExit`, `ChildStop`, `ChildContinue` | the children (external) |
| `Select`, `SelectFails` | `connection_init_set`, `server_check_activity` |
| `NoIncoming`, `AcceptOverLimit`, `AcceptSetupFails`, `AcceptClient` | the outcomes of `server_handle_incoming` |
| `SkipClient`, `ClientClosed` | an iteration of the client loop without a packet: no flag, a failing read, a closed connection |
| `InvalidPacket`, `TaskNotFound`, `TaskQueued`, `TaskLaunchFailed`, `TaskStarted`, `WorkspaceSet`, `WorkspaceNotFound` | the branches of `server_eval_packet`, with `get_task`, `server_task_wait_match`, `server_task_launch` and `server_respond` inside |
| `ClientsDone`, `ProcessesDone` | the ends of the two loops |
| `SkipProcess` | an unused slot, or a child that runs on |
| `Reap`, `ReapAndLaunch`, `ReapLaunchFails` | the reaping branch with `server_check_task_queue`: nothing matches, a task is launched, a launch fails |

`SYS_FAIL` lets the calls of the server fail: `select`, `accept`, the socket options,
`read` (a reset connection, which stays on the stack), `pipe` and `fork`. The runs for
`PassServesAll` and the liveness properties leave it out, since a server whose calls
always fail serves nobody.

Abstractions: a message is its type and its first argument, or invalid (it does
not decode, or its type is unknown); a message arrives whole. The text of a task
is the workspace file it was read from, without the variables that `get_task` appends
to it, and opening that file fails exactly when it does not exist or the parser rejects it; the server begins with no workspace, or
in the state after an earlier client has set one (`BOOT`). The fields `owner`,
`held`, and the variables `answer` and `asked` record history and no action of
the server reads them to decide. What the INI parser hands over for a name in a
file is the constant `Section`: has it a command, and what does it wait on.
`strncmp(wait, done, strlen(done)) == 0` is the relation `PrefixOf`. A pid is the
index of the child in `child`: pids are not reused while the server may still
name them. `server_cleanup` is not reached, because nothing clears `running`;
`waitpid` does not fail, because the server waits only for children that it has
not reaped (`ProcessesSound`).

`Jobs` is the abstract specification. A request gets one answer; with it a job
begins to wait or to run, or there is none. A waiting job may start, a running one
may end, nothing else happens to it. `ImplementsJobs` maps a request to its task in
the store or else to its child. That a request answered "Failed to run task"
leaves a waiting job behind is what the code does, so `Jobs` allows it.

### Descriptors

`fds` is the kernel's table: `accept` and `pipe` take the lowest free number, as
POSIX says, so a number closed in the client loop is given to a pipe a moment later,
while `read_flags` is still what `select` reported for the socket. `child` holds the
number of bytes in each pipe. `in_buf` is the buffer that requests and the output of all
children are read into, byte by byte; a byte is 0 or known by its origin, a client or
a pipe of a child. `server_process_print` is one read per flagged pipe with the three
`memset`s of the code (one per pass, one per process, one behind stdout, of as many
bytes as were read), and a child may write bytes that are 0. A log line (`line`) is what
was read and what `%s` shows of the buffer, up to the first 0; when there is none the
string runs on into `out_buf`, the next block of the arena, which begins with the
length of the last answer. A request is a length out of `Message`. `FailedTables` is what each failing call of `server_task_launch` leaves open.
The write ends are never closed by the server, so they stay in the table. A stopped
child and an exited one look the same here.

### Exchange, Protocol, Arena

A client program begins with its words; `config_collect_args` and
`client_eval_cmds` turn them into a token stream, `protocol_send` into bytes. Words
and messages are real byte sequences, because every hazard here is about offsets:
the announced number of tokens, the terminator, the rest of an earlier message in
`in_buf`, the 4 bytes sent too many. `net` and `inq` are the bytes on their way and
arrived. One pass of the agent is `BeginPass` (buffers cleared, sockets flagged)
followed by a `Serve` for each flagged socket in any order. A watching client (`-w`)
goes through any number of rounds, until its memory is used up.

| Action | Code |
|---|---|
| `Change` | inotify has something to report (external) |
| `Command`, `CommandRejected`, `CommandFails` | one round of `poll_watch`, or `run_cmd` without `-w`: evaluate, connect, send |
| `Response`, `NoResponse`, `Timeout` | `poll_response` with an answer, with a closed connection, after `client_timeout_ms` |
| `Arrive` | the network delivers bytes, whole messages or (`SPLIT`) pieces |
| `Refuse` | the agent at its client limit |
| `BeginPass`, `Serve` | `connection_init_set` and `select`; an iteration of the client loop with `server_eval_packet` |

`Usage` says, by hand, what each command line asks for; it is the reference against
which the decoded request is compared. A line whose first two words are no command is
sent like any other, with type -1 (`NO_COMMAND`), and a command that is not
implemented ends the program (`Rejected`). `config_collect_args` keeps the positions
of `-w`, because the last one decides and at the end of the line it takes the NULL behind
`argv`, which is not watching; with `-h` the program ends before it sends anything, and
a `-p` at the end of the line gives `atoi` a NULL, which ends it too. `connection_init`
tests `in_buf` twice and `out_buf` never, so a program that has memory for one buffer
only may connect before it ends (`CommandFails`). Ints are four bytes with a sign. The second word of a client with one word is
`argv[0]`, because the arena is zeroed; it is taken to be no command word.

### Ini

One action is one line as `fgets` returns it; the cases are those of `parse_line` by
the first character. Blanks and tabs are one character. Positions and the value
buffer are kept exactly, because trimming and appending work on indices that may
fall below the start of a buffer; what is in the memory there is the parameter
`under`. The reference reading (`Entries`, `SectionOf`, `ValueOf`) is written from
the lines alone: an entry is a line with `=`, its section is the last header above
it, its value goes on through the indented lines below it.

## Runs

All bounds are in the `.cfg` files. The boundaries of the code are at its
capacities (stores, client limit, backlog, descriptor table, token array, arena
pages, buffers), so these are small and every run meets them full.

| Run | Shows |
|---|---|
| `store` | 3 slots, 3 items: exact free list, `store_length`, refinement of the bounded map |
| `stack` | 4 cells, 3 items, indices -1 to 4: the array implements `StackSeq` |
| `server_faults` | 3 clients, no workspace at first, failing system calls, one process, malformed messages, workspace replaced under the queue: `TypeOK`, `StoresSound`, `ClientStackSound`, `RequestsAccounted`, `RunsWhatWasAsked`, and the refinement `ImplementsJobs` |
| `server_waits` | 3 clients, two processes, no name a prefix of another, children that stop, also a run without a name and a workspace the parser rejects: `OneInstance`, `PassServesAll`, `ProcessesSound`, `CompletionStartsWaiter`, `ReapTouchesOwnSlot` |
| `server_fair` | 3 clients that may stay silent, room for two of them on the stack, for two processes and for two waiting tasks: `RequestsSettled`, `ZombiesReaped`, `QueuedStartsUnlessOutrun` |
| `server_queue_two` | the same stores: `QueuedEventuallyStarts` does not hold (finding) |
| `descriptors` | 13 descriptors, 3 connections, 2 children that write more than a buffer, also bytes that are 0, requests that fill the buffer, failing calls: `DescriptorsSound`, `NeverBlocks`, `LinesExact`, `LaunchesAfford`, `OutputDrained` |
| `exchange` | 2 client programs, seven command lines (one without a command, one with `-h`), 3 small pages: `RequestUnderstood`, `ArgsFit`, `AnswerHeard`, `BlocksDisjoint`, `MemoryLasts`, `ChangeReported` |
| `wire_stale`, `wire_split` | `RequestUnderstood` with environment variables, and with split messages (findings) |
| `ini` | every file of up to 4 lines out of 14 shapes: `HandsOverFile`, `RejectsStrayIndent`, `TaskIsSection` |
| `ini_comment` | the same with comments directly below entries (finding) |

Three clients are needed for a queue behind a running process with one more
request racing it, and for the reordering of the stack to move an unserved
client; with two stores of two slots a reaped slot is reused while another
process runs. Clients are interchangeable, so the safety runs of `Server` use their
permutations as symmetry; the liveness runs do not. In those no client hangs up
(`CAN_LEAVE`), which would multiply their states; the safety runs have clients that do. 13 descriptors are the four the
agent starts with, two sockets, two children's pipes (8) less one, so the table is full
at different points of a pass. Pages of 95 bytes are one byte short of
three buffers of 32, and what the start of the program leaves of the first page is an
exact fit for one of the command lines; 4 tokens are what the longest command line needs, so
one index too many is seen. Four lines are a header, an entry, a continuation and
a line that ends it. The deadlock check is off only where the program really ends:
`exchange`, `wire_stale`, `wire_split` (clients end) and `ini`, `ini_comment` (files end).

What `exchange` and `ini` restrict, and why: command lines without `-e` and messages
that arrive whole, because of the findings `wire_stale` and `wire_split`; files without
a comment directly below a value, because of `ini_comment`; and line shapes that avoid
the deviations of the parser listed below. In `server_waits` the names that are run
have no prefix of one another.

**Fairness.** `Server` and `Descriptors` assume only that the server takes its next
step: `select` has a timeout, client sockets and the read ends of pipes are
non-blocking (`NeverBlocks`) and `waitpid` has `WNOHANG`; `accept` on the listening
socket blocks at most for its receive timeout. Nothing is assumed of clients or
children. `QueuedStartsUnlessOutrun` has the premise that some child that can end does
(`ChildrenEnd`), which is a condition on the tasks and not on dpatch. It says when the
promise "put in queue" is kept, for more than one waiting task: `Outrun` holds when another task waits
that the completion of the awaited name may wake, and that is not itself of that
name. Such a task takes the only wake-up and gives none back, which is what
`server_queue_two` shows. If there is never one, the awaited name completes again: by the task
that was woken. `Exchange` assumes
that a client program that has something to do goes on (`Proceed`): each of its waits
is a `poll` with a timeout. Nothing is assumed of the network or the agent.

### Findings

1. A queued task may never start (`server_queue_two`). A completion launches one
   matching task; a second one that waits on the same name is left until the
   name completes again, which may be never.
2. `client_eval_cmds` counts its words twice, so every message announces tokens that
   it does not have, and the agent fills them from the rest of an earlier message of
   the same pass (`wire_stale`). Up to three words the phantom tokens do no harm
   (`RequestsAlwaysUnderstood`), and the arrays of `server_eval_packet` depend on them (`ArgsFit`).
3. A message that arrives in two pieces is taken for a whole one after the first
   (`wire_split`).
4. A comment directly below an entry damages the entry (`ini_comment`), in the
   README's own example too.

### Known deviations

Found while modelling, each kept in the model as the code has it, without a run of
its own:

- `server.h:308`: the match of a completed name is a prefix match, so `loop`
  finishing starts a second `looptest` (`PrefixOf`).
- `server.h:595`: with `WUNTRACED` a stopped child is taken for a finished one; when
  it ends later nobody reaps it (`OneInstance` and `ProcessesSound` are therefore
  about children that were never stopped).
- `server.h:357`: a task that the client was told failed stays in the task store and
  is run later (`Jobs` allows it).
- `server.h:308`: a waiting task is started on the first completion of the awaited
  name, while other processes of that name run.
- `stack.h:115`: `stack_reset` clears the header instead of the array; with three
  items or more the stack refuses every push afterwards. dpatch does not call it.
- `server.h:270`: two descriptors are lost per task that is run, and one or two pipes
  per launch that fails half-way (`LaunchesAfford` says it is no more than that).
- `server.h:489`: output that is in a pipe when its child is reaped is lost, and a
  read that fills the buffer is printed with what stands at the start of `out_buf`
  (`LinesExact` allows that and nothing else).
- `client.h:155`: a watching client ends after as many events as pairs of buffers fit
  its memory, about 63 with the default sizes (`MemoryLasts`).
- `client.h:107`: a connection that is refused because of the client limit counts as
  a success.
- `client.h:53`: an unknown command is sent. `client_eval_cmds` sets the type to -1 and
  tests whether it is negative, but `ProtocolMsgType` has no negative member and gcc
  makes it unsigned, so "Invalid command received" is never printed. The agent answers
  "Invalid command" (one of the command lines of `exchange`); a line of 17 words or more
  is written behind the client's token array before it is sent.
- `client.h:29`: the second word is looked up as a command too, so `run s` sets a
  workspace; `client.h:70`: a trailing `-e` takes `argv[0]` as its value; more than 15
  words behind the first overrun the 30 tokens, whether the first is a command or not.
- `ini.h:58`: a line of blanks inside a multi-line value shortens it; `cmd = ` with a
  trailing blank and nothing else takes the end of the value below its start; a file that ends in
  blanks without a newline loses its last value; a line of more than 511 characters is parsed as two;
  `copy_to_buf` does not compare the length of a name, key or value with its buffer.
- `config.h:139`: the file given with `-f` is stored and never read.

## Proofs

TLAPS proves, for every value of the constants that satisfies the assumptions in
the modules (positive sizes, `NULL` not a name and not an answer, sections of the
right shape, lines that end at their newline, three different reserved keys):

- `StoreProofs`: `TypeCorrect`, `FreeListAlwaysSound`, `LengthAlwaysCounts`, and
  `Refinement`, that the store implements `StoreMap`.
- `StackProofs`: `StackTypeCorrect`, and `StackImplementsSequence`, that the stack
  implements `StackSeq`.
- `ServerProofs`: `TypeCorrect`, `StoresAlwaysSound`, `ClientStackAlwaysSound`,
  `PassAlwaysServesAll`, `ProcessesAlwaysSound`, and the action properties
  `ReapsInPlace` and `CompletionAlwaysStartsWaiter`; and of requests,
  `RequestsAlwaysAccounted`, `AlwaysRunsWhatWasAsked`, `JobsImplemented` (the server
  implements `Jobs`) and `OneInstanceAlways`.
- `DescriptorProofs`: `DescriptorTypes`, `DescriptorsAlwaysSound`,
  `AgentNeverBlocks`, `LinesAlwaysExact` and the action property
  `LaunchesAlwaysAfford`: every safety property of `Descriptors`.
- `ExchangeProofs`: `BlocksAlwaysDisjoint` and `MemoryAlwaysLasts`.
- `WireProofs`: `RequestsAlwaysUnderstood`, `AnswersAlwaysHeard`, `StreamsAlwaysFit`
  (the type of `Exchange`) and `ArgsAlwaysFit`. With `ExchangeProofs`, these are all
  the safety properties of `Exchange`.
- `IniProofs`: `AlwaysRejectsStrayIndent`, `TypeCorrect`, `AlwaysHandsOverFile` and
  `TaskAlwaysSection`: every property of `Ini`.

Some theorems have a hypothesis of their own. Each is needed, and says where the
code stops doing what its readers expect:

| Theorem | Hypothesis | Without it |
|---|---|---|
| `StackImplementsSequence` | `RESET_MAX <= 2`: `stack_reset` finds at most two ints | its `memset` clears the capacity in the header |
| `OneInstanceAlways` | `WholeNames`: no other name is a prefix of a name that waits for itself | the completion of `loop` wakes a task that waits for `looptest`, and TLC finds two instances |
| `BlocksAlwaysDisjoint`, `MemoryAlwaysLasts` | `StartFits`: what `main` allocates before the first round fits the first page | an allocation at the start returns NULL and the program ends before it can send |
| the four of `WireProofs` | `PlainUsageOnly`: messages arrive whole; every line that is sent, with a command or without, has at most three words, does not end in `-e`, and fits the buffer; streams have four tokens or more; `Usage` says of it what the words say | with `-e` and a name there are four words, and TLC finds arguments of another client in the request (run `wire_stale`); a message in two pieces is read as two (run `wire_split`); a long line overruns the token array |
| `AlwaysRejectsStrayIndent` | `WholeLines`: every line fits the line buffer and holds no NUL; no comment behind a value | a long line is parsed in pieces; a comment leaves the parser in the middle of a value |
| the other three of `IniProofs` | `TidyLines`: `WholeLines`; no comment behind a value; a name, a value and an indented line have a character that is no blank (an empty name or value is allowed when nothing stands there); names, keys and values are shorter than their buffers, and a name or key fits the value buffer | the deviations listed for `ini.h` above: trimming blanks goes below the start of a buffer, long texts run over the end of one, a comment hands the entry over twice (run `ini_comment`) |

**The store.** Type correctness is not inductive: that `open_cnt` stays within
the capacity needs that a used slot leaves room in `open`, which is a counting
argument on the exact free list (`LengthExact`, a bijection between the live
part of `open` and the unused slots). So the invariant is the type together with
the free list, and every operation has a lemma for its effect and one for
soundness. The refinement maps the store to the function from its used slots to
their items, and each call to the same call of the map.

**The server.** The invariant adds two facts: a task in use has a name, a command
and an owner (`TasksFilled`), because it becomes a child when it is woken; and a
process in use names a forked child (`PidsKnown`), because `waitpid` is asked
about it. `GetTask` shows that `get_task` leaves the store as it found it on
every error path or adds one filled slot; `LaunchEffect`, `Reaped` and
`NextTask` do the same for launching, reaping and the scan of the queue. The
invariant is then shown in two halves, the loop with its indices (`LoopType`)
and the stores with the children (`StoreInv`), one lemma per group of actions.

**The process store and the children.** `ProcessesSound` is strengthened by one
fact: a child that is stopped is marked as having been stopped (`Agree`), because
a stopped child may leave the store without being reaped. Reaping keeps the
agreement because no two slots name the same pid, launching because the new pid is
named by no slot. `ReapsInPlace` rests on the free list being last in, first
out (`FreedIsNext`).

**The client stack.** `ClientStackSound` needs that the backlog, too, holds each
client at most once and exactly the clients whose socket is in it (`SocketInv`):
otherwise an accepted client might already be on the stack. `PassServesAll` needs
the part of the stack above the loop's index (`ServedInv`): nobody there is still
to be served, so the client that `stack_remove_at_fast` moves into the hole has
been served already; and that input, once reported, does not go away.

**Completions.** `CompletionAlwaysStartsWaiter` combines the scan of the queue,
which stops at the first task that matches, with the room that `store_remove_at`
has just made: between the two nothing can fail but a system call.

**Requests.** `ServerProofs` first shows that every step has one of six effects on
tasks, children and answers (`StepEffect`): nothing, a child ends, a request is
refused, kept or started, a waiting task is started. The invariant and the
refinement then go by effect and not by action. The strengthening is that an
answered client has a closed socket (`AnswersClose`): a client that the loop still
serves has no answer, hence no task and no child, and its request cannot enter the
stores a second time. The refinement maps each client to its job, which
`RequestsAccounted` makes well defined. `OneInstanceAlways` follows the process
store (`OneSlot`): a self-waiting task is launched only when no slot has its name,
or into the slot of the process of that name that was just removed.

**The stack.** The mapping reads the first `count` cells of the array. Each removal
has its own argument: `stack_remove_at` shifts, `stack_remove_at_fast` moves the
last item into the hole, and both must agree with the operators the server uses.

**The descriptors.** The invariant (`Owned`) accounts for the whole table: every
entry is a standard descriptor, the listening socket, a socket on the client stack,
a read end of exactly one slot, a write end of one of the children so far, lost, or
free. It is stated on a table, a stack, a store and a number of children, not on
the variables, because a completion closes two numbers and launches a task
into the same numbers within one step: the proof goes through the tables in between.
`LaunchesAlwaysAfford` then counts. A full table is the disjoint union of the sets
that `Owned` names, and each of them is no larger than what the bound counts for it.

`LinesAlwaysExact` needs no more about the buffer than that its cells hold bytes, for it
is cleared before every child is printed. The argument is about the two lines of one
child: after the first the cells up to its length are cleared again and the ones behind
have stayed 0, so the second text is followed by a 0 or by the end of the buffer
(`BufferInv`).

**The memory of a client.** For `BlocksDisjoint` the invariant says that every
block ends at or below the fill of its region (`Placed`), and blocks in the same
region lie in the order of their allocation. `MemoryLasts` needs more: first fit
fills the pages in order, so after `n` buffers there is one page that is being
filled, the ones before hold as many as fit and the ones behind hold none
(`Filled`). The rest is the arithmetic of whole buffers per page.

**The wire.** The loops of `protocol.h` and `client.h` are recursive functions of the
number of tokens. TLAPS gives no value for such a function by itself, so each loop has a
lemma that says it is well defined (`ReadDefined`, `WriteDefined`, `AddDefined`,
`ParseDefined`), and what it computes is shown by induction. The library's induction
theorems cannot be used (they take an operator), so `Induction` of `StructureLemmas` states
the principle for sets of numbers and proves it from the least element. On that rest three facts about
`protocol.h` for every stream and buffer: a buffer that starts with a message is read
back as that message, whatever is behind it (`ReadBack`); a stream whose first tokens are
empty is sent as the other tokens and a length that counts all of them (`SendIs`,
`LoopWrites`); and the receiver then sees up to two empty tokens at the end, because
`protocol_send` adds four bytes that it never wrote, which are 0 in a cleared buffer
(`SentHolds`). `client_eval_cmds` leaves as many empty tokens as there are words behind
the command (`EvalEvaluates`). So three words are the most for which the four bytes
hide the wrong length, and that is where the hypothesis stops. The invariant (`WireInv`)
then says, for each client: what is under way on its connection is the message of its
own command line, on one side of the socket only (`Underway`); a reply that is
under way is what the agent told it (`Answered`); and the cells of its stream that
the next evaluation skips are empty, although an answer has been read into the same
stream in between (`Clean`): an answer has one token, the reset clears it, and the next
message is evaluated into what is left. That `PlainUsageOnly` is satisfiable is
checked by TLC on the command lines of the run `exchange` (`PlainUsageIsPlain`).

**The parser.** Which files are rejected needs only the mode: the parser is in the
middle of a value exactly when the lines end in an entry with its indented lines
(`InEntry`), except behind a last line of blanks without a newline, after which
nothing is read (`Inv`). The scans are shown to stop at the NUL of the line just read
(`ScanStops`), so that nothing of an earlier line behind it is found.

What is handed over needs the buffers (`ReadInv`). `Written(buf, size, v)` says that the
C string at the start of an array is `v`; trimming and `copy_to_buf` are shown to write
exactly the trimmed text (`NameCopied`, `KeyCopied`, `FirstPartCopied`, `CopyStart`), and
an indented line to add its text behind a newline at the position the last call left
(`PartCopied`, `CopyJoins`). The reference reading is by recursive functions of the number of
lines. Each is shown to be well defined, as the loops of the wire are, and then how one
more line changes it: a line that is not indented leaves every entry as it is
(`EntryKept`, `EntriesAppend`), an indented one makes the last value longer
(`EntryLonger`). So between two lines the section buffer holds the section of the next
line, and behind an entry on line `p` the other buffers hold its key and its value so
far while the handler has seen the entries before `p` (`Collecting`). The task is a
function of the entries that were handed over (`TaskOf`, `HandlerCollects`). TLC checks
that the lines of the run `ini` satisfy `TidyLines` (`PlainLinesAreTidy`).

TLC checked each of the inductive invariants on the instances of the runs before
it was proved.

**Only model-checked**: the liveness properties (`RequestsSettled`, `ZombiesReaped`,
`QueuedStartsUnlessOutrun`, `OutputDrained`, `ChangeReported`), which are out of the
prover's reach, and the violations. Every invariant and every safety action property
that a passing run checks is also a theorem.

## Not modelled

- `log.h`: formatting and writing of lines. Nothing reads them back.
- `main.c` beyond the arena and the choice of the client: the signal
  handlers, the empty `daemonize`, the help text. SIGINT and SIGTERM end the process. A
  write to a client that is gone raises SIGPIPE, which is caught; with `-std=c99`
  `signal` installs a handler for one signal only, so a second one would end the agent.
- `server_cleanup`, `socket_read`: no path reaches them. `arena_free`, `store_free`:
  called when the program ends.
- The size limits of a task's text (`task_buf_size`, `task_name_size`, 30 variables),
  which the code does not check: the text of a task is abstract in `Server`.
- Negative indices of `store.h`: they would pass `idx >= capacity` and write below the
  arrays. Every caller passes a key of `store_push_empty` or a loop index. (`stack.h`
  compares as `size_t`, and `Stack` tries -1.)
- Reads of client sockets that block: a socket is only on the client stack when it was
  set non-blocking. `NeverBlocks` is about the pipes, where a number may be stale.
- The variables of a request inside the agent: `get_task` copies them to the task, where
  only the child reads them.
