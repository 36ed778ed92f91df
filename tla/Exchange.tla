------------------------------ MODULE Exchange ------------------------------
(***************************************************************************)
(* Client programs (src/src/client.h) and the request side of the agent    *)
(* (src/src/server.h), byte by byte: a client turns its command line into  *)
(* a token stream, writes it into a buffer of its arena and sends it; the  *)
(* agent reads it into the one input buffer that all clients of a pass     *)
(* share, decodes it, and answers through the one output buffer.           *)
(*                                                                         *)
(* A watching client (-w) does this again whenever its directory changes.  *)
(* What the agent does with a request is the subject of Server.            *)
(***************************************************************************)
EXTENDS Protocol, Arena, FiniteSets

CONSTANTS
  Client,                 \* running client programs
  Usage,                  \* what a command line asks for, by its words behind argv[0]
  NULL,
  BUF_SIZE, TOKEN_COUNT,
  PAGE_SIZE, PAGE_COUNT, CONFIG_SIZE, STREAM_SIZE,
  SPLIT                   \* may the network deliver a message in pieces?

ASSUME ExchangeAssumption ==
  /\ BUF_SIZE \in Nat \ {0}
  /\ TOKEN_COUNT \in Nat \ {0} /\ TOKEN_COUNT <= INT_MAX
  /\ PAGE_SIZE \in Nat \ {0} /\ PAGE_COUNT \in Nat \ {0}
  /\ CONFIG_SIZE \in Nat /\ STREAM_SIZE \in Nat
  /\ SPLIT \in BOOLEAN

VARIABLES
  argv, config,           \* a client program: its words, what they say
  stream, arena,          \* its token stream, its memory
  blocks,                 \* the memory it was given, as pointers and sizes
  pc,                     \* "idle", "waiting" for the answer, "ended", "starved"
  events,                 \* has inotify something to report?
  conn,                   \* its connection: "none", "open", "closed" by the agent
  net, inq, reply,        \* bytes on their way, bytes arrived, bytes of the answer
  in_buf, out_buf,        \* the agent's Connection
  token_stream, flagged,  \* its token stream, the sockets its pass still has to read
  got, told, heard,       \* history: the request decoded, the answer given and printed
  sent                    \* history: the number of commands sent

program == <<argv, config, stream, arena, blocks, pc, events, heard, sent>>
agent == <<in_buf, out_buf, token_stream, flagged, got, told>>
wire == <<conn, net, inq, reply>>
vars == <<program, agent, wire>>

-----------------------------------------------------------------------------
\* config_collect_args: the words that are no options, the positions of -w, and
\* whether the program ends before it does anything: -h prints the help, and -p at
\* the end of the line gives atoi a NULL.

ARG_HELP == <<45, 104>>                                             \* -h
ARG_PORT == <<45, 112>>                                             \* -p
ARG_WATCH_PATH == <<45, 119>>                                       \* -w
Flags == {ARG_HELP, <<45, 100>>, <<45, 113>>}                       \* -d -q
ValueOptions == {ARG_PORT, ARG_WATCH_PATH, <<45, 102>>, <<45, 108>>}  \* -f -l

HasOption(w, options) == Len(w) >= 2 /\ SubSeq(w, 1, 2) \in options

config_collect_args(words) ==
  LET from[i \in 1 .. Len(words) + 2] ==
        IF i > Len(words) THEN [args |-> <<>>, watch |-> {}, stops |-> FALSE]
        ELSE IF HasOption(words[i], Flags)
             THEN [from[i + 1] EXCEPT !.stops = @ \/ HasOption(words[i], {ARG_HELP})]
        ELSE IF HasOption(words[i], ValueOptions)
             THEN [from[i + 2] EXCEPT
                     !.watch = IF HasOption(words[i], {ARG_WATCH_PATH}) THEN @ \cup {i} ELSE @,
                     !.stops = @ \/ (HasOption(words[i], {ARG_PORT}) /\ i = Len(words))]
        ELSE [from[i + 1] EXCEPT !.args = <<words[i]>> \o @]
  IN  from[1]

\* Without a word that is no option the program is the agent.
ASSUME UsageAssumption == \A words \in DOMAIN Usage : config_collect_args(words).args # <<>>

Words(c) == config[c].args

\* The last -w decides, and at the end of the line it names no directory.
Watching(c) == config[c].watch # {} /\ Len(argv[c]) \notin config[c].watch

-----------------------------------------------------------------------------
\* client_eval_cmds.

RunWords == {<<114, 117, 110>>, <<114>>}
SetWords == {<<115, 101, 116>>, <<115>>}
InfoWords ==
  { <<119, 111, 114, 107, 115, 112, 97, 99, 101>>, <<119, 115>>, <<119>>,
    <<116, 97, 115, 107>>, <<116>>,
    <<112, 114, 111, 99, 101, 115, 115>>, <<112, 114, 111, 99>>, <<112>> }
EnvWord == <<45, 101>>                                              \* -e

\* The first two words are looked at, and the later one decides.
FirstTwo(words) == {j \in 1 .. 2 : j <= Len(words)}
Commands(words) == {j \in FirstTwo(words) : words[j] \in RunWords \cup SetWords}

\* A command line without a command is not rejected: the test of the type against 0
\* is never true.
Rejected(words) == words = <<>> \/ \E j \in FirstTwo(words) : words[j] \in InfoWords

MsgType(words) ==
  IF Commands(words) = {} THEN NO_COMMAND
  ELSE IF words[Max(Commands(words))] \in RunWords THEN MSG_TASK_RUN
  ELSE MSG_WORKSPACE_SET

\* The tokens of the words behind the command.
Tokens(words) ==
  LET from[i \in 2 .. Len(words) + 2] ==
        IF i > Len(words) THEN <<>>
        ELSE IF words[i] = EnvWord
             THEN <<[type |-> TOKEN_VAR, value |-> words[i + 1]]>> \o from[i + 2]
        ELSE <<[type |-> TOKEN_ARG, value |-> words[i]]>> \o from[i + 1]
  IN  IF words = <<>> THEN <<>> ELSE from[2]

AddTokens(s, tokens) ==
  LET added[i \in 0 .. Len(tokens)] ==
        IF i = 0 THEN s
        ELSE protocol_tokenstream_add_token(added[i - 1], tokens[i].type, tokens[i].value)
  IN  added[Len(tokens)]

\* Mutant: the tokens are counted once.
EvalCountsOnce(words, s) ==
  AddTokens([s EXCEPT !.type = MsgType(words), !.length = 0], Tokens(words))

\* The length is set before the tokens are added behind it, so that the message
\* counts one empty token for every word behind the command.
client_eval_cmds(words, s) ==
  AddTokens([s EXCEPT !.type = MsgType(words), !.length = Len(words) - 1], Tokens(words))

-----------------------------------------------------------------------------
\* The memory of a client program: the configuration, its argument indices and
\* the token stream at the start, then two buffers for every connection.

SizeofIndex == 4

Allocated(m, size) ==
  LET r == arena_alloc(m.arena, size)
  IN  [arena |-> r.arena, blocks |-> Append(m.blocks, [ptr |-> r.ptr, size |-> size])]

StartMemory(words) ==
  LET none == [arena |-> arena_init(PAGE_SIZE, PAGE_COUNT, TRUE), blocks |-> <<>>]
      args == SizeofIndex * (Len(words) + 1)
  IN  Allocated(Allocated(Allocated(none, CONFIG_SIZE), args), STREAM_SIZE)

ConnectionMemory(c) ==
  Allocated(Allocated([arena |-> arena[c], blocks |-> blocks[c]], BUF_SIZE), BUF_SIZE)

\* in_buf or out_buf is NULL.
OutOfMemory(memory) ==
  \E j \in Len(memory.blocks) - 1 .. Len(memory.blocks) :
    memory.blocks[j].ptr = NoPointer

\* The code tests in_buf twice and out_buf never: without out_buf the program connects,
\* and then protocol_tokenstream_to_buf refuses to write and nothing is sent.
Connects(memory) == memory.blocks[Len(memory.blocks) - 1].ptr # NoPointer

ZeroBuf == [k \in 1 .. BUF_SIZE |-> 0]

-----------------------------------------------------------------------------
Init ==
  /\ argv \in [Client -> DOMAIN Usage]
  /\ config = [c \in Client |-> config_collect_args(argv[c])]
  /\ stream = [c \in Client |-> protocol_tokenstream_alloc(TOKEN_COUNT)]
  /\ arena = [c \in Client |-> StartMemory(argv[c]).arena]
  /\ blocks = [c \in Client |-> StartMemory(argv[c]).blocks]
  /\ pc = [c \in Client |-> IF config[c].stops THEN "ended" ELSE "idle"]
  /\ events = [c \in Client |-> ~ Watching(c)]
  /\ conn = [c \in Client |-> "none"]
  /\ net = [c \in Client |-> <<>>]
  /\ inq = [c \in Client |-> <<>>]
  /\ reply = [c \in Client |-> <<>>]
  /\ in_buf = ZeroBuf /\ out_buf = ZeroBuf
  /\ token_stream = protocol_tokenstream_alloc(TOKEN_COUNT)
  /\ flagged = {}
  /\ got = [c \in Client |-> NULL]
  /\ told = [c \in Client |-> NULL]
  /\ heard = [c \in Client |-> NULL]
  /\ sent = [c \in Client |-> 0]

-----------------------------------------------------------------------------
\* The client program: poll_watch and run_cmd.

\* Something in the watched directory is modified, created or deleted.
Change(c) ==
  /\ Watching(c) /\ pc[c] \in {"idle", "waiting"}
  /\ ~ events[c]
  /\ events' = [events EXCEPT ![c] = TRUE]
  /\ UNCHANGED <<argv, config, stream, arena, blocks, pc, heard, sent, agent, wire>>

\* The start of a round: all events are read before the command is evaluated.
Round(c) ==
  /\ pc[c] = "idle" /\ events[c]
  /\ events' = [events EXCEPT ![c] = FALSE]
  /\ UNCHANGED <<argv, config>>

CommandRejected(c) ==
  /\ Round(c)
  /\ Rejected(Words(c))
  /\ pc' = [pc EXCEPT ![c] = "ended"]
  /\ UNCHANGED <<stream, arena, blocks, heard, sent, agent, wire>>

\* connection_init or send_cmd fails and the program ends: no socket, no memory, no
\* agent to connect to, or nothing that could be sent when the connection is there.
CommandFails(c) ==
  /\ Round(c)
  /\ ~ Rejected(Words(c))
  /\ \E memory \in {ConnectionMemory(c)} :
       /\ pc' = [pc EXCEPT ![c] = IF OutOfMemory(memory) THEN "starved" ELSE "ended"]
       /\ \/ conn' = conn
          \/ Connects(memory) /\ conn' = [conn EXCEPT ![c] = "open"]
  /\ heard' = [heard EXCEPT ![c] = NULL]
  /\ UNCHANGED <<stream, arena, blocks, sent, agent, net, inq, reply>>

Command(c) ==
  /\ Round(c)
  /\ ~ Rejected(Words(c))
  /\ pc' = [pc EXCEPT ![c] = "waiting"]
  /\ \E memory \in {ConnectionMemory(c)} :
       /\ ~ OutOfMemory(memory)
       /\ arena' = [arena EXCEPT ![c] = memory.arena]
       /\ blocks' = [blocks EXCEPT ![c] = memory.blocks]
  /\ \E s \in {client_eval_cmds(Words(c), protocol_tokenstream_reset(stream[c]))} :
       /\ stream' = [stream EXCEPT ![c] = s]
       /\ \E out \in {protocol_send(s, ZeroBuf)} : net' = [net EXCEPT ![c] = out.bytes]
  /\ conn' = [conn EXCEPT ![c] = "open"]
  /\ sent' = [sent EXCEPT ![c] = @ + 1]
  /\ heard' = [heard EXCEPT ![c] = NULL]
  /\ told' = [told EXCEPT ![c] = NULL]
  /\ UNCHANGED <<inq, reply, in_buf, out_buf, token_stream, flagged, got>>

Closed(c) ==
  /\ conn' = [conn EXCEPT ![c] = "none"]
  /\ reply' = [reply EXCEPT ![c] = <<>>]
  /\ UNCHANGED <<net, inq>>

\* poll_response returns 0: a watching client goes on, any other is done.
NextRound(c) == pc' = [pc EXCEPT ![c] = IF Watching(c) THEN "idle" ELSE "ended"]

\* The type decides between "Success" and "Error", the first token is the text.
Printed(s) == [type |-> s.type, text |-> s.tokens[0].value]

\* Mutant: what happened while the command was under way is thrown away.
ResponseDrains(c) ==
  /\ pc[c] = "waiting" /\ reply[c] # <<>>
  /\ NextRound(c) /\ Closed(c)
  /\ \E read \in {protocol_read(Overwritten(ZeroBuf, reply[c]), stream[c])} :
       /\ stream' = [stream EXCEPT ![c] = read.stream]
       /\ heard' = [heard EXCEPT ![c] = IF read.ok THEN Printed(read.stream) ELSE NULL]
  /\ events' = [events EXCEPT ![c] = FALSE]
  /\ UNCHANGED <<argv, config, arena, blocks, sent, agent>>

Response(c) ==
  /\ pc[c] = "waiting" /\ reply[c] # <<>>
  /\ NextRound(c) /\ Closed(c)
  /\ \E read \in {protocol_read(Overwritten(ZeroBuf, reply[c]), stream[c])} :
       /\ stream' = [stream EXCEPT ![c] = read.stream]
       /\ heard' = [heard EXCEPT ![c] = IF read.ok THEN Printed(read.stream) ELSE NULL]
  /\ UNCHANGED <<argv, config, arena, blocks, events, sent, agent>>

\* The agent closed the connection without an answer: the read returns 0 and the
\* program goes on as if it had one.
NoResponse(c) ==
  /\ pc[c] = "waiting" /\ conn[c] = "closed" /\ reply[c] = <<>>
  /\ NextRound(c) /\ Closed(c)
  /\ UNCHANGED <<argv, config, stream, arena, blocks, events, heard, sent, agent>>

\* poll returns 0 after client_timeout_ms, and the program ends; what it sent
\* stays on its way.
Timeout(c) ==
  /\ pc[c] = "waiting" /\ conn[c] = "open"
  /\ pc' = [pc EXCEPT ![c] = "ended"]
  /\ UNCHANGED <<argv, config, stream, arena, blocks, events, heard, sent, agent, wire>>

-----------------------------------------------------------------------------
\* The network.

Arrive(c) ==
  /\ net[c] # <<>>
  /\ \E k \in IF SPLIT THEN 1 .. Len(net[c]) ELSE {Len(net[c])} :
       /\ inq' = [inq EXCEPT ![c] = @ \o SubSeq(net[c], 1, k)]
       /\ net' = [net EXCEPT ![c] = SubSeq(@, k + 1, Len(@))]
  /\ UNCHANGED <<program, agent, conn, reply>>

-----------------------------------------------------------------------------
\* The agent.

HungUp(c) ==
  /\ conn' = [conn EXCEPT ![c] = "closed"]
  /\ net' = [net EXCEPT ![c] = <<>>]
  /\ inq' = [inq EXCEPT ![c] = <<>>]

\* The client limit is reached when the connection is taken from the backlog.
Refuse(c) ==
  /\ conn[c] = "open" /\ c \notin flagged
  /\ HungUp(c)
  /\ UNCHANGED <<program, agent, reply>>

\* connection_init_set and select.  The passes without input leave no trace that
\* a later one could see.
BeginPass ==
  /\ flagged = {}
  /\ flagged' = {c \in Client : inq[c] # <<>>}
  /\ flagged' # {}
  /\ in_buf' = ZeroBuf /\ out_buf' = ZeroBuf
  /\ UNCHANGED <<program, token_stream, got, told, wire>>

\* What the agent says: about the thing the request names, or "Invalid command".
InvalidText == <<73>>

Known(request) ==
  /\ request # NULL
  /\ request.type \in {MSG_TASK_RUN, MSG_WORKSPACE_SET} /\ request.args # <<>>

AnswerText(request) == IF Known(request) THEN request.args[1] ELSE InvalidText

\* server_send.
AnswerStream(s, type, text) ==
  protocol_tokenstream_add_token(
    [protocol_tokenstream_reset(s) EXCEPT !.type = type], TOKEN_ARG, text)

Request(s) ==
  LET parsed == protocol_parse_token_stream(s)
  IN  [type |-> s.type, args |-> parsed.args, vars |-> parsed.vars, cells |-> s.length]

\* The client loop at the socket of c, server_eval_packet and server_respond.
Serve(c) ==
  LET filled  == Overwritten(in_buf, inq[c])
      read    == protocol_read(filled, token_stream)
      request == IF read.ok THEN Request(read.stream) ELSE NULL
  IN  /\ c \in flagged
      /\ flagged' = flagged \ {c}
      /\ in_buf' = filled
      /\ got' = [got EXCEPT ![c] = IF read.ok THEN request ELSE [type |-> MSG_ERR]]
      /\ \E type \in {MSG_ERR} \cup (IF Known(request) THEN {MSG_SUCCESS} ELSE {}) :
           LET answer == AnswerStream(read.stream, type, AnswerText(request))
               out    == protocol_send(answer, out_buf)
           IN  /\ token_stream' = answer
               /\ out_buf' = out.buf
               /\ told' = [told EXCEPT ![c] = [type |-> type, text |-> AnswerText(request)]]
               /\ reply' = [reply EXCEPT ![c] = IF pc[c] = "waiting" THEN out.bytes ELSE <<>>]
      /\ HungUp(c)
      /\ UNCHANGED program

-----------------------------------------------------------------------------
ClientProgram(c) ==
  Timeout(c) \/ NoResponse(c) \/ Response(c)
    \/ CommandRejected(c) \/ CommandFails(c) \/ Command(c)

Next ==
  \/ \E c \in Client : Change(c) \/ ClientProgram(c) \/ Arrive(c) \/ Refuse(c) \/ Serve(c)
  \/ BeginPass

Spec == Init /\ [][Next]_vars

\* A client program never blocks for ever, because poll has a timeout wherever it
\* waits: when it has something to do its pc moves on.  Only ClientProgram(c) moves
\* pc[c], every step of it does, and one is possible whenever Proceed(c) is.
Proceed(c) ==
  /\ pc[c] = "waiting" \/ (pc[c] = "idle" /\ events[c])
  /\ \E v \in {"idle", "waiting", "ended", "starved"} \ {pc[c]} : pc' = [pc EXCEPT ![c] = v]

FairSpec == Spec /\ \A c \in Client : WF_pc(Proceed(c))

-----------------------------------------------------------------------------
\* No token is written behind the last token of a stream, on either side, in any
\* round.
TypeOK ==
  /\ \A c \in Client : stream[c].length \in 0 .. TOKEN_COUNT
  /\ token_stream.length \in 0 .. TOKEN_COUNT
  /\ pc \in [Client -> {"idle", "waiting", "ended", "starved"}]
  /\ conn \in [Client -> {"none", "open", "closed"}]
  /\ flagged \subseteq Client

\* The agent decodes what the command line says, in every round and whichever
\* messages and answers went through the shared buffers and streams before.
RequestUnderstood ==
  \A c \in Client :
    got[c] # NULL =>
      /\ got[c].type = Usage[argv[c]].type
      /\ got[c].type # MSG_ERR =>
           got[c].args = Usage[argv[c]].args /\ got[c].vars = Usage[argv[c]].vars

\* server_eval_packet gives args and vars as many cells as the message has tokens,
\* and protocol_parse_token_stream ends each with one NULL more than it has
\* entries: that fits because the client counts more tokens than it sends.
ArgsFit ==
  \A c \in Client :
    got[c] # NULL /\ got[c].type # MSG_ERR =>
      Len(got[c].args) < got[c].cells /\ Len(got[c].vars) < got[c].cells

\* The answer a client prints is the one the agent gave to it in this round, not
\* mixed with an answer to another client of the pass.
AnswerHeard == \A c \in Client : heard[c] # NULL => heard[c] = told[c]

\* The blocks a client program got lie inside their region and do not overlap, up
\* to the last one that fits.
BlocksDisjoint ==
  \A c \in Client : \A i, j \in DOMAIN blocks[c] :
    LET a == blocks[c][i]  b == blocks[c][j]
    IN  /\ a.ptr.region \in DOMAIN arena[c]
        /\ a.ptr.offset + a.size <= arena[c][a.ptr.region].size
        /\ a.ptr.region = b.ptr.region /\ i # j =>
             a.ptr.offset + a.size <= b.ptr.offset \/ b.ptr.offset + b.size <= a.ptr.offset

\* A watching client ends for lack of memory only when the pages are used up: it
\* has sent as many commands as pairs of buffers fit.
MemoryLasts ==
  \A c \in Client :
    pc[c] = "starved" =>
      LET first == PAGE_SIZE - CONFIG_SIZE - SizeofIndex * (Len(argv[c]) + 1) - STREAM_SIZE
      IN  sent[c] = (first \div BUF_SIZE + (PAGE_COUNT - 1) * (PAGE_SIZE \div BUF_SIZE)) \div 2

\* Every change is followed by a command that is sent after it, also a change that
\* happens while a command is under way, unless the program ends.
ChangeReported ==
  \A c \in Client :
    events[c] ~> (pc[c] = "waiting" /\ ~ events[c]) \/ pc[c] \in {"ended", "starved"}
=============================================================================
