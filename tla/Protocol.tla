------------------------------ MODULE Protocol ------------------------------
(***************************************************************************)
(* The functions of src/src/protocol.h.  A byte is a number; an int takes  *)
(* SizeofInt bytes, the lowest first.  A string is the sequence of its     *)
(* bytes without the 0 at its end.  A buffer is the sequence of its bytes: *)
(* buf[1] is at offset 0.                                                  *)
(***************************************************************************)
EXTENDS Integers, Sequences, SequencesExt

SizeofInt == 4

\* ProtocolMsgType has no negative member, so that gcc makes it unsigned: -1 stands for
\* the bits of it that msg->type = -1 sets, which no command has and which are not < 0.
NO_COMMAND == -1
MSG_TASK_RUN == 2
MSG_WORKSPACE_SET == 4
MSG_SUCCESS == 7
MSG_ERR == 8

TOKEN_NONE == 0
TOKEN_ARG == 1
TOKEN_VAR == 2

NoToken == [type |-> TOKEN_NONE, value |-> <<>>]

-----------------------------------------------------------------------------
\* Token streams.

protocol_tokenstream_alloc(count) ==
  [type |-> 0, length |-> 0, tokens |-> [k \in 0 .. count - 1 |-> NoToken]]

\* Mutant: the tokens are left as they are.
ResetLength(s) == [s EXCEPT !.length = 0]

\* Mutant: the length is left as it is.
ResetTokens(s) ==
  [s EXCEPT !.tokens = [k \in DOMAIN @ |-> IF k < s.length THEN NoToken ELSE @[k]]]

\* Only the tokens below the length are cleared.
protocol_tokenstream_reset(s) ==
  [s EXCEPT !.tokens = [k \in DOMAIN @ |-> IF k < s.length THEN NoToken ELSE @[k]],
            !.length = 0]

protocol_tokenstream_add_token(s, type, value) ==
  [s EXCEPT !.tokens[s.length] = [type |-> type, value |-> value], !.length = @ + 1]

\* Behind the array there is nothing a stream has written.
TokenAt(s, k) == IF k \in DOMAIN s.tokens THEN s.tokens[k] ELSE NoToken

\* Loops over tokens are functions of the number of tokens they are through with.
TokensParsed(s) ==
  LET parsed[i \in 0 .. s.length] ==
        IF i = 0 THEN [args |-> <<>>, vars |-> <<>>]
        ELSE LET t == TokenAt(s, i - 1)
                 values(type, so_far) ==
                   IF t.type = type THEN Append(so_far, t.value) ELSE so_far
             IN  [args |-> values(TOKEN_ARG, parsed[i - 1].args),
                  vars |-> values(TOKEN_VAR, parsed[i - 1].vars)]
  IN  parsed

\* The arguments and the variables of a stream, in order.  The type goes into an
\* unsigned char, which the caller does not look at.
protocol_parse_token_stream(s) ==
  LET parsed == TokensParsed(s)[s.length]
  IN  [type |-> s.type % 256, args |-> parsed.args, vars |-> parsed.vars]

-----------------------------------------------------------------------------
\* Encoding.

INT_MAX == 2147483647

IntBytes(n) ==
  <<n % 256, (n \div 256) % 256, (n \div 65536) % 256, (n \div 16777216) % 256>>

\* The highest byte carries the sign.
FromBytes(b1, b2, b3, b4) ==
  b1 + 256 * b2 + 65536 * b3 + 16777216 * (IF b4 < 128 THEN b4 ELSE b4 - 256)

IntAt(buf, offset) ==
  FromBytes(buf[offset + 1], buf[offset + 2], buf[offset + 3], buf[offset + 4])

Overwritten(buf, bytes) == bytes \o SubSeq(buf, Len(bytes) + 1, Len(buf))

\* Mutant: the 0 at the end of the string is not written.
TokenUnterminated(t) == IF t.type = TOKEN_NONE THEN <<>> ELSE <<t.type>> \o t.value

\* Empty tokens are skipped, and still counted in the length.
TokenBytes(t) == IF t.type = TOKEN_NONE THEN <<>> ELSE <<t.type>> \o t.value \o <<0>>

TokensWritten(s) ==
  LET written[i \in 0 .. s.length] ==
        IF i = 0 THEN <<>> ELSE written[i - 1] \o TokenBytes(TokenAt(s, i - 1))
  IN  written

protocol_tokenstream_to_buf(s) ==
  IntBytes(s.type) \o IntBytes(s.length) \o TokensWritten(s)[s.length]

\* protocol_send: the buffer afterwards and the bytes given to the socket, with
\* SizeofInt bytes more than were written, because the end of the tokens already
\* counts the first int.
protocol_send(s, buf) ==
  LET body   == protocol_tokenstream_to_buf(s)
      length == SizeofInt + Len(body) + SizeofInt
      filled == Overwritten(buf, IntBytes(length) \o body)
  IN  [buf |-> filled, bytes |-> SubSeq(filled, 1, length)]

-----------------------------------------------------------------------------
\* Decoding.  As many tokens are read as the length says, whatever is behind the
\* bytes that were received.

\* One token from the cursor on: its type, the string behind it, and its 0.
ReadToken(buf, read) ==
  LET end == SelectInSubSeq(buf, read.cur + 1, Len(buf), LAMBDA b : b = 0)
  IN  [cur    |-> end + 1,
       tokens |-> Append(read.tokens, [type  |-> buf[read.cur],
                                       value |-> SubSeq(buf, read.cur + 1, end - 1)])]

TokensRead(buf, length) ==
  LET read[i \in 0 .. length] ==
        IF i = 0 THEN [cur |-> 3 * SizeofInt + 1, tokens |-> <<>>]
        ELSE ReadToken(buf, read[i - 1])
  IN  read

protocol_buf_to_tokenstream(buf, s) ==
  LET length == IntAt(buf, 2 * SizeofInt)
      read   == TokensRead(buf, length)[length]
  IN  IF length < 1 THEN [ok |-> FALSE, stream |-> s]
      ELSE [ok |-> TRUE,
            stream |-> [type |-> IntAt(buf, SizeofInt), length |-> length,
                        tokens |-> [k \in DOMAIN s.tokens |->
                                      IF k < length THEN read.tokens[k + 1] ELSE s.tokens[k]]]]

\* The number of bytes at the start of the buffer is not looked at.
protocol_read(buf, s) == protocol_buf_to_tokenstream(buf, s)
=============================================================================
