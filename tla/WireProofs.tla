----------------------------- MODULE WireProofs -----------------------------
(***************************************************************************)
(* Requests and answers through the shared buffers and streams of Exchange *)
(* for every number of clients, every size of the buffers and every set of *)
(* plain command lines: what the agent reads is what the command line      *)
(* says, what a client hears is what the agent told it, and no array is    *)
(* overrun.                                                                *)
(*                                                                         *)
(* The loops of protocol.h and client.h are recursive functions.  Each is  *)
(* first shown to be well defined; what it computes is then shown by       *)
(* induction on the number of tokens, for every stream and buffer.         *)
(***************************************************************************)
EXTENDS Exchange, StructureLemmas

-----------------------------------------------------------------------------

\* The decoding loop is well defined: after n tokens it is where its body says.
LEMMA ReadDefined ==
  ASSUME NEW buf, NEW n \in Nat
  PROVE  /\ DOMAIN TokensRead(buf, n) = 0 .. n
         /\ TokensRead(buf, n)[0] = [cur |-> 13, tokens |-> <<>>]
         /\ \A i \in 1 .. n : TokensRead(buf, n)[i] = ReadToken(buf, TokensRead(buf, n)[i - 1])
<1> DEFINE start == [cur |-> 3 * SizeofInt + 1, tokens |-> <<>>]
           Loop(m, f) == f = [i \in 0 .. m |-> IF i = 0 THEN start ELSE ReadToken(buf, f[i - 1])]
           S == {m \in Nat : \E f : Loop(m, f)}
<1>1. 0 \in S
  <2>1. Loop(0, [i \in 0 .. 0 |-> start])
    OBVIOUS
  <2> QED  BY <2>1
<1>2. ASSUME NEW m \in S PROVE m + 1 \in S
  <2>1. PICK f : Loop(m, f)
    OBVIOUS
  <2> DEFINE g == [i \in 0 .. m + 1 |-> IF i = m + 1 THEN ReadToken(buf, f[m]) ELSE f[i]]
  <2>2. Loop(m + 1, g)
    <3>1. ASSUME NEW i \in 0 .. m + 1
          PROVE  g[i] = IF i = 0 THEN start ELSE ReadToken(buf, g[i - 1])
      <4> HIDE DEF start
      <4>1. CASE i = m + 1
        BY <4>1
      <4>2. CASE i # m + 1
        <5>1. i \in 0 .. m /\ (i # 0 => i - 1 \in 0 .. m /\ i - 1 # m + 1)
          BY <4>2
        <5>2. f[i] = IF i = 0 THEN start ELSE ReadToken(buf, f[i - 1])
          BY <2>1, <5>1
        <5> QED  BY <5>1, <5>2, <4>2
      <4> QED  BY <4>1, <4>2
    <3> QED  BY <3>1
  <2>3. m + 1 \in Nat
    OBVIOUS
  <2> HIDE DEF Loop, g
  <2> QED  BY <2>2, <2>3
<1>3. \E f : Loop(n, f)
  <2> HIDE DEF Loop
  <2>1. S \in SUBSET Nat
    OBVIOUS
  <2>2. n \in S
    <3> HIDE DEF S
    <3> QED  BY <1>1, <1>2, <2>1, Induction
  <2> QED  BY <2>2
<1>4. Loop(n, TokensRead(buf, n))
  BY <1>3 DEF TokensRead
<1>5. start = [cur |-> 13, tokens |-> <<>>]
  BY DEF SizeofInt
<1> QED
  <2> HIDE DEF start
  <2>1. 0 \in 0 .. n /\ \A i \in 1 .. n : i \in 0 .. n /\ i # 0
    OBVIOUS
  <2> QED  BY <1>4, <1>5, <2>1

-----------------------------------------------------------------------------
\* What an int can be.
CInt == {n \in Int : -INT_MAX - 1 <= n /\ n <= INT_MAX}

\* A string of the wire has no 0 in it.
Text == Seq(Nat \ {0})

Token == [type : Nat, value : Text]

Stream == [type : CInt, length : Nat, tokens : [0 .. TOKEN_COUNT - 1 -> Token]]

\* The token t with its 0 stands in the buffer from position p on.
TokenIn(buf, p, t) ==
  /\ p + Len(t.value) + 1 <= Len(buf)
  /\ buf[p] = t.type
  /\ \A j \in 1 .. Len(t.value) : buf[p + j] = t.value[j]
  /\ buf[p + Len(t.value) + 1] = 0

\* The tokens ts stand in the buffer one behind the other, from the positions at on.
Laid(buf, ts, at) ==
  /\ at \in [1 .. Len(ts) + 1 -> Nat] /\ at[1] = 13
  /\ \A i \in 1 .. Len(ts) :
       TokenIn(buf, at[i], ts[i]) /\ at[i + 1] = at[i] + Len(ts[i].value) + 2

\* The buffer starts with a message of this type and these tokens.
Holds(buf, type, ts) ==
  /\ buf \in Seq(Nat) /\ 12 <= Len(buf)
  /\ IntAt(buf, SizeofInt) = type /\ IntAt(buf, 2 * SizeofInt) = Len(ts)
  /\ \E at : Laid(buf, ts, at)

\* Min, given its members.
LEMMA MinimumIs ==
  ASSUME NEW M \in SUBSET Nat, NEW x \in M, \A y \in M : x <= y
  PROVE  Min(M) = x
<1>1. Min(M) \in M /\ \A y \in M : Min(M) <= y
  BY DEF Min
<1>2. Min(M) <= x /\ x <= Min(M) /\ x \in Nat /\ Min(M) \in Nat
  BY <1>1
<1> QED  BY <1>2

\* The loop body reads the token that stands at the cursor.
LEMMA ReadTokenIn ==
  ASSUME NEW buf \in Seq(Nat), NEW p \in Nat \ {0}, NEW t \in Token, NEW tokens,
         TokenIn(buf, p, t)
  PROVE  ReadToken(buf, [cur |-> p, tokens |-> tokens]) =
           [cur |-> p + Len(t.value) + 2, tokens |-> Append(tokens, t)]
<1> DEFINE n == Len(t.value)
           zeros == {i \in p + 1 .. Len(buf) : buf[i] = 0}
           end == p + n + 1
<1>1. n \in Nat /\ t.value \in Text /\ \A j \in 1 .. n : t.value[j] \in Nat \ {0}
  BY DEF Token, Text
<1>2. end \in zeros /\ zeros \in SUBSET Nat
  BY <1>1, SMTT(30) DEF TokenIn
<1>3. ASSUME NEW y \in zeros PROVE end <= y
  <2>1. CASE y < end
    <3>1. y - p \in 1 .. n /\ p + (y - p) = y
      BY <1>1, <2>1
    <3>2. buf[p + (y - p)] = t.value[y - p]
      BY <3>1 DEF TokenIn
    <3> QED  BY <1>1, <3>1, <3>2
  <2> QED  BY <1>1, <2>1
<1>4. SelectInSubSeq(buf, p + 1, Len(buf), LAMBDA b : b = 0) = end
  <2>1. zeros # {} /\ Min(zeros) = end
    <3> HIDE DEF zeros, end
    <3> QED  BY <1>2, <1>3, MinimumIs
  <2> QED  BY <2>1 DEF SelectInSubSeq
<1>5. SubSeq(buf, p + 1, end - 1) = t.value
  <2>1. /\ SubSeq(buf, p + 1, end - 1) \in Seq(Nat)
        /\ Len(SubSeq(buf, p + 1, end - 1)) = n
        /\ \A j \in 1 .. n : SubSeq(buf, p + 1, end - 1)[j] = buf[p + j]
    <3> DEFINE a == p + 1
               z == end - 1
    <3>1. a \in Int /\ z \in Int /\ z - a + 1 = n /\ (a <= z \/ n = 0)
      BY <1>1
    <3>2. \A i \in a .. z : i \in 1 .. Len(buf)
      BY <1>1 DEF TokenIn
    <3>3. \A i \in a .. z : buf[i] \in Nat
      BY <3>2
    <3>4. \A j \in 1 .. n : a + j - 1 = p + j
      BY <1>1
    <3> HIDE DEF a, z
    <3>5. /\ SubSeq(buf, a, z) \in Seq(Nat)
          /\ Len(SubSeq(buf, a, z)) = IF a <= z THEN z - a + 1 ELSE 0
          /\ \A j \in 1 .. z - a + 1 : SubSeq(buf, a, z)[j] = buf[a + j - 1]
      BY <3>1, <3>3, SubSeqProperties
    <3>6. Len(SubSeq(buf, a, z)) = n
      BY <1>1, <3>1, <3>5
    <3>7. \A j \in 1 .. n : SubSeq(buf, a, z)[j] = buf[p + j]
      BY <3>1, <3>4, <3>5
    <3> QED  BY <3>5, <3>6, <3>7 DEF a, z
  <2>2. \A j \in 1 .. n : buf[p + j] = t.value[j]
    BY DEF TokenIn
  <2>3. t.value \in Seq(Nat)
    BY <1>1 DEF Text
  <2> HIDE DEF n
  <2> QED  BY <1>1, <2>1, <2>2, <2>3 DEF n
<1>6. t = [type |-> t.type, value |-> t.value]
  BY DEF Token
<1>7. end + 1 = p + n + 2
  BY <1>1
<1> HIDE DEF end
<1>8. ReadToken(buf, [cur |-> p, tokens |-> tokens]) =
        [cur |-> end + 1, tokens |-> Append(tokens, [type |-> buf[p], value |-> SubSeq(buf, p + 1, end - 1)])]
  BY <1>4 DEF ReadToken
<1> QED  BY <1>5, <1>6, <1>7, <1>8 DEF TokenIn

\* A buffer that holds a message is read as its tokens, in their order.
LEMMA LoopReads ==
  ASSUME NEW buf \in Seq(Nat), NEW ts \in Seq(Token), NEW at, Laid(buf, ts, at),
         NEW i \in 0 .. Len(ts)
  PROVE  TokensRead(buf, Len(ts))[i] = [cur |-> at[i + 1], tokens |-> SubSeq(ts, 1, i)]
<1> DEFINE n == Len(ts)
           f == TokensRead(buf, n)
           Good(k) == f[k] = [cur |-> at[k + 1], tokens |-> SubSeq(ts, 1, k)]
           S == {k \in Nat : k <= n => Good(k)}
<1>1. n \in Nat
  OBVIOUS
<1>2. f[0] = [cur |-> 13, tokens |-> <<>>] /\ \A k \in 1 .. n : f[k] = ReadToken(buf, f[k - 1])
  BY <1>1, ReadDefined
<1>3. 0 \in S
  <2>1. SubSeq(ts, 1, 0) = <<>> /\ at[0 + 1] = 13
    BY DEF Laid
  <2> HIDE DEF f
  <2> QED  BY <1>2, <2>1
<1>4. ASSUME NEW k \in S PROVE k + 1 \in S
  <2> SUFFICES ASSUME k + 1 <= n PROVE Good(k + 1)
    BY <1>1
  <2>1. k \in Nat /\ k + 1 \in 1 .. n /\ (k + 1) - 1 = k /\ k <= n
    BY <1>1
  <2>2. f[k + 1] = ReadToken(buf, [cur |-> at[k + 1], tokens |-> SubSeq(ts, 1, k)])
    <3> HIDE DEF f, n
    <3> QED  BY <1>2, <2>1
  <2>3. TokenIn(buf, at[k + 1], ts[k + 1]) /\ at[(k + 1) + 1] = at[k + 1] + Len(ts[k + 1].value) + 2
    BY <2>1 DEF Laid
  <2>4. ts[k + 1] \in Token /\ at[k + 1] \in Nat
    BY <2>1 DEF Laid
  <2>5. at[k + 1] # 0
    <3>1. CASE k = 0
      BY <3>1 DEF Laid
    <3>2. CASE k # 0
      <4>1. k \in 1 .. n /\ ts[k] \in Token
        BY <2>1, <3>2
      <4>2. at[k + 1] = at[k] + Len(ts[k].value) + 2
        BY <4>1 DEF Laid
      <4>4. at[k] \in Nat
        <5>1. k \in 1 .. n + 1 /\ at \in [1 .. n + 1 -> Nat]
          BY <4>1, <1>1 DEF Laid
        <5> HIDE DEF n
        <5> QED  BY <5>1
      <4>3. Len(ts[k].value) \in Nat
        BY <4>1, SMTT(30) DEF Token, Text
      <4> QED  BY <4>2, <4>3, <4>4
    <3> QED  BY <3>1, <3>2
  <2>6. f[k + 1] = [cur |-> at[(k + 1) + 1], tokens |-> Append(SubSeq(ts, 1, k), ts[k + 1])]
    <3>1. ReadToken(buf, [cur |-> at[k + 1], tokens |-> SubSeq(ts, 1, k)]) =
            [cur |-> at[k + 1] + Len(ts[k + 1].value) + 2,
             tokens |-> Append(SubSeq(ts, 1, k), ts[k + 1])]
      <4>1. at[k + 1] \in Nat \ {0}
        BY <2>4, <2>5
      <4> QED  BY <4>1, <2>3, <2>4, ReadTokenIn, Zenon
    <3> HIDE DEF f, n
    <3> QED  BY <2>2, <2>3, <3>1, Zenon
  <2>7. Append(SubSeq(ts, 1, k), ts[k + 1]) = SubSeq(ts, 1, k + 1)
    BY <2>1
  <2> HIDE DEF f, n
  <2> QED  BY <2>6, <2>7
<1>5. i \in S
  <2>1. S \in SUBSET Nat /\ i \in Nat
    BY <1>1
  <2> HIDE DEF S
  <2> QED  BY <1>3, <1>4, <2>1, Induction
<1> QED  BY <1>1, <1>5

\* protocol_read as the agent and the client see it.
Reads(read, s, type, ts) ==
  /\ read.ok = (ts # <<>>)
  /\ read.stream \in Stream
  /\ ts = <<>> => read.stream = s
  /\ ts # <<>> =>
       /\ read.stream.type = type /\ read.stream.length = Len(ts)
       /\ \A k \in 0 .. TOKEN_COUNT - 1 :
            read.stream.tokens[k] = IF k < Len(ts) THEN ts[k + 1] ELSE s.tokens[k]

\* protocol_read returns the message that the buffer starts with, whatever is behind it and
\* whatever the stream held.
LEMMA ReadBack ==
  ASSUME NEW buf, NEW s \in Stream, NEW type \in CInt, NEW ts \in Seq(Token),
         Holds(buf, type, ts), Len(ts) <= TOKEN_COUNT
  PROVE  Reads(protocol_read(buf, s), s, type, ts)
<1> USE ExchangeAssumption
<1> DEFINE n == Len(ts)
           last == TokensRead(buf, n)[n]
           tokens == [k \in 0 .. TOKEN_COUNT - 1 |-> IF k < n THEN last.tokens[k + 1] ELSE s.tokens[k]]
<1>1. n \in Nat /\ buf \in Seq(Nat) /\ IntAt(buf, SizeofInt) = type /\ IntAt(buf, 2 * SizeofInt) = n
  BY DEF Holds
<1>2. PICK at : Laid(buf, ts, at)
  BY DEF Holds
<1>3. n \in 0 .. n /\ SubSeq(ts, 1, n) = ts
  OBVIOUS
<1>4. last.tokens = ts
  <2>1. last = [cur |-> at[n + 1], tokens |-> SubSeq(ts, 1, n)]
    BY <1>1, <1>2, <1>3, LoopReads
  <2> HIDE DEF last, n
  <2> QED  BY <1>3, <2>1
<1>5. DOMAIN s.tokens = 0 .. TOKEN_COUNT - 1 /\ s.tokens \in [0 .. TOKEN_COUNT - 1 -> Token]
  BY DEF Stream
<1>6. protocol_read(buf, s) =
        IF n < 1 THEN [ok |-> FALSE, stream |-> s]
        ELSE [ok |-> TRUE, stream |-> [type |-> type, length |-> n, tokens |-> tokens]]
  <2> HIDE DEF last, n
  <2> QED  BY <1>1, <1>5 DEF protocol_read, protocol_buf_to_tokenstream, last
<1>7. \A k \in 0 .. TOKEN_COUNT - 1 : tokens[k] = IF k < n THEN ts[k + 1] ELSE s.tokens[k]
  <2> HIDE DEF last, n
  <2> QED  BY <1>4
<1>8. tokens \in [0 .. TOKEN_COUNT - 1 -> Token]
  <2>1. ASSUME NEW k \in 0 .. TOKEN_COUNT - 1 PROVE tokens[k] \in Token
    <3>1. CASE k < n
      <4>1. k + 1 \in 1 .. n
        BY <1>1, <3>1
      <4> QED  BY <4>1, <1>7, <3>1
    <3>2. CASE ~ (k < n)
      BY <3>2, <1>5, <1>7
    <3> QED  BY <3>1, <3>2
  <2> QED  BY <2>1
<1>9. CASE ts = <<>>
  <2>1. n = 0
    BY <1>9
  <2>2. protocol_read(buf, s) = [ok |-> FALSE, stream |-> s]
    <3> HIDE DEF n, tokens
    <3> QED  BY <1>6, <2>1
  <2> DEFINE r == [ok |-> FALSE, stream |-> s]
  <2>3. r.ok = FALSE /\ r.stream = s
    OBVIOUS
  <2> HIDE DEF r
  <2>4. r.ok = (ts # <<>>)
    BY <2>3, <1>9, Zenon
  <2>5. Reads(r, s, type, ts)
    BY <2>3, <2>4, <1>9, Zenon DEF Reads
  <2> QED  BY <2>2, <2>5 DEF r
<1>10. CASE ts # <<>>
  <2>1. ~ (n < 1)
    BY <1>10
  <2>2. protocol_read(buf, s) = [ok |-> TRUE, stream |-> [type |-> type, length |-> n, tokens |-> tokens]]
    BY <1>6, <2>1
  <2>3. [type |-> type, length |-> n, tokens |-> tokens] \in Stream
    <3> HIDE DEF tokens, n
    <3> QED  BY <1>1, <1>8 DEF Stream
  <2>4. Reads([ok |-> TRUE, stream |-> [type |-> type, length |-> n, tokens |-> tokens]], s, type, ts)
    <3> DEFINE r == [ok |-> TRUE, stream |-> [type |-> type, length |-> n, tokens |-> tokens]]
    <3>1. r.ok = TRUE /\ r.stream = [type |-> type, length |-> n, tokens |-> tokens]
      OBVIOUS
    <3>2. r.stream.type = type /\ r.stream.length = n /\ r.stream.tokens = tokens
      <4> HIDE DEF tokens, n
      <4> QED  OBVIOUS
    <3>3. \A k \in 0 .. TOKEN_COUNT - 1 : r.stream.tokens[k] = IF k < Len(ts) THEN ts[k + 1] ELSE s.tokens[k]
      <4> HIDE DEF tokens, r
      <4> QED  BY <3>2, <1>7
    <3> HIDE DEF r, tokens
    <3>4. r.ok = (ts # <<>>)
      BY <3>1, <1>10, Zenon
    <3>5. r.stream \in Stream
      BY <3>1, <2>3, Zenon
    <3> HIDE DEF n
    <3>6. Reads(r, s, type, ts)
      BY <3>2, <3>3, <3>4, <3>5, <1>10, Zenon DEF Reads, n
    <3> QED  BY <3>6 DEF r
  <2> HIDE DEF tokens, n
  <2> QED  BY <2>2, <2>4
<1> QED  BY <1>9, <1>10

-----------------------------------------------------------------------------
\* A write at the start of a buffer, byte by byte.
LEMMA OverwrittenIs ==
  ASSUME NEW buf \in Seq(Nat), NEW m \in Seq(Nat), Len(m) <= Len(buf)
  PROVE  /\ Overwritten(buf, m) \in Seq(Nat) /\ Len(Overwritten(buf, m)) = Len(buf)
         /\ \A i \in 1 .. Len(buf) :
              Overwritten(buf, m)[i] = IF i <= Len(m) THEN m[i] ELSE buf[i]
<1> DEFINE rest == SubSeq(buf, Len(m) + 1, Len(buf))
<1>1. Len(m) \in Nat /\ Len(buf) \in Nat
  OBVIOUS
<1>2. rest \in Seq(Nat) /\ Len(rest) = Len(buf) - Len(m)
  BY <1>1
<1>3. \A i \in 1 .. Len(rest) : rest[i] = buf[Len(m) + i]
  BY <1>1, <1>2
<1>4. \A i \in 1 .. Len(buf) : i > Len(m) => i - Len(m) \in 1 .. Len(rest) /\ Len(m) + (i - Len(m)) = i
  BY <1>1, <1>2
<1> HIDE DEF rest
<1>5. /\ m \o rest \in Seq(Nat) /\ Len(m \o rest) = Len(buf)
      /\ \A i \in 1 .. Len(buf) : (m \o rest)[i] = IF i <= Len(m) THEN m[i] ELSE rest[i - Len(m)]
  BY <1>1, <1>2
<1>6. Overwritten(buf, m) = m \o rest
  BY DEF Overwritten, rest
<1>7. ASSUME NEW i \in 1 .. Len(buf) PROVE (m \o rest)[i] = IF i <= Len(m) THEN m[i] ELSE buf[i]
  <2>1. CASE i <= Len(m)
    BY <2>1, <1>5
  <2>2. CASE ~ (i <= Len(m))
    <3>1. i - Len(m) \in 1 .. Len(rest) /\ Len(m) + (i - Len(m)) = i
      BY <1>1, <1>4, <2>2
    <3>2. rest[i - Len(m)] = buf[i]
      BY <1>3, <3>1
    <3>3. (m \o rest)[i] = rest[i - Len(m)]
      BY <1>5, <2>2
    <3> QED  BY <3>2, <3>3, <2>2
  <2> QED  BY <2>1, <2>2
<1> QED  BY <1>5, <1>6, <1>7, Zenon

\* The second and the third int of a buffer are in the eight bytes behind the first.
LEMMA HeaderInts ==
  ASSUME NEW x, NEW y, \A i \in 5 .. 12 : x[i] = y[i]
  PROVE  IntAt(x, 4) = IntAt(y, 4) /\ IntAt(x, 8) = IntAt(y, 8)
<1>1. /\ x[5] = y[5] /\ x[6] = y[6] /\ x[7] = y[7] /\ x[8] = y[8]
      /\ x[9] = y[9] /\ x[10] = y[10] /\ x[11] = y[11] /\ x[12] = y[12]
  OBVIOUS
<1>2. \A z : /\ IntAt(z, 4) = FromBytes(z[5], z[6], z[7], z[8])
            /\ IntAt(z, 8) = FromBytes(z[9], z[10], z[11], z[12])
  BY DEF IntAt
<1> QED  BY <1>1, <1>2, Zenon

\* A message stays readable at the start of any buffer, whatever was there before.
LEMMA HoldsOverwritten ==
  ASSUME NEW buf \in Seq(Nat), NEW m \in Seq(Nat), Len(m) <= Len(buf),
         NEW type, NEW ts \in Seq(Token), Holds(m, type, ts)
  PROVE  Holds(Overwritten(buf, m), type, ts)
<1> DEFINE b == Overwritten(buf, m)
<1>1. /\ b \in Seq(Nat) /\ Len(b) = Len(buf)
      /\ \A i \in 1 .. Len(buf) : b[i] = IF i <= Len(m) THEN m[i] ELSE buf[i]
  BY OverwrittenIs
<1>2. Len(m) \in Nat /\ Len(buf) \in Nat /\ 12 <= Len(m)
  BY SMTT(30) DEF Holds
<1> HIDE DEF b
<1>3. \A i \in 1 .. Len(m) : b[i] = m[i]
  <2> SUFFICES ASSUME NEW i \in 1 .. Len(m) PROVE b[i] = m[i]
    OBVIOUS
  <2>1. i \in 1 .. Len(buf) /\ i <= Len(m)
    BY <1>2
  <2> QED  BY <1>1, <2>1
<1>4. \A i \in 5 .. 12 : b[i] = m[i]
  <2>1. \A i \in 5 .. 12 : i \in 1 .. Len(m)
    BY <1>2
  <2> QED  BY <1>3, <2>1
<1>5. IntAt(b, SizeofInt) = type /\ IntAt(b, 2 * SizeofInt) = Len(ts)
  <2>1. IntAt(b, 4) = IntAt(m, 4) /\ IntAt(b, 8) = IntAt(m, 8)
    BY <1>4, HeaderInts
  <2>3. SizeofInt = 4 /\ 2 * SizeofInt = 8
    BY DEF SizeofInt
  <2>4. IntAt(m, 4) = type /\ IntAt(m, 8) = Len(ts)
    BY <2>3 DEF Holds
  <2> QED  BY <2>1, <2>3, <2>4
<1>6. PICK at : Laid(m, ts, at)
  BY DEF Holds
<1>7. Laid(b, ts, at)
  <2>1. at \in [1 .. Len(ts) + 1 -> Nat] /\ at[1] = 13
    BY <1>6 DEF Laid
  <2>2. ASSUME NEW i \in 1 .. Len(ts) PROVE at[i] \in Nat \ {0} /\ Len(ts[i].value) \in Nat
    <3> DEFINE n == Len(ts)
    <3>0. n \in Nat /\ i \in 1 .. n + 1
      OBVIOUS
    <3>1. Len(ts[i].value) \in Nat
      <4>1. ts[i] \in Token
        OBVIOUS
      <4> QED  BY <4>1 DEF Token, Text
    <3>2. at[i] \in Nat
      <4> HIDE DEF n
      <4> QED  BY <2>1, <3>0 DEF n
    <3>3. CASE i = 1
      BY <3>3, <3>1, <2>1
    <3>4. CASE i # 1
      <4>1. i - 1 \in 1 .. Len(ts) /\ (i - 1) + 1 = i
        BY <3>4
      <4>2. at[i] = at[i - 1] + Len(ts[i - 1].value) + 2
        BY <1>6, <4>1 DEF Laid
      <4>3. at[i - 1] \in Nat
        <5>1. i - 1 \in 1 .. n + 1
          BY <4>1
        <5> HIDE DEF n
        <5> QED  BY <2>1, <5>1 DEF n
      <4>4. Len(ts[i - 1].value) \in Nat
        <5>1. ts[i - 1] \in Token
          BY <4>1
        <5> QED  BY <5>1, SMTT(30) DEF Token, Text
      <4> QED  BY <4>2, <4>3, <4>4, <3>1, SMTT(30)
    <3> QED  BY <3>3, <3>4
  <2>3. ASSUME NEW i \in 1 .. Len(ts)
        PROVE TokenIn(b, at[i], ts[i]) /\ at[i + 1] = at[i] + Len(ts[i].value) + 2
    <3>1. TokenIn(m, at[i], ts[i]) /\ at[i + 1] = at[i] + Len(ts[i].value) + 2
      BY <1>6 DEF Laid
    <3> DEFINE p == at[i]
               n == Len(ts[i].value)
    <3>2. p \in Nat \ {0} /\ n \in Nat
      BY <2>2
    <3>3. p + n + 1 <= Len(m)
      BY <3>1 DEF TokenIn
    <3> HIDE DEF p, n
    <3>4. p \in 1 .. Len(m) /\ p + n + 1 \in 1 .. Len(m) /\ \A j \in 1 .. n : p + j \in 1 .. Len(m)
      BY <3>2, <3>3, <1>2
    <3>5. b[p] = m[p] /\ b[p + n + 1] = m[p + n + 1] /\ \A j \in 1 .. n : b[p + j] = m[p + j]
      BY <3>4, <1>3
    <3>6. p + n + 1 <= Len(b)
      BY <3>2, <3>3, <1>1, <1>2
    <3> QED  BY <3>1, <3>5, <3>6 DEF TokenIn, p, n
  <2> QED  BY <2>1, <2>3 DEF Laid
<1>8. 12 <= Len(b)
  BY <1>1, <1>2
<1>9. Holds(b, type, ts)
  BY <1>1, <1>5, <1>7, <1>8 DEF Holds
<1> QED  BY <1>9 DEF b

\* The encoding loop is well defined.
LEMMA WriteDefined ==
  ASSUME NEW s, s.length \in Nat
  PROVE  /\ TokensWritten(s)[0] = <<>>
         /\ \A i \in 1 .. s.length :
              TokensWritten(s)[i] = TokensWritten(s)[i - 1] \o TokenBytes(TokenAt(s, i - 1))
<1> DEFINE Loop(m, f) ==
             f = [i \in 0 .. m |-> IF i = 0 THEN <<>> ELSE f[i - 1] \o TokenBytes(TokenAt(s, i - 1))]
           S == {m \in Nat : \E f : Loop(m, f)}
           n == s.length
<1>1. 0 \in S
  <2>1. Loop(0, [i \in 0 .. 0 |-> <<>>])
    OBVIOUS
  <2> QED  BY <2>1
<1>2. ASSUME NEW m \in S PROVE m + 1 \in S
  <2>1. PICK f : Loop(m, f)
    OBVIOUS
  <2> DEFINE g == [i \in 0 .. m + 1 |-> IF i = m + 1 THEN f[m] \o TokenBytes(TokenAt(s, m)) ELSE f[i]]
  <2>2. Loop(m + 1, g)
    <3>1. ASSUME NEW i \in 0 .. m + 1
          PROVE  g[i] = IF i = 0 THEN <<>> ELSE g[i - 1] \o TokenBytes(TokenAt(s, i - 1))
      <4>1. CASE i = m + 1
        <5>1. i # 0 /\ i - 1 = m /\ m \in 0 .. m + 1 /\ m # m + 1
          BY <4>1
        <5> QED  BY <4>1, <5>1
      <4>2. CASE i # m + 1
        <5>1. i \in 0 .. m /\ (i # 0 => i - 1 \in 0 .. m /\ i - 1 # m + 1)
          BY <4>2
        <5>2. f[i] = IF i = 0 THEN <<>> ELSE f[i - 1] \o TokenBytes(TokenAt(s, i - 1))
          BY <2>1, <5>1
        <5> QED  BY <5>1, <5>2, <4>2
      <4> QED  BY <4>1, <4>2
    <3> QED  BY <3>1
  <2>3. m + 1 \in Nat
    OBVIOUS
  <2> HIDE DEF Loop, g
  <2> QED  BY <2>2, <2>3
<1>3. \E f : Loop(n, f)
  <2> HIDE DEF Loop
  <2>1. S \in SUBSET Nat
    OBVIOUS
  <2>2. n \in S
    <3> HIDE DEF S
    <3> QED  BY <1>1, <1>2, <2>1, Induction
  <2> QED  BY <2>2
<1>4. Loop(n, TokensWritten(s))
  BY <1>3 DEF TokensWritten
<1>5. 0 \in 0 .. n /\ \A i \in 1 .. n : i \in 0 .. n /\ i # 0
  OBVIOUS
<1> QED  BY <1>4, <1>5

\* The bytes of a token, and none for an empty one.
LEMMA TokenBytesAre ==
  ASSUME NEW t \in Token, t.type # TOKEN_NONE
  PROVE  /\ TokenBytes(t) \in Seq(Nat) /\ Len(TokenBytes(t)) = Len(t.value) + 2
         /\ TokenBytes(t)[1] = t.type /\ TokenBytes(t)[Len(t.value) + 2] = 0
         /\ \A j \in 1 .. Len(t.value) : TokenBytes(t)[j + 1] = t.value[j]
<1>1. t.type \in Nat /\ t.value \in Seq(Nat) /\ Len(t.value) \in Nat
  BY DEF Token, Text
<1> DEFINE v == t.value
<1>2. TokenBytes(t) = <<t.type>> \o v \o <<0>>
  BY DEF TokenBytes
<1> HIDE DEF v
<1>3. v \in Seq(Nat) /\ Len(v) \in Nat
  BY <1>1 DEF v
<1> DEFINE a == <<t.type>> \o v
<1>4. a \in Seq(Nat) /\ Len(a) = Len(v) + 1 /\ a[1] = t.type /\ \A j \in 1 .. Len(v) : a[j + 1] = v[j]
  BY <1>1, <1>3
<1> HIDE DEF a
<1>5. /\ a \o <<0>> \in Seq(Nat) /\ Len(a \o <<0>>) = Len(v) + 2
      /\ (a \o <<0>>)[Len(v) + 2] = 0 /\ \A j \in 1 .. Len(v) + 1 : (a \o <<0>>)[j] = a[j]
  BY <1>3, <1>4
<1>6. 1 \in 1 .. Len(v) + 1 /\ \A j \in 1 .. Len(v) : j + 1 \in 1 .. Len(v) + 1
  BY <1>3
<1> QED  BY <1>2, <1>4, <1>5, <1>6 DEF a, v

\* The stream of a sender: first some empty tokens, then tokens that are not empty.
Stuffed(s, empty) ==
  /\ s \in Stream /\ s.length <= TOKEN_COUNT /\ empty \in 0 .. s.length
  /\ \A k \in 0 .. empty - 1 : s.tokens[k] = NoToken
  /\ \A k \in empty .. s.length - 1 : s.tokens[k].type # TOKEN_NONE

\* What is read when such a stream is sent: the empty tokens come last.
ReadAs(s, empty) ==
  [i \in 1 .. s.length |-> IF i <= s.length - empty THEN s.tokens[empty + i - 1] ELSE NoToken]

\* The tokens of such a stream are tokens, and the empty ones take no bytes.
LEMMA StuffedTokens ==
  ASSUME NEW s, NEW empty, Stuffed(s, empty)
  PROVE  /\ s.length \in Nat /\ s.length <= TOKEN_COUNT /\ empty \in 0 .. s.length /\ s.type \in CInt
         /\ \A k \in 0 .. s.length - 1 : TokenAt(s, k) = s.tokens[k] /\ s.tokens[k] \in Token
         /\ \A k \in 0 .. s.length - 1 : TokenBytes(TokenAt(s, k)) \in Seq(Nat)
         /\ \A k \in 0 .. empty - 1 : TokenBytes(TokenAt(s, k)) = <<>>
         /\ \A k \in empty .. s.length - 1 : s.tokens[k].type # TOKEN_NONE
<1> USE ExchangeAssumption
<1>1. s.length \in Nat /\ s.length <= TOKEN_COUNT /\ empty \in 0 .. s.length /\ s.type \in CInt
  BY DEF Stuffed, Stream
<1>2. s.tokens \in [0 .. TOKEN_COUNT - 1 -> Token]
  BY DEF Stuffed, Stream
<1>3. ASSUME NEW k \in 0 .. s.length - 1 PROVE TokenAt(s, k) = s.tokens[k] /\ s.tokens[k] \in Token
  <2>1. k \in 0 .. TOKEN_COUNT - 1
    BY <1>1
  <2> QED  BY <1>2, <2>1 DEF TokenAt
<1>4. ASSUME NEW k \in 0 .. s.length - 1 PROVE TokenBytes(TokenAt(s, k)) \in Seq(Nat)
  <2>1. CASE s.tokens[k].type = TOKEN_NONE
    BY <1>3, <2>1 DEF TokenBytes
  <2>2. CASE s.tokens[k].type # TOKEN_NONE
    BY <1>3, <2>2, TokenBytesAre
  <2> QED  BY <2>1, <2>2
<1>5. ASSUME NEW k \in 0 .. empty - 1 PROVE TokenBytes(TokenAt(s, k)) = <<>>
  <2>1. k \in 0 .. s.length - 1
    BY <1>1
  <2>2. s.tokens[k] = NoToken
    BY DEF Stuffed
  <2> QED  BY <1>3, <2>1, <2>2 DEF TokenBytes, NoToken
<1>6. \A k \in empty .. s.length - 1 : s.tokens[k].type # TOKEN_NONE
  BY DEF Stuffed
<1> QED  BY <1>1, <1>3, <1>4, <1>5, <1>6

Prefix(a, b) == Len(a) <= Len(b) /\ \A k \in 1 .. Len(a) : b[k] = a[k]

\* The loop of protocol_tokenstream_to_buf: what it has written stays.
LEMMA LoopWrites ==
  ASSUME NEW s, NEW empty, Stuffed(s, empty)
  PROVE  /\ \A i \in 0 .. s.length : TokensWritten(s)[i] \in Seq(Nat)
         /\ \A i \in 0 .. empty : TokensWritten(s)[i] = <<>>
         /\ \A i \in 0 .. s.length : Prefix(TokensWritten(s)[i], TokensWritten(s)[s.length])
<1> DEFINE n == s.length
           w == TokensWritten(s)
           Good(j) == /\ j <= empty => w[j] = <<>>
                      /\ \A i \in 0 .. j : w[i] \in Seq(Nat) /\ Prefix(w[i], w[j])
           S == {j \in Nat : j <= n => Good(j)}
<1>1. n \in Nat /\ empty \in 0 .. n
  BY StuffedTokens
<1>2. w[0] = <<>> /\ \A i \in 1 .. n : w[i] = w[i - 1] \o TokenBytes(TokenAt(s, i - 1))
  BY <1>1, WriteDefined
<1> HIDE DEF w
<1>3. 0 \in S
  <2>1. ASSUME NEW i \in 0 .. 0 PROVE w[i] \in Seq(Nat) /\ Prefix(w[i], w[0])
    <3>1. i = 0 /\ w[i] = <<>> /\ <<>> \in Seq(Nat) /\ Len(<<>>) = 0
      BY <1>2
    <3> QED  BY <3>1, <1>2 DEF Prefix
  <2> QED  BY <1>2, <2>1
<1>4. ASSUME NEW j \in S PROVE j + 1 \in S
  <2> SUFFICES ASSUME j + 1 <= n PROVE Good(j + 1)
    BY <1>1
  <2>1. j \in Nat /\ j <= n /\ j + 1 \in 1 .. n /\ (j + 1) - 1 = j /\ j \in 0 .. n - 1
    BY <1>1
  <2>2. Good(j) /\ w[j] \in Seq(Nat)
    BY <2>1
  <2> DEFINE b == TokenBytes(TokenAt(s, j))
  <2>3. b \in Seq(Nat) /\ (j \in 0 .. empty - 1 => b = <<>>)
    BY <2>1, StuffedTokens
  <2>4. w[j + 1] = w[j] \o b
    BY <1>2, <2>1
  <2> HIDE DEF b
  <2>5. /\ w[j + 1] \in Seq(Nat) /\ Len(w[j + 1]) = Len(w[j]) + Len(b)
        /\ \A k \in 1 .. Len(w[j]) : w[j + 1][k] = w[j][k]
    BY <2>2, <2>3, <2>4
  <2>6. j + 1 <= empty => w[j + 1] = <<>>
    <3> SUFFICES ASSUME j + 1 <= empty PROVE w[j + 1] = <<>>
      OBVIOUS
    <3>1. j <= empty /\ j \in 0 .. empty - 1
      BY <1>1, <2>1
    <3> QED  BY <2>2, <2>3, <2>4, <3>1
  <2>7. ASSUME NEW i \in 0 .. j + 1 PROVE w[i] \in Seq(Nat) /\ Prefix(w[i], w[j + 1])
    <3>1. CASE i = j + 1
      BY <2>5, <3>1 DEF Prefix
    <3>2. CASE i # j + 1
      <4>1. i \in 0 .. j
        BY <2>1, <3>2
      <4>2. w[i] \in Seq(Nat) /\ Prefix(w[i], w[j])
        BY <2>2, <4>1
      <4>3. Len(w[j]) \in Nat /\ Len(b) \in Nat /\ Len(w[i]) \in Nat
        BY <2>2, <2>3, <4>2
      <4>4. Len(w[i]) <= Len(w[j + 1])
        BY <4>2, <4>3, <2>5, SMTT(30) DEF Prefix
      <4>5. ASSUME NEW k \in 1 .. Len(w[i]) PROVE w[j + 1][k] = w[i][k]
        <5>1. k \in 1 .. Len(w[j])
          BY <4>2, <4>3 DEF Prefix
        <5>2. w[j][k] = w[i][k]
          BY <4>2 DEF Prefix
        <5> QED  BY <2>5, <5>1, <5>2
      <4> QED  BY <4>2, <4>4, <4>5 DEF Prefix
    <3> QED  BY <3>1, <3>2
  <2> QED  BY <2>6, <2>7
<1>5. \A j \in 0 .. n : Good(j)
  <2>1. S \in SUBSET Nat
    OBVIOUS
  <2>2. \A j \in Nat : j \in S
    <3> HIDE DEF S
    <3> QED  BY <1>3, <1>4, <2>1, Induction
  <2> QED  BY <1>1, <2>2
<1>6. \A i \in 0 .. n : w[i] \in Seq(Nat) /\ Prefix(w[i], w[n])
  <2>1. n \in 0 .. n
    BY <1>1
  <2> QED  BY <1>5, <2>1
<1>7. \A i \in 0 .. empty : w[i] = <<>>
  <2>1. \A i \in 0 .. empty : i \in 0 .. n /\ i <= empty
    BY <1>1
  <2> QED  BY <1>5, <2>1
<1> QED  BY <1>6, <1>7 DEF w

\* An int comes back from its four bytes, negative or not.
LEMMA IntBytesAre ==
  ASSUME NEW n \in Int
  PROVE  /\ IntBytes(n) \in Seq(Nat) /\ Len(IntBytes(n)) = 4
         /\ n \in CInt =>
              FromBytes(IntBytes(n)[1], IntBytes(n)[2], IntBytes(n)[3], IntBytes(n)[4]) = n
<1> DEFINE q1 == n \div 256
           q2 == n \div 65536
           q3 == n \div 16777216
           b1 == n % 256
           b2 == q1 % 256
           b3 == q2 % 256
           b4 == q3 % 256
<1>1. n = 256 * q1 + b1 /\ b1 \in 0 .. 255 /\ q1 \in Int
  BY SMTT(30)
<1>2. q1 = 256 * q2 + b2 /\ b2 \in 0 .. 255 /\ q2 \in Int
  BY SMTT(30)
<1>3. q2 = 256 * q3 + b3 /\ b3 \in 0 .. 255 /\ q3 \in Int
  BY SMTT(30)
<1>4. b4 \in 0 .. 255 /\ (q3 \in -128 .. 127 => q3 = IF b4 < 128 THEN b4 ELSE b4 - 256)
  <2> HIDE DEF q3
  <2> QED  BY <1>3, SMTT(30)
<1>5. IntBytes(n) = <<b1, b2, b3, b4>>
  BY SMTT(30) DEF IntBytes
<1> HIDE DEF b1, b2, b3, b4, q1, q2, q3
<1>6. ASSUME n \in CInt PROVE FromBytes(b1, b2, b3, b4) = n
  <2>1. q3 \in -128 .. 127
    BY <1>1, <1>2, <1>3, <1>6, SMTT(30) DEF CInt, INT_MAX
  <2> QED  BY <1>1, <1>2, <1>3, <1>4, <2>1, SMTT(30) DEF FromBytes
<1>7. b1 \in Nat /\ b2 \in Nat /\ b3 \in Nat /\ b4 \in Nat
  BY <1>1, <1>2, <1>3, <1>4
<1> QED  BY <1>5, <1>6, <1>7

\* The bytes of a concatenation.
LEMMA Concatenated ==
  ASSUME NEW a \in Seq(Nat), NEW b \in Seq(Nat)
  PROVE  /\ a \o b \in Seq(Nat) /\ Len(a \o b) = Len(a) + Len(b)
         /\ \A k \in 1 .. Len(a) : (a \o b)[k] = a[k]
         /\ \A k \in 1 .. Len(b) : (a \o b)[Len(a) + k] = b[k]
OBVIOUS

\* The bytes of a message: three integers, the tokens, and four bytes that are left of
\* what was in the buffer.
Framed(out, s, w, buf) ==
  /\ out.buf \in Seq(Nat) /\ Len(out.buf) = Len(buf)
  /\ out.bytes \in Seq(Nat) /\ Len(out.bytes) = 16 + Len(w)
  /\ IntAt(out.bytes, SizeofInt) = s.type /\ IntAt(out.bytes, 2 * SizeofInt) = s.length
  /\ \A k \in 1 .. Len(w) : out.bytes[12 + k] = w[k]
  /\ \A k \in 12 + Len(w) + 1 .. 16 + Len(w) : out.bytes[k] = buf[k]

\* protocol_send frames what the loop has written.
LEMMA SendIs ==
  ASSUME NEW s, NEW w, s.type \in CInt, s.length \in Nat, s.length <= INT_MAX, w \in Seq(Nat),
         w = TokensWritten(s)[s.length],
         NEW buf \in Seq(Nat), 16 + Len(w) <= Len(buf)
  PROVE  Framed(protocol_send(s, buf), s, w, buf)
<1> DEFINE n == Len(w)
           h1 == IntBytes(4 + (8 + n) + 4)
           h2 == IntBytes(s.type)
           h3 == IntBytes(s.length)
           body == h2 \o h3 \o w
           m == h1 \o body
           filled == Overwritten(buf, m)
           bytes == SubSeq(filled, 1, 16 + n)
<1>1. n \in Nat
  OBVIOUS
<1>2. /\ h1 \in Seq(Nat) /\ Len(h1) = 4
      /\ h2 \in Seq(Nat) /\ Len(h2) = 4 /\ FromBytes(h2[1], h2[2], h2[3], h2[4]) = s.type
      /\ h3 \in Seq(Nat) /\ Len(h3) = 4 /\ FromBytes(h3[1], h3[2], h3[3], h3[4]) = s.length
  <2>1. /\ 4 + (8 + n) + 4 \in Int /\ s.type \in Int
        /\ s.length \in Int /\ s.length \in CInt
    BY <1>1, SMTT(30) DEF CInt, INT_MAX
  <2> HIDE DEF n
  <2> QED  BY <2>1, IntBytesAre, ZenonT(30)
<1> HIDE DEF h1, h2, h3
<1>3. /\ body \in Seq(Nat) /\ Len(body) = 8 + n
      /\ \A k \in 1 .. 4 : body[k] = h2[k] /\ body[4 + k] = h3[k]
      /\ \A k \in 1 .. n : body[8 + k] = w[k]
  <2> DEFINE x == h2 \o h3
  <2>1. /\ x \in Seq(Nat) /\ Len(x) = 8
        /\ \A k \in 1 .. 4 : x[k] = h2[k] /\ x[4 + k] = h3[k]
    <3>1. /\ x \in Seq(Nat) /\ Len(x) = Len(h2) + Len(h3)
          /\ \A k \in 1 .. Len(h2) : x[k] = h2[k]
          /\ \A k \in 1 .. Len(h3) : x[Len(h2) + k] = h3[k]
      BY <1>2, Concatenated, ZenonT(30)
    <3> HIDE DEF x
    <3> QED  BY <1>2, <3>1
  <2> HIDE DEF x
  <2>2. /\ x \o w \in Seq(Nat) /\ Len(x \o w) = 8 + n
        /\ \A k \in 1 .. 8 : (x \o w)[k] = x[k]
        /\ \A k \in 1 .. n : (x \o w)[8 + k] = w[k]
    <3> DEFINE y == x \o w
    <3>1. /\ y \in Seq(Nat) /\ Len(y) = Len(x) + Len(w)
          /\ \A k \in 1 .. Len(x) : y[k] = x[k]
          /\ \A k \in 1 .. Len(w) : y[Len(x) + k] = w[k]
      BY <2>1, Concatenated
    <3> HIDE DEF y
    <3>2. Len(x) = 8
      BY <2>1
    <3>3. Len(y) = 8 + n /\ \A k \in 1 .. 8 : y[k] = x[k]
      BY <3>1, <3>2
    <3>4. \A k \in 1 .. n : y[8 + k] = w[k]
      BY <3>1, <3>2
    <3> QED  BY <3>1, <3>3, <3>4 DEF y
  <2>3. body = x \o w
    BY DEF x
  <2> HIDE DEF body
  <2>4. \A k \in 1 .. 4 : body[k] = x[k] /\ body[4 + k] = x[4 + k]
    <3>1. \A k \in 1 .. 4 : k \in 1 .. 8 /\ 4 + k \in 1 .. 8
      OBVIOUS
    <3>2. \A k \in 1 .. 8 : body[k] = x[k]
      BY <2>2, <2>3, Zenon
    <3> QED  BY <3>1, <3>2
  <2> HIDE DEF n
  <2> QED  BY <2>1, <2>2, <2>3, <2>4
<1>4. protocol_tokenstream_to_buf(s) = body
  BY DEF protocol_tokenstream_to_buf, h2, h3
<1> HIDE DEF body
<1>5. /\ m \in Seq(Nat) /\ Len(m) = 12 + n
      /\ \A k \in 1 .. 8 : m[4 + k] = body[k]
      /\ \A k \in 1 .. n : m[12 + k] = body[8 + k]
  <2>1. /\ m \in Seq(Nat) /\ Len(m) = 12 + n
        /\ \A k \in 1 .. 8 + n : m[4 + k] = body[k]
    <3>1. /\ m \in Seq(Nat) /\ Len(m) = Len(h1) + Len(body)
          /\ \A k \in 1 .. Len(body) : m[Len(h1) + k] = body[k]
      BY <1>2, <1>3, Concatenated, ZenonT(40)
    <3> HIDE DEF m
    <3> QED  BY <1>1, <1>2, <1>3, <3>1
  <2> HIDE DEF m
  <2>2. \A k \in 1 .. n : 8 + k \in 1 .. 8 + n /\ 4 + (8 + k) = 12 + k
    BY <1>1
  <2>3. \A k \in 1 .. 8 : k \in 1 .. 8 + n
    BY <1>1, SMTT(30)
  <2>4. \A k \in 1 .. 8 : m[4 + k] = body[k]
    BY <2>1, <2>3
  <2>5. ASSUME NEW k \in 1 .. n PROVE m[12 + k] = body[8 + k]
    BY <2>1, <2>2
  <2> QED  BY <2>1, <2>4, <2>5
<1> HIDE DEF m
<1>6. /\ filled \in Seq(Nat) /\ Len(filled) = Len(buf)
      /\ \A i \in 1 .. Len(buf) : filled[i] = IF i <= Len(m) THEN m[i] ELSE buf[i]
  <2>1. Len(m) <= Len(buf)
    <3>1. Len(m) = 12 + n /\ 16 + n <= Len(buf) /\ Len(buf) \in Nat
      BY <1>5
    <3> HIDE DEF n
    <3> QED  BY <1>1, <3>1
  <2> QED  BY <1>5, <2>1, OverwrittenIs, ZenonT(30)
<1> HIDE DEF filled
<1>7. /\ bytes \in Seq(Nat) /\ Len(bytes) = 16 + n
      /\ \A i \in 1 .. 16 + n : bytes[i] = filled[i]
  BY <1>1, <1>6, SMTT(30)
<1> HIDE DEF bytes
<1>8. \A i \in 1 .. 16 + n : bytes[i] = IF i <= 12 + n THEN m[i] ELSE buf[i]
  <2> SUFFICES ASSUME NEW i \in 1 .. 16 + n PROVE bytes[i] = IF i <= 12 + n THEN m[i] ELSE buf[i]
    OBVIOUS
  <2>1. i \in 1 .. Len(buf)
    BY <1>1
  <2> QED  BY <1>5, <1>6, <1>7, <2>1
<1>9. protocol_send(s, buf) = [buf |-> filled, bytes |-> bytes]
  <2>1. SizeofInt + Len(body) + SizeofInt = 4 + (8 + n) + 4 /\ 4 + (8 + n) + 4 = 16 + n
    BY <1>1, <1>3 DEF SizeofInt
  <2> HIDE DEF n
  <2> QED  BY <1>4, <2>1 DEF protocol_send, filled, bytes, m, h1
<1>10. IntAt(bytes, SizeofInt) = s.type /\ IntAt(bytes, 2 * SizeofInt) = s.length
  <2>1. \A k \in 1 .. 8 : bytes[4 + k] = m[4 + k]
    <3>1. \A k \in 1 .. 8 : 4 + k \in 1 .. 16 + n /\ 4 + k <= 12 + n
      <4> HIDE DEF n
      <4> QED  BY <1>1, SMTT(30)
    <3> HIDE DEF n
    <3> QED  BY <1>8, <3>1
  <2>2. \A k \in 1 .. 4 : bytes[4 + k] = h2[k] /\ bytes[8 + k] = h3[k]
    <3> SUFFICES ASSUME NEW k \in 1 .. 4 PROVE bytes[4 + k] = h2[k] /\ bytes[8 + k] = h3[k]
      OBVIOUS
    <3>1. k \in 1 .. 8 /\ 4 + k \in 1 .. 8 /\ 4 + (4 + k) = 8 + k
      OBVIOUS
    <3>2. bytes[4 + k] = body[k] /\ bytes[4 + (4 + k)] = body[4 + k]
      BY <2>1, <1>5, <3>1
    <3>3. body[k] = h2[k] /\ body[4 + k] = h3[k]
      BY <1>3
    <3> QED  BY <3>1, <3>2, <3>3
  <2>3. SizeofInt = 4 /\ 2 * SizeofInt = 8
    BY DEF SizeofInt
  <2>4. /\ bytes[5] = h2[1] /\ bytes[6] = h2[2] /\ bytes[7] = h2[3] /\ bytes[8] = h2[4]
        /\ bytes[9] = h3[1] /\ bytes[10] = h3[2] /\ bytes[11] = h3[3] /\ bytes[12] = h3[4]
    BY <2>2
  <2>5. /\ IntAt(bytes, 4) = FromBytes(bytes[5], bytes[6], bytes[7], bytes[8])
        /\ IntAt(bytes, 8) = FromBytes(bytes[9], bytes[10], bytes[11], bytes[12])
    BY DEF IntAt
  <2> QED  BY <1>2, <2>3, <2>4, <2>5, Zenon
<1>11. \A k \in 1 .. n : bytes[12 + k] = w[k]
  <2> SUFFICES ASSUME NEW k \in 1 .. n PROVE bytes[12 + k] = w[k]
    OBVIOUS
  <2>1. 12 + k \in 1 .. 16 + n /\ 12 + k <= 12 + n
    BY <1>1
  <2> QED  BY <2>1, <1>3, <1>5, <1>8
<1>12. \A k \in 12 + n + 1 .. 16 + n : bytes[k] = buf[k]
  <2> SUFFICES ASSUME NEW k \in 12 + n + 1 .. 16 + n PROVE bytes[k] = buf[k]
    OBVIOUS
  <2>1. k \in 1 .. 16 + n /\ ~ (k <= 12 + n)
    BY <1>1
  <2> QED  BY <2>1, <1>8
<1> QED  BY <1>6, <1>7, <1>9, <1>10, <1>11, <1>12 DEF Framed

\* What a sent stream is read as are tokens.
LEMMA ReadAsTokens ==
  ASSUME NEW s, NEW empty, Stuffed(s, empty)
  PROVE  /\ ReadAs(s, empty) \in Seq(Token) /\ Len(ReadAs(s, empty)) = s.length
         /\ \A i \in 1 .. s.length :
              ReadAs(s, empty)[i] = IF i <= s.length - empty THEN s.tokens[empty + i - 1] ELSE NoToken
<1> DEFINE n == s.length
           ts == ReadAs(s, empty)
<1>1. n \in Nat /\ empty \in 0 .. n /\ \A k \in 0 .. n - 1 : s.tokens[k] \in Token
  BY StuffedTokens
<1>2. NoToken \in Token
  BY DEF NoToken, Token, Text, TOKEN_NONE
<1>3. ASSUME NEW i \in 1 .. n PROVE ts[i] \in Token
  <2>1. CASE i <= n - empty
    <3>1. empty + i - 1 \in 0 .. n - 1
      BY <1>1, <2>1
    <3>2. ts[i] = s.tokens[empty + i - 1]
      BY <2>1 DEF ReadAs
    <3> QED  BY <1>1, <3>1, <3>2
  <2>2. CASE ~ (i <= n - empty)
    BY <1>2, <2>2 DEF ReadAs
  <2> QED  BY <2>1, <2>2
<1>4. ts \in [1 .. n -> Token]
  BY <1>3 DEF ReadAs
<1>5. ts \in Seq(Token) /\ Len(ts) = n
  <2> HIDE DEF n, ts
  <2> QED  BY <1>1, <1>4
<1> QED  BY <1>5 DEF ReadAs

\* A stream with at most two empty tokens is sent as a message from which its tokens
\* can be read: the four bytes sent in excess stand for the empty ones.
LEMMA SentHolds ==
  ASSUME NEW s, NEW empty \in 0 .. 2, Stuffed(s, empty),
         NEW buf \in Seq(Nat), 16 + Len(TokensWritten(s)[s.length]) <= Len(buf),
         empty # 0 => \A k \in 1 .. Len(buf) : buf[k] = 0
  PROVE  /\ protocol_send(s, buf).buf \in Seq(Nat) /\ Len(protocol_send(s, buf).buf) = Len(buf)
         /\ protocol_send(s, buf).bytes \in Seq(Nat)
         /\ Len(protocol_send(s, buf).bytes) \in 16 .. Len(buf)
         /\ Holds(protocol_send(s, buf).bytes, s.type, ReadAs(s, empty))
<1> DEFINE n == s.length
           t == n - empty
           w == TokensWritten(s)
           all == w[n]
           m == protocol_send(s, buf).bytes
           ts == ReadAs(s, empty)
           at == [i \in 1 .. n + 1 |-> IF i <= t + 1 THEN 13 + Len(w[empty + i - 1])
                                       ELSE 13 + Len(all) + 2 * (i - t - 1)]
<1>1. n \in Nat /\ empty \in 0 .. n /\ s.type \in CInt /\ t \in 0 .. n /\ empty + t = n
  BY StuffedTokens
<1>0. empty \in Nat /\ empty <= 2 /\ t \in Nat
  BY <1>1
<1>2. /\ \A i \in 0 .. n : w[i] \in Seq(Nat) /\ Prefix(w[i], all)
      /\ \A i \in 0 .. empty : w[i] = <<>>
  BY LoopWrites
<1>3. \A i \in 1 .. n : w[i] = w[i - 1] \o TokenBytes(TokenAt(s, i - 1))
  BY <1>1, WriteDefined
<1>4. all \in Seq(Nat) /\ Len(all) \in Nat
  <2>1. n \in 0 .. n
    BY <1>1
  <2>2. all \in Seq(Nat)
    BY <1>2, <2>1
  <2> QED  BY <2>2
<1>5. /\ protocol_send(s, buf).buf \in Seq(Nat) /\ Len(protocol_send(s, buf).buf) = Len(buf)
      /\ m \in Seq(Nat) /\ Len(m) = 16 + Len(all)
      /\ IntAt(m, SizeofInt) = s.type /\ IntAt(m, 2 * SizeofInt) = n
      /\ \A k \in 1 .. Len(all) : m[12 + k] = all[k]
      /\ \A k \in 12 + Len(all) + 1 .. 16 + Len(all) : m[k] = buf[k]
  <2>1. s.type \in CInt /\ s.length \in Nat /\ s.length <= INT_MAX
        /\ all = TokensWritten(s)[s.length]
    <3>1. s.length <= TOKEN_COUNT /\ TOKEN_COUNT \in Nat /\ TOKEN_COUNT <= INT_MAX
      BY ExchangeAssumption, StuffedTokens
    <3> QED  BY <1>1, <3>1, SMTT(30) DEF all, w, n, INT_MAX
  <2>2. 16 + Len(all) <= Len(buf)
    OBVIOUS
  <2> HIDE DEF all, w
  <2>3. Framed(protocol_send(s, buf), s, all, buf)
    BY <2>1, <2>2, <1>4, SendIs, Zenon
  <2> QED  BY <2>3 DEF Framed
<1>6. /\ ts \in Seq(Token) /\ Len(ts) = n
      /\ \A i \in 1 .. n : ts[i] = IF i <= t THEN s.tokens[empty + i - 1] ELSE NoToken
  BY ReadAsTokens
<1> HIDE DEF m, w, ts, all
<1>7. \A i \in 0 .. n : w[i] \in Seq(Nat) /\ Len(w[i]) \in Nat /\ Len(w[i]) <= Len(all)
  BY <1>2 DEF Prefix
<1>8. at \in [1 .. n + 1 -> Nat] /\ at[1] = 13
  <2>1. ASSUME NEW i \in 1 .. n + 1 PROVE at[i] \in Nat
    <3>1. CASE i <= t + 1
      <4>1. empty + i - 1 \in 0 .. n
        BY <1>1, <3>1
      <4>2. at[i] = 13 + Len(w[empty + i - 1])
        BY <3>1
      <4> HIDE DEF at
      <4> QED  BY <4>1, <4>2, <1>7
    <3>2. CASE ~ (i <= t + 1)
      <4>1. at[i] = 13 + Len(all) + 2 * (i - t - 1)
        BY <3>2
      <4> HIDE DEF at, n, t
      <4> QED  BY <4>1, <1>0, <1>1, <1>4, <3>2
    <3> QED  BY <3>1, <3>2
  <2>2. at[1] = 13
    <3>1. 1 \in 1 .. n + 1 /\ 1 <= t + 1 /\ empty + 1 - 1 = empty /\ empty \in 0 .. empty
      BY <1>1
    <3>2. Len(w[empty]) = 0
      BY <1>2, <3>1
    <3> QED  BY <3>1, <3>2
  <2> QED  BY <2>1, <2>2
<1>9. ASSUME NEW i \in 1 .. n
      PROVE  TokenIn(m, at[i], ts[i]) /\ at[i + 1] = at[i] + Len(ts[i].value) + 2
  <2>1. CASE i <= t
    <3> DEFINE j == empty + i - 1
               x == s.tokens[j]
               b == TokenBytes(x)
               p == Len(w[j])
               v == Len(x.value)
    <3>1. j \in 0 .. n - 1 /\ j \in empty .. n - 1 /\ j \in 0 .. n /\ j + 1 \in 1 .. n /\ (j + 1) - 1 = j
      BY <1>1, <2>1
    <3>2. x \in Token /\ TokenAt(s, j) = x /\ x.type # TOKEN_NONE
      BY <3>1, StuffedTokens
    <3>3. /\ b \in Seq(Nat) /\ Len(b) = v + 2 /\ b[1] = x.type /\ b[v + 2] = 0
          /\ \A k \in 1 .. v : b[k + 1] = x.value[k]
      BY <3>2, TokenBytesAre
    <3>4. v \in Nat
      BY <3>2 DEF Token, Text
    <3>5. w[j + 1] = w[j] \o b
      BY <1>3, <3>1, <3>2
    <3>6. at[i] = 13 + p /\ at[i + 1] = 13 + Len(w[j + 1])
      <4>1. i \in 1 .. n + 1 /\ i <= t + 1 /\ i + 1 \in 1 .. n + 1 /\ i + 1 <= t + 1 /\ empty + (i + 1) - 1 = j + 1
        <5> HIDE DEF n, t, at, x, b, p, v
        <5> QED  BY <1>1, <2>1, SMTT(30)
      <4> HIDE DEF j
      <4> QED  BY <4>1 DEF j
    <3>7. ts[i] = x
      BY <1>6, <2>1
    <3> HIDE DEF j, b, at, x
    <3>8. w[j] \in Seq(Nat) /\ p \in Nat
      BY <1>7, <3>1
    <3>9. /\ Len(w[j + 1]) = p + (v + 2)
          /\ \A k \in 1 .. v + 2 : w[j + 1][p + k] = b[k]
      <4> DEFINE y == w[j] \o b
      <4>1. Len(y) = Len(w[j]) + Len(b) /\ \A k \in 1 .. Len(b) : y[Len(w[j]) + k] = b[k]
        BY <3>3, <3>8, Concatenated
      <4> HIDE DEF y
      <4> QED  BY <3>3, <3>5, <4>1 DEF y
    <3>10. p + (v + 2) <= Len(all) /\ \A k \in 1 .. p + (v + 2) : all[k] = w[j + 1][k]
      <4>1. j + 1 \in 0 .. n
        BY <1>1, <3>1
      <4>2. Prefix(w[j + 1], all)
        BY <1>2, <4>1
      <4> QED  BY <4>2, <3>9 DEF Prefix
    <3> HIDE DEF p, v
    <3>11. ASSUME NEW k \in 1 .. v + 2 PROVE m[12 + p + k] = b[k]
      <4>1. p + k \in 1 .. p + (v + 2) /\ p + k \in 1 .. Len(all) /\ 12 + (p + k) = 12 + p + k
        BY <3>4, <3>8, <3>10, <1>4
      <4>2. m[12 + (p + k)] = all[p + k]
        BY <1>5, <4>1
      <4>3. all[p + k] = w[j + 1][p + k]
        BY <3>10, <4>1
      <4> QED  BY <3>9, <4>1, <4>2, <4>3
    <3>12. m[13 + p] = x.type
      <4>1. 1 \in 1 .. v + 2 /\ 12 + p + 1 = 13 + p
        BY <3>4, <3>8
      <4> QED  BY <3>3, <3>11, <4>1
    <3>13. m[13 + p + v + 1] = 0
      <4>1. v + 2 \in 1 .. v + 2 /\ 12 + p + (v + 2) = 13 + p + v + 1
        BY <3>4, <3>8
      <4> QED  BY <3>3, <3>11, <4>1
    <3>14. ASSUME NEW k \in 1 .. v PROVE m[13 + p + k] = x.value[k]
      <4>1. k + 1 \in 1 .. v + 2 /\ 12 + p + (k + 1) = 13 + p + k
        BY <3>4, <3>8
      <4> QED  BY <3>3, <3>11, <4>1
    <3>15. 13 + p + v + 1 <= Len(m)
      BY <1>5, <1>4, <3>4, <3>8, <3>10
    <3>16. TokenIn(m, 13 + p, x)
      BY <3>12, <3>13, <3>14, <3>15 DEF TokenIn, v
    <3>17. at[i + 1] = at[i] + v + 2
      BY <3>4, <3>6, <3>8, <3>9
    <3> QED  BY <3>6, <3>7, <3>16, <3>17 DEF v
  <2>2. CASE ~ (i <= t)
    <3>1. ts[i] = NoToken /\ NoToken.type = 0 /\ NoToken.value = <<>>
      BY <1>6, <2>2 DEF NoToken, TOKEN_NONE
    <3> DEFINE p == 13 + Len(all) + 2 * (i - t - 1)
    <3>2. at[i] = p /\ at[i + 1] = p + 2
      <4>1. at[i + 1] = p + 2
        <5>1. i + 1 \in 1 .. n + 1 /\ ~ (i + 1 <= t + 1) /\ 2 * ((i + 1) - t - 1) = 2 * (i - t - 1) + 2
          <6> HIDE DEF n, t
          <6> QED  BY <1>0, <1>1, <2>2
        <5>2. at[i + 1] = 13 + Len(all) + 2 * ((i + 1) - t - 1)
          <6> HIDE DEF n, t
          <6> QED  BY <5>1
        <5> HIDE DEF n, t, at
        <5> QED  BY <5>1, <5>2, <1>0, <1>1, <1>4
      <4>2. CASE i <= t + 1
        <5>1. i = t + 1 /\ i \in 1 .. n + 1 /\ empty + i - 1 = n /\ 2 * (i - t - 1) = 0
          <6> HIDE DEF n, t
          <6> QED  BY <1>0, <1>1, <2>2, <4>2
        <5>2. at[i] = 13 + Len(w[n])
          <6> HIDE DEF n, t
          <6> QED  BY <5>1
        <5> QED  BY <4>1, <5>1, <5>2, <1>4 DEF all
      <4>3. CASE ~ (i <= t + 1)
        <5> HIDE DEF n, t
        <5> QED  BY <4>1, <4>3, <1>1
      <4> QED  BY <4>2, <4>3
    <3> HIDE DEF at
    <3>3. empty # 0 /\ i - t \in 1 .. 2
      <4> HIDE DEF n, t
      <4> QED  BY <1>0, <1>1, <2>2
    <3>4. p \in 12 + Len(all) + 1 .. 16 + Len(all) /\ p + 1 \in 12 + Len(all) + 1 .. 16 + Len(all)
      <4> HIDE DEF n, t
      <4> QED  BY <1>0, <1>1, <1>4, <3>3
    <3>5. m[p] = 0 /\ m[p + 1] = 0
      <4>1. p \in 1 .. Len(buf) /\ p + 1 \in 1 .. Len(buf)
        BY <1>4, <3>4, SMTT(30) DEF all, w
      <4> HIDE DEF p
      <4> QED  BY <1>5, <3>3, <3>4, <4>1
    <3>6. p + 1 <= Len(m) /\ p \in Nat
      BY <1>4, <1>5, <3>4
    <3> HIDE DEF p
    <3>7. TokenIn(m, p, NoToken)
      <4>1. Len(NoToken.value) = 0 /\ p + 0 + 1 = p + 1
        BY <3>1, <3>6
      <4> QED  BY <3>1, <3>5, <3>6, <4>1 DEF TokenIn
    <3> QED  BY <3>1, <3>2, <3>6, <3>7
  <2> QED  BY <2>1, <2>2
<1> HIDE DEF at
<1>10. Laid(m, ts, at)
  <2> HIDE DEF n, t
  <2> QED  BY <1>6, <1>8, <1>9 DEF Laid
<1>11. Holds(m, s.type, ts)
  <2>1. 12 <= Len(m)
    BY <1>4, <1>5
  <2> QED  BY <1>5, <1>6, <1>10, <2>1 DEF Holds
<1>12. Len(m) \in 16 .. Len(buf)
  BY <1>4, <1>5 DEF all, w
<1> QED  BY <1>5, <1>11, <1>12 DEF m, ts

-----------------------------------------------------------------------------
\* The client: from the words of a command to a stream.

\* The streams before and after each token that is added.
Adds(f, s, ts) ==
  /\ f[0] = s /\ AddTokens(s, ts) = f[Len(ts)]
  /\ \A i \in 1 .. Len(ts) :
       f[i] = protocol_tokenstream_add_token(f[i - 1], ts[i].type, ts[i].value)

\* The loop of client_eval_cmds over the words is well defined.
LEMMA AddDefined ==
  ASSUME NEW s, NEW ts, Len(ts) \in Nat
  PROVE  \E f : Adds(f, s, ts)
<1> DEFINE Step(x, i) == protocol_tokenstream_add_token(x, ts[i].type, ts[i].value)
           Loop(m, f) == f = [i \in 0 .. m |-> IF i = 0 THEN s ELSE Step(f[i - 1], i)]
           S == {m \in Nat : \E f : Loop(m, f)}
           n == Len(ts)
<1>1. 0 \in S
  <2>1. Loop(0, [i \in 0 .. 0 |-> s])
    OBVIOUS
  <2> QED  BY <2>1
<1>2. ASSUME NEW m \in S PROVE m + 1 \in S
  <2>1. PICK f : Loop(m, f)
    OBVIOUS
  <2> DEFINE g == [i \in 0 .. m + 1 |-> IF i = m + 1 THEN Step(f[m], m + 1) ELSE f[i]]
  <2>2. Loop(m + 1, g)
    <3>1. ASSUME NEW i \in 0 .. m + 1 PROVE g[i] = IF i = 0 THEN s ELSE Step(g[i - 1], i)
      <4> HIDE DEF Step
      <4>1. CASE i = m + 1
        <5>1. i # 0 /\ i - 1 = m /\ m \in 0 .. m + 1 /\ m # m + 1
          BY <4>1
        <5> QED  BY <4>1, <5>1
      <4>2. CASE i # m + 1
        <5>1. i \in 0 .. m /\ (i # 0 => i - 1 \in 0 .. m /\ i - 1 # m + 1)
          BY <4>2
        <5>2. f[i] = IF i = 0 THEN s ELSE Step(f[i - 1], i)
          BY <2>1, <5>1
        <5> QED  BY <5>1, <5>2, <4>2
      <4> QED  BY <4>1, <4>2
    <3> HIDE DEF Step
    <3> QED  BY <3>1
  <2>3. m + 1 \in Nat
    OBVIOUS
  <2> HIDE DEF Loop, g
  <2> QED  BY <2>2, <2>3
<1>3. \E f : Loop(n, f)
  <2> HIDE DEF Loop
  <2>1. S \in SUBSET Nat
    OBVIOUS
  <2>2. n \in S
    <3> HIDE DEF S
    <3> QED  BY <1>1, <1>2, <2>1, Induction
  <2> QED  BY <2>2
<1> DEFINE f == CHOOSE f : Loop(n, f)
<1>4. Loop(n, f)
  <2> HIDE DEF Loop
  <2> QED  BY <1>3
<1>5. AddTokens(s, ts) = f[n]
  BY DEF AddTokens
<1>6. 0 \in 0 .. n /\ \A i \in 1 .. n : i \in 0 .. n /\ i # 0
  OBVIOUS
<1>7. f[0] = s /\ \A i \in 1 .. n : f[i] = Step(f[i - 1], i)
  <2> HIDE DEF f, n, Step
  <2> QED  BY <1>4, <1>6
<1> HIDE DEF f
<1>8. Adds(f, s, ts)
  BY <1>5, <1>7, Zenon DEF Adds
<1> QED  BY <1>8

\* The tokens are put behind the length that the stream already has.
Behind(s, ts, r, n) ==
  /\ r \in Stream /\ r.type = s.type /\ r.length = s.length + n
  /\ \A k \in 0 .. TOKEN_COUNT - 1 :
       r.tokens[k] = IF k \in s.length .. s.length + n - 1 THEN ts[k - s.length + 1]
                     ELSE s.tokens[k]

\* protocol_tokenstream_add_token writes one cell of the array.
LEMMA AddOne ==
  ASSUME NEW s \in Stream, NEW t \in Token, s.length < TOKEN_COUNT
  PROVE  LET r == protocol_tokenstream_add_token(s, t.type, t.value)
         IN  /\ r \in Stream /\ r.type = s.type /\ r.length = s.length + 1
             /\ \A k \in 0 .. TOKEN_COUNT - 1 :
                  r.tokens[k] = IF k = s.length THEN t ELSE s.tokens[k]
<1> USE ExchangeAssumption
<1> DEFINE r == protocol_tokenstream_add_token(s, t.type, t.value)
           tokens == [s.tokens EXCEPT ![s.length] = t]
<1>1. s.type \in CInt /\ s.length \in Nat /\ s.tokens \in [0 .. TOKEN_COUNT - 1 -> Token]
  BY DEF Stream
<1>2. t = [type |-> t.type, value |-> t.value]
  BY DEF Token
<1>3. r = [type |-> s.type, length |-> s.length + 1, tokens |-> tokens]
  <2>1. s = [type |-> s.type, length |-> s.length, tokens |-> s.tokens]
    BY DEF Stream
  <2>2. r = [s EXCEPT !.tokens[s.length] = t, !.length = @ + 1]
    BY <1>2 DEF protocol_tokenstream_add_token
  <2> DEFINE q == [s EXCEPT !.tokens[s.length] = t]
  <2>3. q = [type |-> s.type, length |-> s.length, tokens |-> tokens]
    BY <2>1
  <2>4. r = [q EXCEPT !.length = s.length + 1]
    <3> HIDE DEF r
    <3> QED  BY <1>1, <2>2 DEF Stream
  <2> HIDE DEF q, tokens, r
  <2> QED  BY <2>3, <2>4
<1>4. tokens \in [0 .. TOKEN_COUNT - 1 -> Token]
  BY <1>1
<1>5. \A k \in 0 .. TOKEN_COUNT - 1 : tokens[k] = IF k = s.length THEN t ELSE s.tokens[k]
  BY <1>1
<1> HIDE DEF r, tokens
<1>6. r \in Stream /\ r.type = s.type /\ r.length = s.length + 1 /\ r.tokens = tokens
  BY <1>1, <1>3, <1>4 DEF Stream
<1> QED  BY <1>5, <1>6 DEF r

\* Tokens added to a stream stand behind the ones it counts already.
LEMMA AddedBehind ==
  ASSUME NEW s \in Stream, NEW ts \in Seq(Token), s.length + Len(ts) <= TOKEN_COUNT
  PROVE  Behind(s, ts, AddTokens(s, ts), Len(ts))
<1> USE ExchangeAssumption
<1> DEFINE n == Len(ts)
           l == s.length
<1>1. n \in Nat /\ l \in Nat /\ l + n <= TOKEN_COUNT
  BY DEF Stream
<1> PICK f : Adds(f, s, ts)
  BY <1>1, AddDefined
<1>2. /\ f[0] = s /\ AddTokens(s, ts) = f[n]
      /\ \A i \in 1 .. n : f[i] = protocol_tokenstream_add_token(f[i - 1], ts[i].type, ts[i].value)
  BY Zenon DEF Adds
<1> DEFINE S == {i \in Nat : i <= n => Behind(s, ts, f[i], i)}
<1>3. 0 \in S
  <2>1. l + 0 = l /\ \A k \in 0 .. TOKEN_COUNT - 1 : ~ (k \in l .. l + 0 - 1)
    BY <1>1
  <2> QED  BY <1>2, <2>1 DEF Behind
<1>4. ASSUME NEW i \in S PROVE i + 1 \in S
  <2> SUFFICES ASSUME i + 1 <= n PROVE Behind(s, ts, f[i + 1], i + 1)
    BY <1>1
  <2> DEFINE a == f[i]
             t == ts[i + 1]
             r == protocol_tokenstream_add_token(a, t.type, t.value)
  <2>1. i \in Nat /\ i <= n /\ i + 1 \in 1 .. n /\ (i + 1) - 1 = i
    BY <1>1
  <2>2. Behind(s, ts, a, i)
    BY <2>1
  <2>3. f[i + 1] = r /\ t \in Token
    BY <1>2, <2>1
  <2>4. a \in Stream /\ a.length = l + i /\ a.type = s.type
    BY <2>2 DEF Behind
  <2>5. a.length < TOKEN_COUNT
    BY <1>1, <2>1, <2>4
  <2>6. /\ r \in Stream /\ r.type = a.type /\ r.length = a.length + 1
        /\ \A k \in 0 .. TOKEN_COUNT - 1 : r.tokens[k] = IF k = a.length THEN t ELSE a.tokens[k]
    <3> HIDE DEF a, t
    <3> QED  BY <2>3, <2>4, <2>5, AddOne
  <2> HIDE DEF a, r
  <2>7. ASSUME NEW k \in 0 .. TOKEN_COUNT - 1
        PROVE  r.tokens[k] = IF k \in l .. l + (i + 1) - 1 THEN ts[k - l + 1] ELSE s.tokens[k]
    <3>0. a.tokens[k] = IF k \in l .. l + i - 1 THEN ts[k - l + 1] ELSE s.tokens[k]
      BY <2>2 DEF Behind
    <3> HIDE DEF l, t
    <3>1. CASE k = l + i
      <4>1. k \in l .. l + (i + 1) - 1 /\ k - l + 1 = i + 1
        BY <1>1, <2>1, <3>1
      <4>2. r.tokens[k] = t
        BY <2>4, <2>6, <3>1
      <4> QED  BY <4>1, <4>2 DEF t
    <3>2. CASE k # l + i
      <4>1. k \in l .. l + (i + 1) - 1 <=> k \in l .. l + i - 1
        BY <1>1, <2>1, <3>2
      <4>2. r.tokens[k] = a.tokens[k]
        BY <2>4, <2>6, <3>2
      <4> QED  BY <3>0, <4>1, <4>2
    <3> QED  BY <3>1, <3>2
  <2>8. r.length = l + (i + 1) /\ r.type = s.type
    <3> HIDE DEF l
    <3> QED  BY <1>1, <2>1, <2>4, <2>6
  <2> QED  BY <2>3, <2>6, <2>7, <2>8 DEF Behind
<1>5. n \in S
  <2>1. S \in SUBSET Nat
    OBVIOUS
  <2> HIDE DEF S
  <2> QED  BY <1>1, <1>3, <1>4, <2>1, Induction
<1> QED  BY <1>1, <1>2, <1>5

\* The tokens below the length are cleared.
Cleared(r, s, type, length) ==
  /\ r \in Stream /\ r.type = type /\ r.length = length
  /\ \A k \in 0 .. TOKEN_COUNT - 1 :
       r.tokens[k] = IF k < s.length THEN NoToken ELSE s.tokens[k]

\* protocol_tokenstream_reset empties the counted tokens only.
LEMMA ResetIs ==
  ASSUME NEW s \in Stream, NEW type \in CInt, NEW length \in Nat
  PROVE  /\ Cleared([protocol_tokenstream_reset(s) EXCEPT !.type = type], s, type, 0)
         /\ Cleared([protocol_tokenstream_reset(s) EXCEPT !.type = type, !.length = length],
                    s, type, length)
<1> USE ExchangeAssumption
<1> DEFINE tokens == [k \in 0 .. TOKEN_COUNT - 1 |-> IF k < s.length THEN NoToken ELSE s.tokens[k]]
           z == protocol_tokenstream_reset(s)
           r == [z EXCEPT !.type = type]
           q == [z EXCEPT !.type = type, !.length = length]
<1>1. s.type \in CInt /\ s.length \in Nat /\ s.tokens \in [0 .. TOKEN_COUNT - 1 -> Token]
  BY DEF Stream
<1>2. s = [type |-> s.type, length |-> s.length, tokens |-> s.tokens]
  BY DEF Stream
<1>3. NoToken \in Token
  BY DEF NoToken, Token, Text, TOKEN_NONE
<1>4. tokens \in [0 .. TOKEN_COUNT - 1 -> Token]
  BY <1>1, <1>3
<1>5. z = [type |-> s.type, length |-> 0, tokens |-> tokens]
  <2>1. DOMAIN s.tokens = 0 .. TOKEN_COUNT - 1
    BY <1>1
  <2>2. z = [s EXCEPT !.tokens = tokens, !.length = 0]
    BY <2>1 DEF protocol_tokenstream_reset
  <2> DEFINE a == [s EXCEPT !.tokens = tokens]
  <2> HIDE DEF tokens
  <2>3. a = [type |-> s.type, length |-> s.length, tokens |-> tokens]
    BY <1>2
  <2>4. z = [a EXCEPT !.length = 0]
    <3> HIDE DEF z
    <3> QED  BY <1>1, <2>2 DEF Stream
  <2> HIDE DEF a, z
  <2> QED  BY <2>3, <2>4
<1> HIDE DEF tokens, z
<1>6. r = [type |-> type, length |-> 0, tokens |-> tokens]
  BY <1>5
<1>7. q = [type |-> type, length |-> length, tokens |-> tokens]
  <2>1. z \in Stream
    BY <1>1, <1>4, <1>5 DEF Stream
  <2>2. q = [r EXCEPT !.length = length]
    BY <2>1 DEF Stream
  <2> HIDE DEF q, r
  <2> QED  BY <1>6, <2>2
<1>8. \A k \in 0 .. TOKEN_COUNT - 1 : tokens[k] = IF k < s.length THEN NoToken ELSE s.tokens[k]
  BY DEF tokens
<1> HIDE DEF r, q
<1>9. r \in Stream /\ r.type = type /\ r.length = 0 /\ r.tokens = tokens
  BY <1>4, <1>6 DEF Stream
<1>10. q \in Stream /\ q.type = type /\ q.length = length /\ q.tokens = tokens
  BY <1>4, <1>7 DEF Stream
<1>11. Cleared(r, s, type, 0) /\ Cleared(q, s, type, length)
  BY <1>8, <1>9, <1>10 DEF Cleared
<1> QED  BY <1>11 DEF r, q, z

-----------------------------------------------------------------------------
Arg(w) == [type |-> TOKEN_ARG, value |-> w]
Var(w) == [type |-> TOKEN_VAR, value |-> w]

\* The commands that the agent always understands: at most two words behind the
\* command, which are strings, and not an -e without the variable behind it.
Plain(words) ==
  /\ words \in Seq(Text) /\ Len(words) \in 1 .. 3
  /\ Len(words) >= 2 => words[Len(words)] # EnvWord

WordTokens(words) ==
  IF Len(words) = 1 THEN <<>>
  ELSE IF Len(words) = 2 THEN <<Arg(words[2])>>
  ELSE IF words[2] = EnvWord THEN <<Var(words[3])>>
  ELSE <<Arg(words[2]), Arg(words[3])>>

\* Concatenation of at most two tokens.
LEMMA Singles ==
  ASSUME NEW a, NEW b
  PROVE  <<a>> \o <<>> = <<a>> /\ <<a>> \o <<b>> = <<a, b>>
<1>1. <<a>> \o <<>> = <<a>>
  OBVIOUS
<1>2. <<a>> \o <<b>> = <<a, b>>
  <2> DEFINE x == <<a>> \o <<b>>
             y == <<a, b>>
             T == {a, b}
  <2>1. x \in Seq(T) /\ Len(x) = 2 /\ x[1] = a /\ x[2] = b
    OBVIOUS
  <2>2. y \in Seq(T) /\ Len(y) = 2 /\ y[1] = a /\ y[2] = b
    OBVIOUS
  <2> HIDE DEF x, y, T
  <2>3. \A i \in 1 .. 2 : x[i] = y[i]
    BY <2>1, <2>2
  <2>4. x = y
    BY <2>1, <2>2, <2>3
  <2> QED  BY <2>4 DEF x, y
<1> QED  BY <1>1, <1>2

\* The loop of client_eval_cmds on a plain command gives its words as tokens.
LEMMA PlainTokens ==
  ASSUME NEW words, Plain(words)
  PROVE  Tokens(words) = WordTokens(words)
<1> DEFINE n == Len(words)
           Step(f, i) == IF i > n THEN <<>>
                         ELSE IF words[i] = EnvWord THEN <<Var(words[i + 1])>> \o f[i + 2]
                         ELSE <<Arg(words[i])>> \o f[i + 1]
           Loop(f) == f = [i \in 2 .. n + 2 |-> Step(f, i)]
           g == [i \in 2 .. n + 2 |-> IF i = 2 THEN WordTokens(words)
                                      ELSE IF i > n THEN <<>> ELSE <<Arg(words[i])>>]
<1>1. n \in 1 .. 3 /\ words # <<>>
  <2>1. n \in 1 .. 3
    BY DEF Plain
  <2>2. Len(<<>>) = 0
    OBVIOUS
  <2> QED  BY <2>1, <2>2
<1>2. n >= 2 => words[n] # EnvWord
  BY DEF Plain
<1>3. ASSUME NEW f
      PROVE  /\ \A i \in 2 .. n + 2 : i > n => Step(f, i) = <<>>
             /\ n >= 2 => Step(f, n) = <<Arg(words[n])>> \o f[n + 1]
             /\ n = 3 /\ words[2] = EnvWord => Step(f, 2) = <<Var(words[3])>> \o f[4]
             /\ n = 3 /\ words[2] # EnvWord => Step(f, 2) = <<Arg(words[2])>> \o f[3]
  <2> HIDE DEF n
  <2>1. \A i \in 2 .. n + 2 : i > n => Step(f, i) = <<>>
    OBVIOUS
  <2>2. n >= 2 => ~ (n > n)
    BY <1>1
  <2>3. n >= 2 => Step(f, n) = <<Arg(words[n])>> \o f[n + 1]
    BY <1>2, <2>2, Zenon
  <2>4. n = 3 => ~ (2 > n) /\ 2 + 1 = 3 /\ 2 + 2 = 4
    OBVIOUS
  <2>5. n = 3 /\ words[2] = EnvWord => Step(f, 2) = <<Var(words[3])>> \o f[4]
    <3>1. n = 3 /\ words[2] = EnvWord => Step(f, 2) = <<Var(words[2 + 1])>> \o f[2 + 2]
      BY <2>4, Zenon
    <3> HIDE DEF Step
    <3> QED  BY <2>4, <3>1
  <2>6. n = 3 /\ words[2] # EnvWord => Step(f, 2) = <<Arg(words[2])>> \o f[3]
    <3>1. n = 3 /\ words[2] # EnvWord => Step(f, 2) = <<Arg(words[2])>> \o f[2 + 1]
      BY <2>4, Zenon
    <3> HIDE DEF Step
    <3> QED  BY <2>4, <3>1
  <2> HIDE DEF Step
  <2> QED  BY <2>1, <2>3, <2>5, <2>6
<1>4. /\ n = 1 => WordTokens(words) = <<>>
      /\ n = 2 => WordTokens(words) = <<Arg(words[2])>>
      /\ n = 3 /\ words[2] = EnvWord => WordTokens(words) = <<Var(words[3])>>
      /\ n = 3 /\ words[2] # EnvWord => WordTokens(words) = <<Arg(words[2]), Arg(words[3])>>
  <2>1. ~ (2 = 1) /\ ~ (3 = 1) /\ ~ (3 = 2)
    OBVIOUS
  <2> QED  BY <2>1, Zenon DEF WordTokens
<1> HIDE DEF Step, n
<1>5. ASSUME NEW f, Loop(f) PROVE f[2] = WordTokens(words)
  <2>0. \A i \in 2 .. n + 2 : f[i] = Step(f, i)
    BY <1>5
  <2>1. f[2] = Step(f, 2) /\ f[n + 1] = Step(f, n + 1) /\ (n >= 2 => f[n] = Step(f, n))
    BY <1>1, <2>0
  <2>2. n + 1 # 2 => f[n + 1] = <<>>
    BY <1>1, <1>3, <2>1
  <2>3. CASE n = 1
    BY <1>3, <1>4, <2>1, <2>3
  <2>4. CASE n = 2
    BY <1>3, <1>4, <2>1, <2>2, <2>4, Singles
  <2>5. CASE n = 3
    <3>1. f[4] = <<>> /\ f[3] = <<Arg(words[3])>>
      BY <1>3, <2>1, <2>2, <2>5, Singles
    <3>2. CASE words[2] = EnvWord
      BY <1>3, <1>4, <2>1, <2>5, <3>1, <3>2, Singles
    <3>3. CASE words[2] # EnvWord
      BY <1>3, <1>4, <2>1, <2>5, <3>1, <3>3, Singles
    <3> QED  BY <3>2, <3>3
  <2> QED  BY <1>1, <2>3, <2>4, <2>5
<1>6. Loop(g)
  <2> SUFFICES ASSUME NEW i \in 2 .. n + 2 PROVE g[i] = Step(g, i)
    OBVIOUS
  <2>0. \A j \in 2 .. n + 2 : g[j] = IF j = 2 THEN WordTokens(words) ELSE IF j > n THEN <<>> ELSE <<Arg(words[j])>>
    OBVIOUS
  <2> HIDE DEF g
  <2>1. /\ g[2] = WordTokens(words)
        /\ n = 2 => g[3] = <<>>
        /\ n = 3 => g[3] = <<Arg(words[3])>> /\ g[4] = <<>>
    <3>1. 2 \in 2 .. n + 2
      BY <1>1
    <3>2. g[2] = WordTokens(words)
      BY <2>0, <3>1
    <3>3. n = 2 => 3 \in 2 .. n + 2 /\ 3 # 2 /\ 3 > n
      OBVIOUS
    <3>4. n = 3 => 3 \in 2 .. n + 2 /\ 3 # 2 /\ ~ (3 > n) /\ 4 \in 2 .. n + 2 /\ 4 # 2 /\ 4 > n
      OBVIOUS
    <3>5. n = 2 => g[3] = <<>>
      BY <2>0, <3>3, Zenon
    <3>6. n = 3 => g[3] = <<Arg(words[3])>> /\ g[4] = <<>>
      BY <2>0, <3>4, Zenon
    <3> QED  BY <3>2, <3>5, <3>6
  <2>2. CASE i > n
    <3>1. g[i] = <<>>
      <4>1. CASE i = 2
        BY <1>1, <1>4, <2>1, <2>2, <4>1
      <4>2. CASE i # 2
        BY <2>0, <2>2, <4>2
      <4> QED  BY <4>1, <4>2
    <3> QED  BY <1>3, <2>2, <3>1
  <2>3. CASE i = n
    <3>1. n = 2 \/ n = 3
      BY <1>1, <2>3
    <3>2. g[n] = <<Arg(words[n])>> /\ g[n + 1] = <<>>
      BY <1>4, <2>1, <3>1
    <3>3. Step(g, n) = <<Arg(words[n])>> \o g[n + 1]
      BY <1>3, <3>1
    <3> QED  BY <2>3, <3>2, <3>3, Singles
  <2>4. CASE i < n
    <3>1. n = 3 /\ i = 2
      BY <1>1, <2>4
    <3>2. CASE words[2] = EnvWord
      BY <1>3, <1>4, <2>1, <3>1, <3>2, Singles, ZenonT(40)
    <3>3. CASE words[2] # EnvWord
      BY <1>3, <1>4, <2>1, <3>1, <3>3, Singles, ZenonT(40)
    <3> QED  BY <3>2, <3>3
  <2> QED  BY <1>1, <2>2, <2>3, <2>4
<1> DEFINE f == CHOOSE f : Loop(f)
<1>7. Loop(f)
  <2> HIDE DEF Loop, g
  <2> QED  BY <1>6
<1>8. Tokens(words) = f[2]
  BY <1>1 DEF Tokens, Arg, Var, Step, n
<1> HIDE DEF f, Loop
<1> QED  BY <1>5, <1>7, <1>8

\* At most two tokens, none of them empty.
LEMMA WordTokensAre ==
  ASSUME NEW words, Plain(words)
  PROVE  /\ WordTokens(words) \in Seq(Token) /\ Len(WordTokens(words)) \in 0 .. 2
         /\ \A i \in 1 .. Len(WordTokens(words)) : WordTokens(words)[i].type # TOKEN_NONE
         /\ Len(words) - 1 \in 0 .. 2
         /\ Len(words) = 1 => WordTokens(words) = <<>>
         /\ Len(words) # 1 => WordTokens(words) # <<>>
         /\ Len(WordTokens(words)) + (Len(words) - 1) <= 4
<1> DEFINE n == Len(words)
           ts == WordTokens(words)
<1>1. n \in 1 .. 3
  BY DEF Plain
<1>2. \A i \in 1 .. n : words[i] \in Text
  BY DEF Plain
<1>3. \A w \in Text : Arg(w) \in Token /\ Var(w) \in Token /\ Arg(w).type # TOKEN_NONE /\ Var(w).type # TOKEN_NONE
  BY DEF Arg, Var, Token, TOKEN_ARG, TOKEN_VAR, TOKEN_NONE
<1>4. CASE n = 1
  <2>1. ts = <<>>
    BY <1>4 DEF WordTokens
  <2> HIDE DEF ts, n
  <2> QED  BY <1>4, <2>1 DEF ts, n
<1>5. CASE n = 2
  <2> DEFINE a == Arg(words[2])
  <2>1. ts = <<a>>
    BY <1>5 DEF WordTokens
  <2>2. a \in Token /\ a.type # TOKEN_NONE
    BY <1>2, <1>3, <1>5
  <2> HIDE DEF ts, n, a
  <2>3. ts \in Seq(Token) /\ Len(ts) = 1 /\ ts # <<>> /\ \A i \in 1 .. 1 : ts[i] = a
    BY <2>1, <2>2
  <2> QED  BY <1>5, <2>2, <2>3 DEF ts, n
<1>6. CASE n = 3 /\ words[2] = EnvWord
  <2> DEFINE a == Var(words[3])
  <2>1. ts = <<a>>
    BY <1>6 DEF WordTokens
  <2>2. a \in Token /\ a.type # TOKEN_NONE
    BY <1>2, <1>3, <1>6
  <2> HIDE DEF ts, n, a
  <2>3. ts \in Seq(Token) /\ Len(ts) = 1 /\ ts # <<>> /\ \A i \in 1 .. 1 : ts[i] = a
    BY <2>1, <2>2
  <2> QED  BY <1>6, <2>2, <2>3 DEF ts, n
<1>7. CASE n = 3 /\ words[2] # EnvWord
  <2> DEFINE a == Arg(words[2])
             b == Arg(words[3])
  <2>1. ts = <<a, b>>
    BY <1>7 DEF WordTokens
  <2>2. a \in Token /\ a.type # TOKEN_NONE /\ b \in Token /\ b.type # TOKEN_NONE
    BY <1>2, <1>3, <1>7
  <2> HIDE DEF ts, n, a, b
  <2>3. ts \in Seq(Token) /\ Len(ts) = 2 /\ ts # <<>> /\ \A i \in 1 .. 2 : ts[i] \in {a, b}
    BY <2>1, <2>2
  <2> QED  BY <1>7, <2>2, <2>3 DEF ts, n
<1> QED  BY <1>1, <1>4, <1>5, <1>6, <1>7

\* What the tokens of a plain command take in the buffer.
Bytes(ts) ==
  IF Len(ts) = 0 THEN 0
  ELSE IF Len(ts) = 1 THEN Len(ts[1].value) + 2
  ELSE Len(ts[1].value) + 2 + Len(ts[2].value) + 2

\* A stream whose first tokens are empty once it has been reset.
Ready(s, empty) ==
  /\ s \in Stream
  /\ \A k \in 0 .. empty - 1 : k < s.length \/ s.tokens[k] = NoToken

\* The stream of a client that has evaluated its command.
Evaluated(r, words) ==
  LET ts == WordTokens(words)
      empty == Len(words) - 1
  IN  /\ Stuffed(r, empty)
      /\ r.type = MsgType(words) /\ r.length = empty + Len(ts)
      /\ \A k \in empty .. r.length - 1 : r.tokens[k] = ts[k - empty + 1]

\* The type of a message is an int, also without a command.
LEMMA MsgTypeIs == \A words : MsgType(words) \in CInt
BY SMTT(30) DEF MsgType, NO_COMMAND, MSG_TASK_RUN, MSG_WORKSPACE_SET, CInt, INT_MAX

\* client_eval_cmds leaves an empty token for every word it counted in advance, and the
\* words behind them.
LEMMA EvalEvaluates ==
  ASSUME NEW words, Plain(words), NEW s, Ready(s, Len(words) - 1), TOKEN_COUNT >= 4
  PROVE  Evaluated(client_eval_cmds(words, protocol_tokenstream_reset(s)), words)
<1>0. TOKEN_COUNT \in Nat /\ 4 <= TOKEN_COUNT
  BY ExchangeAssumption
<1> DEFINE ts == WordTokens(words)
           n == Len(ts)
           empty == Len(words) - 1
           q == [protocol_tokenstream_reset(s) EXCEPT !.type = MsgType(words), !.length = empty]
           r == client_eval_cmds(words, protocol_tokenstream_reset(s))
<1>1. ts \in Seq(Token) /\ n \in 0 .. 2 /\ empty \in 0 .. 2
  BY WordTokensAre
<1>2. \A i \in 1 .. Len(ts) : ts[i].type # TOKEN_NONE
  BY WordTokensAre
<1>3. MsgType(words) \in CInt
  BY MsgTypeIs
<1>4. s \in Stream /\ \A k \in 0 .. empty - 1 : k < s.length \/ s.tokens[k] = NoToken
  BY DEF Ready
<1>5. /\ q \in Stream /\ q.type = MsgType(words) /\ q.length = empty
      /\ \A k \in 0 .. TOKEN_COUNT - 1 : q.tokens[k] = IF k < s.length THEN NoToken ELSE s.tokens[k]
  <2>1. empty \in Nat
    BY <1>1
  <2> HIDE DEF empty
  <2>2. Cleared(q, s, MsgType(words), empty)
    BY <1>3, <1>4, <2>1, ResetIs, Zenon
  <2> QED  BY <2>2 DEF Cleared
<1>6. r = AddTokens(q, ts)
  BY PlainTokens DEF client_eval_cmds
<1> HIDE DEF q, r, ts, empty, n
<1>7. \A k \in 0 .. empty - 1 : q.tokens[k] = NoToken
  <2> SUFFICES ASSUME NEW k \in 0 .. empty - 1 PROVE q.tokens[k] = NoToken
    OBVIOUS
  <2>1. k \in 0 .. TOKEN_COUNT - 1
    BY <1>0, <1>1
  <2> QED  BY <1>4, <1>5, <2>1
<1>8. Behind(q, ts, r, Len(ts))
  <2>1. q.length + Len(ts) <= TOKEN_COUNT
    <3>1. empty + n <= TOKEN_COUNT
      BY <1>0, <1>1
    <3> QED  BY <1>5, <3>1 DEF n
  <2> QED  BY <1>1, <1>5, <1>6, <2>1, AddedBehind
<1>9. /\ r \in Stream /\ r.type = MsgType(words) /\ r.length = empty + n
      /\ \A k \in 0 .. TOKEN_COUNT - 1 :
           r.tokens[k] = IF k \in empty .. empty + n - 1 THEN ts[k - empty + 1] ELSE q.tokens[k]
  BY <1>5, <1>8 DEF Behind, n
<1>10. ASSUME NEW k \in 0 .. empty - 1 PROVE r.tokens[k] = NoToken
  <2>1. k \in 0 .. TOKEN_COUNT - 1 /\ ~ (k \in empty .. empty + n - 1)
    BY <1>0, <1>1
  <2> QED  BY <1>7, <1>9, <2>1
<1>11. ASSUME NEW k \in empty .. r.length - 1
       PROVE  r.tokens[k] = ts[k - empty + 1] /\ r.tokens[k].type # TOKEN_NONE
  <2>1. k \in 0 .. TOKEN_COUNT - 1 /\ k \in empty .. empty + n - 1 /\ k - empty + 1 \in 1 .. n
    <3>0. r.length = empty + n
      BY <1>9
    <3>1. k \in empty .. (empty + n) - 1
      BY <3>0
    <3> QED  BY <1>0, <1>1, <3>1
  <2> QED  BY <1>2, <1>9, <2>1 DEF n
<1>12. r.length <= TOKEN_COUNT /\ empty \in 0 .. r.length
  <2>1. empty + n <= TOKEN_COUNT /\ empty \in 0 .. empty + n
    BY <1>0, <1>1
  <2> QED  BY <1>9, <2>1
<1>13. Stuffed(r, empty)
  BY <1>9, <1>10, <1>11, <1>12 DEF Stuffed
<1>14. Evaluated(r, words)
  BY <1>9, <1>11, <1>13 DEF Evaluated, ts, empty, n
<1> QED  BY <1>14 DEF r

\* The encoding of an evaluated command takes the bytes of its words.
LEMMA EvaluatedBytes ==
  ASSUME NEW words, Plain(words), NEW r, Evaluated(r, words)
  PROVE  Len(TokensWritten(r)[r.length]) = Bytes(WordTokens(words))
<1> DEFINE ts == WordTokens(words)
           n == Len(ts)
           empty == Len(words) - 1
           w == TokensWritten(r)
<1>1. ts \in Seq(Token) /\ n \in 0 .. 2 /\ empty \in 0 .. 2 /\ \A i \in 1 .. n : ts[i].type # TOKEN_NONE
  BY WordTokensAre
<1>2. Stuffed(r, empty) /\ r.length = empty + n
  BY DEF Evaluated
<1>3. \A k \in empty .. r.length - 1 : r.tokens[k] = ts[k - empty + 1]
  BY DEF Evaluated
<1>4. /\ r.length \in Nat
      /\ \A k \in 0 .. r.length - 1 : TokenAt(r, k) = r.tokens[k]
  BY <1>2, StuffedTokens
<1>5. \A i \in 1 .. r.length : w[i] = w[i - 1] \o TokenBytes(TokenAt(r, i - 1))
  BY <1>4, WriteDefined
<1>6. (\A i \in 0 .. r.length : w[i] \in Seq(Nat)) /\ \A i \in 0 .. empty : w[i] = <<>>
  BY <1>2, LoopWrites
<1> HIDE DEF w, ts, empty, n
<1>7. w[empty] = <<>>
  BY <1>1, <1>6
<1>8. ASSUME NEW i \in 1 .. n, NEW j, j = empty + i
      PROVE  /\ Len(w[j]) = Len(w[j - 1]) + (Len(ts[i].value) + 2)
             /\ Len(w[j - 1]) \in Nat /\ Len(ts[i].value) \in Nat
  <2> DEFINE b == TokenBytes(ts[i])
  <2>0. j \in 1 .. empty + n /\ j - 1 \in 0 .. empty + n /\ j - 1 \in 0 .. (empty + n) - 1
        /\ j - 1 \in empty .. (empty + n) - 1 /\ (j - 1) - empty + 1 = i
    BY <1>1, <1>8
  <2>1. j \in 1 .. r.length /\ j - 1 \in 0 .. r.length /\ j - 1 \in 0 .. r.length - 1
        /\ j - 1 \in empty .. r.length - 1 /\ (j - 1) - empty + 1 = i
    BY <1>2, <2>0
  <2>2. TokenAt(r, j - 1) = ts[i]
    BY <1>3, <1>4, <2>1
  <2>3. ts[i] \in Token /\ ts[i].type # TOKEN_NONE
    BY <1>1 DEF n
  <2>4. b \in Seq(Nat) /\ Len(b) = Len(ts[i].value) + 2
    BY <2>3, TokenBytesAre
  <2>5. w[j] = w[j - 1] \o b /\ w[j - 1] \in Seq(Nat)
    BY <1>5, <1>6, <2>1, <2>2
  <2>6. Len(ts[i].value) \in Nat
    BY <2>3 DEF Token, Text
  <2> DEFINE x == w[j - 1]
  <2> HIDE DEF b, x
  <2>7. Len(x \o b) = Len(x) + Len(b) /\ Len(x) \in Nat
    <3>1. x \in Seq(Nat)
      BY <2>5 DEF x
    <3>2. Len(x \o b) = Len(x) + Len(b)
      BY <2>4, <3>1, Concatenated
    <3> QED  BY <3>1, <3>2
  <2> QED  BY <2>4, <2>5, <2>6, <2>7 DEF x
<1>9. CASE n = 0
  <2>1. r.length = empty
    BY <1>1, <1>2, <1>9
  <2> QED  BY <1>7, <1>9, <2>1 DEF Bytes, w, ts, n
<1> DEFINE v(i) == Len(ts[i].value)
           j1 == empty + 1
           j2 == empty + 2
<1>10. j1 - 1 = empty /\ j2 - 1 = j1 /\ Len(w[empty]) = 0
  BY <1>1, <1>7
<1>11. n >= 1 => Len(w[j1]) = v(1) + 2 /\ v(1) \in Nat
  <2> SUFFICES ASSUME n >= 1 PROVE Len(w[j1]) = v(1) + 2 /\ v(1) \in Nat
    OBVIOUS
  <2>1. 1 \in 1 .. n
    BY <1>1
  <2>2. Len(w[j1]) = Len(w[j1 - 1]) + (v(1) + 2) /\ v(1) \in Nat
    BY <1>8, <2>1
  <2> HIDE DEF j1, j2, v
  <2>3. Len(w[j1]) = 0 + (v(1) + 2)
    BY <1>10, <2>2
  <2> QED  BY <2>2, <2>3
<1>12. n = 2 => Len(w[j2]) = v(1) + 2 + v(2) + 2
  <2> SUFFICES ASSUME n = 2 PROVE Len(w[j2]) = v(1) + 2 + v(2) + 2
    OBVIOUS
  <2>1. 2 \in 1 .. n /\ n >= 1
    OBVIOUS
  <2>2. Len(w[j2]) = Len(w[j2 - 1]) + (v(2) + 2) /\ v(2) \in Nat
    BY <1>8, <2>1
  <2> HIDE DEF j1, j2, v
  <2>3. Len(w[j2]) = (v(1) + 2) + (v(2) + 2)
    BY <1>10, <1>11, <2>1, <2>2
  <2> QED  BY <1>11, <2>1, <2>2, <2>3
<1>13. CASE n = 1
  <2>1. n # 0 /\ n >= 1
    BY <1>13
  <2>2. r.length = j1
    BY <1>2, <1>13
  <2> HIDE DEF j1
  <2> QED  BY <1>11, <1>13, <2>1, <2>2 DEF Bytes, w, ts, n
<1>14. CASE n = 2
  <2>1. n # 0 /\ n # 1
    BY <1>14
  <2>2. r.length = j2
    BY <1>2, <1>14
  <2>3. Bytes(ts) = v(1) + 2 + v(2) + 2
    BY <2>1 DEF Bytes, n
  <2> HIDE DEF j2, v
  <2> QED  BY <1>12, <1>14, <2>2, <2>3 DEF w, ts
<1> QED  BY <1>1, <1>9, <1>13, <1>14

-----------------------------------------------------------------------------
\* The agent: from a stream to the words of the request.

Appended(old, t, type) == IF t.type = type THEN Append(old, t.value) ELSE old

Parsed(x, t) ==
  [args |-> Appended(x.args, t, TOKEN_ARG), vars |-> Appended(x.vars, t, TOKEN_VAR)]

\* The loop of protocol_parse_token_stream is well defined.
LEMMA ParseDefined ==
  ASSUME NEW s, s.length \in Nat
  PROVE  /\ TokensParsed(s)[0] = [args |-> <<>>, vars |-> <<>>]
         /\ \A i \in 1 .. s.length : TokensParsed(s)[i] = Parsed(TokensParsed(s)[i - 1], TokenAt(s, i - 1))
<1> DEFINE start == [args |-> <<>>, vars |-> <<>>]
           Loop(m, f) ==
             f = [i \in 0 .. m |-> IF i = 0 THEN start ELSE Parsed(f[i - 1], TokenAt(s, i - 1))]
           S == {m \in Nat : \E f : Loop(m, f)}
           n == s.length
<1>1. 0 \in S
  <2>1. Loop(0, [i \in 0 .. 0 |-> start])
    OBVIOUS
  <2> QED  BY <2>1
<1>2. ASSUME NEW m \in S PROVE m + 1 \in S
  <2>1. PICK f : Loop(m, f)
    OBVIOUS
  <2> DEFINE g == [i \in 0 .. m + 1 |-> IF i = m + 1 THEN Parsed(f[m], TokenAt(s, m)) ELSE f[i]]
  <2>2. Loop(m + 1, g)
    <3>1. ASSUME NEW i \in 0 .. m + 1
          PROVE  g[i] = IF i = 0 THEN start ELSE Parsed(g[i - 1], TokenAt(s, i - 1))
      <4> HIDE DEF start
      <4>1. CASE i = m + 1
        <5>1. i # 0 /\ i - 1 = m /\ m \in 0 .. m + 1 /\ m # m + 1
          BY <4>1
        <5> QED  BY <4>1, <5>1
      <4>2. CASE i # m + 1
        <5>1. i \in 0 .. m /\ (i # 0 => i - 1 \in 0 .. m /\ i - 1 # m + 1)
          BY <4>2
        <5>2. f[i] = IF i = 0 THEN start ELSE Parsed(f[i - 1], TokenAt(s, i - 1))
          BY <2>1, <5>1
        <5> QED  BY <5>1, <5>2, <4>2
      <4> QED  BY <4>1, <4>2
    <3> HIDE DEF start
    <3> QED  BY <3>1
  <2>3. m + 1 \in Nat
    BY SMTT(30)
  <2> HIDE DEF Loop, g
  <2> QED  BY <2>2, <2>3
<1>3. \E f : Loop(n, f)
  <2> HIDE DEF Loop
  <2>1. S \in SUBSET Nat
    OBVIOUS
  <2>2. n \in S
    <3> HIDE DEF S
    <3> QED  BY <1>1, <1>2, <2>1, Induction
  <2> QED  BY <2>2
<1>4. Loop(n, TokensParsed(s))
  BY <1>3 DEF TokensParsed, Parsed, Appended
<1>5. 0 \in 0 .. n /\ \A i \in 1 .. n : i \in 0 .. n /\ i # 0
  OBVIOUS
<1> HIDE DEF start
<1>6. TokensParsed(s)[0] = start
  BY <1>4, <1>5
<1>7. \A i \in 1 .. n : TokensParsed(s)[i] = Parsed(TokensParsed(s)[i - 1], TokenAt(s, i - 1))
  BY <1>4, <1>5
<1> QED  BY <1>6, <1>7 DEF start

\* The tokens that the message of a plain command is read as: its words, and an empty
\* token for every word behind the command.
Wire(words) ==
  [i \in 1 .. Len(words) - 1 + Len(WordTokens(words)) |->
     IF i <= Len(WordTokens(words)) THEN WordTokens(words)[i] ELSE NoToken]

\* What a plain command says.
Asked(words) ==
  IF Len(words) = 1 THEN [type |-> MSG_ERR, args |-> <<>>, vars |-> <<>>]
  ELSE IF Len(words) = 2
       THEN [type |-> MsgType(words), args |-> <<words[2]>>, vars |-> <<>>]
  ELSE IF words[2] = EnvWord
       THEN [type |-> MsgType(words), args |-> <<>>, vars |-> <<words[3]>>]
  ELSE [type |-> MsgType(words), args |-> <<words[2], words[3]>>, vars |-> <<>>]

\* The types and lengths of what a plain command is read as.
LEMMA WireIs ==
  ASSUME NEW words, Plain(words)
  PROVE  /\ Wire(words) \in Seq(Token)
         /\ Len(Wire(words)) = Len(words) - 1 + Len(WordTokens(words))
         /\ Len(Wire(words)) \in 0 .. 4
         /\ Len(words) = 1 => Wire(words) = <<>>
         /\ Len(words) # 1 => Wire(words) # <<>>
<1> DEFINE ts == WordTokens(words)
           t == Len(ts)
           n == Len(words) - 1 + t
<1>1. ts \in Seq(Token) /\ t \in 0 .. 2 /\ Len(words) - 1 \in 0 .. 2 /\ (Len(words) = 1 => ts = <<>>)
  BY WordTokensAre
<1>2. n \in 0 .. 4 /\ Len(words) \in 1 .. 3
  <2>1. Len(words) \in 1 .. 3
    BY DEF Plain
  <2> DEFINE l == Len(words)
  <2>2. l \in 1 .. 3 /\ t \in 0 .. 2
    BY <1>1, <2>1
  <2> HIDE DEF t, l
  <2>3. l - 1 + t \in 0 .. 4
    BY <2>2
  <2> QED  BY <2>1, <2>3 DEF l
<1>3. NoToken \in Token
  BY DEF NoToken, Token, Text, TOKEN_NONE
<1>4. ASSUME NEW i \in 1 .. n PROVE Wire(words)[i] \in Token
  <2>1. CASE i <= t
    <3>1. Wire(words)[i] = ts[i]
      BY <2>1 DEF Wire
    <3>2. i \in 1 .. t
      BY <1>1, <1>2, <2>1
    <3> HIDE DEF ts
    <3> QED  BY <1>1, <3>1, <3>2
  <2>2. CASE ~ (i <= t)
    BY <1>3, <2>2 DEF Wire
  <2> QED  BY <2>1, <2>2
<1>5. Wire(words) \in [1 .. n -> Token]
  BY <1>4 DEF Wire
<1> DEFINE w == Wire(words)
<1> HIDE DEF n, w
<1>6. w \in Seq(Token) /\ Len(w) = n
  BY <1>2, <1>5 DEF w
<1>7. Len(words) = 1 => n = 0
  BY <1>1 DEF n
<1>8. Len(words) # 1 => n # 0
  <2> DEFINE l == Len(words)
  <2>1. n = l - 1 + t /\ l \in 1 .. 3 /\ t \in 0 .. 2
    BY <1>1, <1>2 DEF n
  <2> HIDE DEF t, l, ts
  <2>2. l # 1 => n # 0
    BY <2>1
  <2> QED  BY <2>2 DEF l
<1>9. (n = 0 => w = <<>>) /\ (n # 0 => w # <<>>)
  <2>1. n = 0 => w = <<>>
    BY <1>6
  <2>2. Len(<<>>) = 0
    OBVIOUS
  <2> QED  BY <1>6, <2>1, <2>2
<1> QED  BY <1>2, <1>6, <1>7, <1>8, <1>9 DEF n, w

\* An evaluated stream is read as Wire says.
LEMMA EvaluatedWire ==
  ASSUME NEW words, Plain(words), NEW r, Evaluated(r, words)
  PROVE  ReadAs(r, Len(words) - 1) = Wire(words)
<1> DEFINE ts == WordTokens(words)
           t == Len(ts)
           e == Len(words) - 1
<1>1. t \in 0 .. 2 /\ e \in 0 .. 2
  BY WordTokensAre
<1>2. r.length = e + t /\ \A k \in e .. r.length - 1 : r.tokens[k] = ts[k - e + 1]
  BY DEF Evaluated
<1>3. Wire(words) = [i \in 1 .. e + t |-> IF i <= t THEN ts[i] ELSE NoToken]
  BY DEF Wire
<1> HIDE DEF ts, t, e
<1>4. ReadAs(r, e) = [i \in 1 .. e + t |-> IF i <= (e + t) - e THEN r.tokens[e + i - 1] ELSE NoToken]
  BY <1>2 DEF ReadAs
<1>5. ASSUME NEW i \in 1 .. e + t
      PROVE  (IF i <= (e + t) - e THEN r.tokens[e + i - 1] ELSE NoToken) = (IF i <= t THEN ts[i] ELSE NoToken)
  <2>1. (e + t) - e = t
    BY <1>1
  <2>2. CASE i <= t
    <3>1. e + i - 1 \in e .. (e + t) - 1 /\ (e + i - 1) - e + 1 = i
      BY <1>1, <2>2
    <3>2. r.tokens[e + i - 1] = ts[i]
      BY <1>2, <3>1
    <3> QED  BY <2>1, <2>2, <3>2
  <2>3. CASE ~ (i <= t)
    BY <2>1, <2>3
  <2> QED  BY <2>2, <2>3
<1>6. ReadAs(r, e) = Wire(words)
  BY <1>3, <1>4, <1>5
<1> QED  BY <1>6 DEF e

\* The three kinds of token are different.
LEMMA ParseCases ==
  ASSUME NEW old, NEW w
  PROVE  /\ Appended(old, Arg(w), TOKEN_ARG) = Append(old, w) /\ Appended(old, Arg(w), TOKEN_VAR) = old
         /\ Appended(old, Var(w), TOKEN_VAR) = Append(old, w) /\ Appended(old, Var(w), TOKEN_ARG) = old
         /\ Appended(old, NoToken, TOKEN_ARG) = old /\ Appended(old, NoToken, TOKEN_VAR) = old
BY DEF Appended, Arg, Var, NoToken, TOKEN_ARG, TOKEN_VAR, TOKEN_NONE

\* One argument more.
LEMMA ParseArg ==
  ASSUME NEW a, NEW v, NEW w
  PROVE  Parsed([args |-> a, vars |-> v], Arg(w)) = [args |-> Append(a, w), vars |-> v]
BY ParseCases DEF Parsed

\* One variable more.
LEMMA ParseVar ==
  ASSUME NEW a, NEW v, NEW w
  PROVE  Parsed([args |-> a, vars |-> v], Var(w)) = [args |-> a, vars |-> Append(v, w)]
BY ParseCases DEF Parsed

\* An empty token changes nothing.
LEMMA ParseNone ==
  ASSUME NEW a, NEW v
  PROVE  Parsed([args |-> a, vars |-> v], NoToken) = [args |-> a, vars |-> v]
BY ParseCases DEF Parsed

\* The stream that the agent has read.
Received(s, words) ==
  /\ s \in Stream /\ s.length = Len(Wire(words)) /\ s.length <= TOKEN_COUNT
  /\ \A k \in 0 .. s.length - 1 : s.tokens[k] = Wire(words)[k + 1]

\* The agent collects from the tokens of a plain command what the command says.
LEMMA ParseAsked ==
  ASSUME NEW words, Plain(words), Len(words) # 1, NEW s, Received(s, words), s.type = MsgType(words)
  PROVE  /\ protocol_parse_token_stream(s).args = Asked(words).args
         /\ protocol_parse_token_stream(s).vars = Asked(words).vars
<1> USE ExchangeAssumption
<1> DEFINE parsed == protocol_parse_token_stream(s)
           n == s.length
           f == TokensParsed(s)
           w == Wire(words)
           l == Len(words)
           ts == WordTokens(words)
           empty == [args |-> <<>>, vars |-> <<>>]
<1>1. l \in {2, 3}
  BY DEF Plain
<1>2. s \in Stream /\ n = Len(w) /\ n \in 0 .. 4 /\ n <= TOKEN_COUNT /\ Len(w) = l - 1 + Len(ts)
  BY WireIs DEF Received
<1>3. f[0] = empty /\ \A i \in 1 .. n : f[i] = Parsed(f[i - 1], TokenAt(s, i - 1))
  BY <1>2, ParseDefined
<1>4. ASSUME NEW i \in 1 .. n PROVE f[i] = Parsed(f[i - 1], w[i])
  <2>1. i - 1 \in 0 .. n - 1 /\ (i - 1) + 1 = i /\ i - 1 \in 0 .. TOKEN_COUNT - 1
    BY <1>2
  <2>2. s.tokens[i - 1] = w[i]
    BY <2>1 DEF Received
  <2>3. DOMAIN s.tokens = 0 .. TOKEN_COUNT - 1
    BY <1>2 DEF Stream
  <2>4. TokenAt(s, i - 1) = w[i]
    BY <2>1, <2>2, <2>3 DEF TokenAt
  <2> HIDE DEF f, n, w
  <2> QED  BY <1>3, <2>4
<1>5. \A i \in 1 .. n : w[i] = IF i <= Len(ts) THEN ts[i] ELSE NoToken
  <2>1. 1 .. n = 1 .. l - 1 + Len(ts)
    BY <1>2
  <2>2. \A i \in 1 .. l - 1 + Len(ts) : w[i] = IF i <= Len(ts) THEN ts[i] ELSE NoToken
    BY DEF Wire
  <2> HIDE DEF n, l, ts, w
  <2> QED  BY <2>1, <2>2, Zenon
<1>6. parsed.args = f[n].args /\ parsed.vars = f[n].vars
  BY DEF protocol_parse_token_stream
<1> HIDE DEF f, w, n, parsed
<1>7. CASE l = 2
  <2> DEFINE a == Arg(words[2])
  <2>1. ts = <<a>>
    BY <1>7 DEF WordTokens
  <2>2. Len(ts) = 1 /\ ts[1] = a
    <3> HIDE DEF a, ts
    <3> QED  BY <2>1
  <2> HIDE DEF a, ts, l
  <2>3. n = 2
    BY <1>2, <1>7, <2>2
  <2>4. w[1] = a /\ w[2] = NoToken
    BY <1>5, <2>2, <2>3
  <2>5. f[1] = Parsed(f[0], a) /\ f[2] = Parsed(f[1], NoToken)
    BY <1>4, <2>3, <2>4
  <2>6. f[1] = [args |-> Append(<<>>, words[2]), vars |-> <<>>]
    <3>1. Parsed(empty, a) = [args |-> Append(<<>>, words[2]), vars |-> <<>>]
      BY ParseArg, Zenon DEF a
    <3> QED  BY <1>3, <2>5, <3>1, Zenon
  <2>7. f[2] = [args |-> Append(<<>>, words[2]), vars |-> <<>>]
    BY <2>5, <2>6, ParseNone
  <2>8. Append(<<>>, words[2]) = <<words[2]>>
    OBVIOUS
  <2>9. Asked(words) = [type |-> MsgType(words), args |-> <<words[2]>>, vars |-> <<>>]
    BY <1>7 DEF Asked, l
  <2> QED  BY <1>6, <2>3, <2>7, <2>8, <2>9 DEF parsed
<1>8. CASE l = 3 /\ words[2] = EnvWord
  <2> DEFINE a == Var(words[3])
  <2>1. ts = <<a>>
    BY <1>8 DEF WordTokens
  <2>2. Len(ts) = 1 /\ ts[1] = a
    <3> HIDE DEF a, ts
    <3> QED  BY <2>1
  <2> HIDE DEF a, ts, l
  <2>3. n = 3
    BY <1>2, <1>8, <2>2
  <2>4. w[1] = a /\ w[2] = NoToken /\ w[3] = NoToken
    BY <1>5, <2>2, <2>3
  <2>5. f[1] = Parsed(f[0], a) /\ f[2] = Parsed(f[1], NoToken) /\ f[3] = Parsed(f[2], NoToken)
    BY <1>4, <2>3, <2>4
  <2>6. f[1] = [args |-> <<>>, vars |-> Append(<<>>, words[3])]
    <3>1. Parsed(empty, a) = [args |-> <<>>, vars |-> Append(<<>>, words[3])]
      BY ParseVar, Zenon DEF a
    <3> QED  BY <1>3, <2>5, <3>1, Zenon
  <2>7. f[2] = [args |-> <<>>, vars |-> Append(<<>>, words[3])]
    BY <2>5, <2>6, ParseNone
  <2>8. f[3] = [args |-> <<>>, vars |-> Append(<<>>, words[3])]
    BY <2>5, <2>7, ParseNone
  <2>9. Append(<<>>, words[3]) = <<words[3]>>
    OBVIOUS
  <2>10. Asked(words) = [type |-> MsgType(words), args |-> <<>>, vars |-> <<words[3]>>]
    BY <1>8 DEF Asked, l
  <2> QED  BY <1>6, <2>3, <2>8, <2>9, <2>10 DEF parsed
<1>9. CASE l = 3 /\ words[2] # EnvWord
  <2> DEFINE a == Arg(words[2])
             b == Arg(words[3])
  <2>1. ts = <<a, b>>
    BY <1>9 DEF WordTokens
  <2>2. Len(ts) = 2 /\ ts[1] = a /\ ts[2] = b
    <3> HIDE DEF a, b, ts
    <3> QED  BY <2>1
  <2> HIDE DEF a, b, ts, l
  <2>3. n = 4
    BY <1>2, <1>9, <2>2
  <2>4. w[1] = a /\ w[2] = b /\ w[3] = NoToken /\ w[4] = NoToken
    BY <1>5, <2>2, <2>3
  <2>5. /\ f[1] = Parsed(f[0], a) /\ f[2] = Parsed(f[1], b)
        /\ f[3] = Parsed(f[2], NoToken) /\ f[4] = Parsed(f[3], NoToken)
    BY <1>4, <2>3, <2>4
  <2>6. f[1] = [args |-> Append(<<>>, words[2]), vars |-> <<>>]
    <3>1. Parsed(empty, a) = [args |-> Append(<<>>, words[2]), vars |-> <<>>]
      BY ParseArg, Zenon DEF a
    <3> QED  BY <1>3, <2>5, <3>1, Zenon
  <2>7. f[2] = [args |-> Append(Append(<<>>, words[2]), words[3]), vars |-> <<>>]
    <3>1. Parsed([args |-> Append(<<>>, words[2]), vars |-> <<>>], b) =
            [args |-> Append(Append(<<>>, words[2]), words[3]), vars |-> <<>>]
      BY ParseArg, Zenon DEF b
    <3> QED  BY <2>5, <2>6, <3>1, Zenon
  <2> DEFINE x == Append(Append(<<>>, words[2]), words[3])
  <2>8. x = <<words[2], words[3]>>
    <3>1. Append(<<>>, words[2]) = <<words[2]>>
      OBVIOUS
    <3>2. Append(<<words[2]>>, words[3]) = <<words[2]>> \o <<words[3]>>
      OBVIOUS
    <3> QED  BY <3>1, <3>2, Singles
  <2> HIDE DEF x
  <2>9. f[3] = [args |-> x, vars |-> <<>>]
    BY <2>5, <2>7, ParseNone DEF x
  <2>10. f[4] = [args |-> x, vars |-> <<>>]
    BY <2>5, <2>9, ParseNone
  <2>11. Asked(words) = [type |-> MsgType(words), args |-> <<words[2], words[3]>>, vars |-> <<>>]
    BY <1>9 DEF Asked, l
  <2> QED  BY <1>6, <2>3, <2>8, <2>10, <2>11 DEF parsed
<1> QED  BY <1>1, <1>7, <1>8, <1>9 DEF parsed

-----------------------------------------------------------------------------
\* What the theorems assume: messages arrive in one piece, a stream has room for four
\* tokens, and the command lines are plain, ask for what they say, and fit the buffers,
\* with or without a command that exists; only those whose command is not implemented are
\* left out, because the client does not send them.
PlainUsageOnly ==
  /\ SPLIT = FALSE /\ 4 <= TOKEN_COUNT /\ 18 + Len(InvalidText) <= BUF_SIZE
  /\ \A line \in DOMAIN Usage :
       LET words == config_collect_args(line).args
       IN  \/ Rejected(words)
           \/ /\ Plain(words) /\ 16 + Bytes(WordTokens(words)) <= BUF_SIZE
              /\ Usage[line].type = Asked(words).type
              /\ Usage[line].args = Asked(words).args /\ Usage[line].vars = Asked(words).vars

Buffer(buf) == buf \in Seq(Nat) /\ Len(buf) = BUF_SIZE

\* The message of a command, and the message of an answer.
Packet(m, words) ==
  /\ ~ Rejected(words) /\ m \in Seq(Nat) /\ Len(m) <= BUF_SIZE
  /\ Holds(m, MsgType(words), Wire(words))

AnswerPacket(m, answer) ==
  \E type \in CInt : \E text \in Text :
    /\ answer = [type |-> type, text |-> text]
    /\ m \in Seq(Nat) /\ Len(m) <= BUF_SIZE /\ Holds(m, type, <<Arg(text)>>)

\* Between two rounds only the first token of a client's stream may be left over.
Clean(s, empty) ==
  /\ empty # 0 /\ s.length = 0 => s.tokens[0] = NoToken
  /\ \A k \in 1 .. empty - 1 : s.tokens[k] = NoToken

\* A request is what the command line says, with room for the NULL behind its words.
Understood(request, line) ==
  /\ request.type = Usage[line].type
  /\ request.type # MSG_ERR =>
       /\ request.args = Usage[line].args /\ request.vars = Usage[line].vars
       /\ Len(request.args) < request.cells /\ Len(request.vars) < request.cells

\* A connection has one message under way at most.
Underway(c) ==
  /\ net[c] = <<>> \/ (inq[c] = <<>> /\ conn[c] = "open" /\ Packet(net[c], Words(c)))
  /\ inq[c] = <<>> \/ (net[c] = <<>> /\ conn[c] = "open" /\ Packet(inq[c], Words(c)))

Answered(c) ==
  /\ reply[c] # <<>> => conn[c] = "closed" /\ AnswerPacket(reply[c], told[c])
  /\ conn[c] # "none" => heard[c] = NULL
  /\ heard[c] # NULL => heard[c] = told[c]

WireTypes ==
  /\ argv \in [Client -> DOMAIN Usage]
  /\ config = [c \in Client |-> config_collect_args(argv[c])]
  /\ stream \in [Client -> Stream] /\ token_stream \in Stream
  /\ pc \in [Client -> {"idle", "waiting", "ended", "starved"}]
  /\ conn \in [Client -> {"none", "open", "closed"}]
  /\ DOMAIN net = Client /\ DOMAIN inq = Client /\ DOMAIN reply = Client
  /\ DOMAIN got = Client /\ DOMAIN told = Client /\ DOMAIN heard = Client
  /\ Buffer(in_buf) /\ Buffer(out_buf)
  /\ flagged \subseteq Client

ClientInv(c) ==
  /\ stream[c].length <= TOKEN_COUNT
  /\ Rejected(Words(c)) \/ Clean(stream[c], Len(Words(c)) - 1)
  /\ pc[c] = "idle" => conn[c] = "none"
  /\ Underway(c) /\ Answered(c)
  /\ got[c] # NULL => Understood(got[c], argv[c])

\* The inductive invariant.
WireInv ==
  /\ WireTypes
  /\ token_stream.length <= 1
  /\ \A c \in flagged : inq[c] # <<>>
  /\ \A c \in Client : ClientInv(c)

-----------------------------------------------------------------------------
\* An answer through the stream and the buffer of the agent is a message with that text.
LEMMA AnswerSends ==
  ASSUME NEW s \in Stream, NEW type \in CInt, NEW text \in Text, NEW buf, Buffer(buf),
         18 + Len(text) <= BUF_SIZE
  PROVE  /\ AnswerStream(s, type, text) \in Stream /\ AnswerStream(s, type, text).length = 1
         /\ Buffer(protocol_send(AnswerStream(s, type, text), buf).buf)
         /\ AnswerPacket(protocol_send(AnswerStream(s, type, text), buf).bytes,
                         [type |-> type, text |-> text])
<1> USE ExchangeAssumption
<1> DEFINE z == [protocol_tokenstream_reset(s) EXCEPT !.type = type]
           t == Arg(text)
           a == AnswerStream(s, type, text)
           w == TokensWritten(a)
           out == protocol_send(a, buf)
<1>1. t \in Token /\ t.type = TOKEN_ARG /\ t.value = text /\ TOKEN_ARG # TOKEN_NONE
  BY DEF Arg, Token, TOKEN_ARG, TOKEN_NONE
<1>2. z \in Stream /\ z.type = type /\ z.length = 0
  <2>1. Cleared(z, s, type, 0)
    BY ResetIs, Zenon
  <2> QED  BY <2>1 DEF Cleared
<1>3. a = protocol_tokenstream_add_token(z, t.type, t.value)
  BY <1>1 DEF AnswerStream
<1> HIDE DEF z, t, a
<1>4. /\ a \in Stream /\ a.type = type /\ a.length = 1
      /\ \A k \in 0 .. TOKEN_COUNT - 1 : k = 0 => a.tokens[k] = t
  <2>1. z.length < TOKEN_COUNT /\ z.length + 1 = 1
    BY <1>2
  <2> QED  BY <1>1, <1>2, <1>3, <2>1, AddOne
<1>5. a.tokens[0] = t
  BY <1>4
<1>6. Stuffed(a, 0)
  <2>1. \A k \in 0 .. a.length - 1 : k = 0
    BY <1>4
  <2>2. a.length <= TOKEN_COUNT /\ 0 \in 0 .. a.length /\ \A k \in 0 .. 0 - 1 : FALSE
    BY <1>4
  <2> QED  BY <1>1, <1>4, <1>5, <2>1, <2>2 DEF Stuffed
<1>7. Len(w[a.length]) = Len(text) + 2
  <2>1. w[0] = <<>> /\ \A i \in 1 .. 1 : w[i] = w[i - 1] \o TokenBytes(TokenAt(a, i - 1))
    <3>1. a.length \in Nat /\ a.length = 1
      BY <1>4
    <3>2. w[0] = <<>> /\ \A i \in 1 .. a.length : w[i] = w[i - 1] \o TokenBytes(TokenAt(a, i - 1))
      BY <3>1, WriteDefined
    <3> HIDE DEF w
    <3> QED  BY <3>1, <3>2
  <2>2. TokenAt(a, 0) = t
    BY <1>4, <1>5, <1>6, StuffedTokens
  <2>3. TokenBytes(t) \in Seq(Nat) /\ Len(TokenBytes(t)) = Len(text) + 2
    BY <1>1, TokenBytesAre
  <2> DEFINE b == TokenBytes(t)
  <2> HIDE DEF b, w
  <2>4. w[1] = <<>> \o b
    <3>1. 1 \in 1 .. 1 /\ 1 - 1 = 0
      OBVIOUS
    <3> QED  BY <2>1, <2>2, <3>1 DEF b
  <2>5. <<>> \o b = b
    BY <2>3 DEF b
  <2> QED  BY <1>4, <2>3, <2>4, <2>5 DEF b
<1>8. Len(text) \in Nat /\ buf \in Seq(Nat) /\ Len(buf) = BUF_SIZE
  BY DEF Text, Buffer
<1>9. /\ out.buf \in Seq(Nat) /\ Len(out.buf) = Len(buf)
      /\ out.bytes \in Seq(Nat) /\ Len(out.bytes) \in 16 .. Len(buf)
      /\ Holds(out.bytes, a.type, ReadAs(a, 0))
  <2>1. 16 + Len(w[a.length]) <= Len(buf) /\ 0 \in 0 .. 2 /\ ~ (0 # 0)
    BY <1>7, <1>8
  <2> QED  BY <1>6, <1>8, <2>1, SentHolds
<1>10. ReadAs(a, 0) = <<t>>
  <2> DEFINE x == ReadAs(a, 0)
  <2>1. x \in Seq(Token) /\ Len(x) = 1
    BY <1>4, <1>6, ReadAsTokens
  <2>2. x[1] = t
    <3>1. x[1] = IF 1 <= a.length - 0 THEN a.tokens[0 + 1 - 1] ELSE NoToken
      <4>1. 1 \in 1 .. a.length
        BY <1>4
      <4> QED  BY <1>6, <4>1, ReadAsTokens
    <3>2. 1 <= a.length - 0 /\ 0 + 1 - 1 = 0
      BY <1>4
    <3> QED  BY <1>5, <3>1, <3>2
  <2> HIDE DEF x
  <2>3. x = <<t>>
    BY <2>1, <2>2
  <2> QED  BY <2>3 DEF x
<1> HIDE DEF out
<1>11. Buffer(out.buf)
  BY <1>8, <1>9 DEF Buffer
<1>12. AnswerPacket(out.bytes, [type |-> type, text |-> text])
  <2>1. Holds(out.bytes, type, <<Arg(text)>>)
    BY <1>4, <1>9, <1>10 DEF t
  <2>2. Len(out.bytes) <= BUF_SIZE
    BY <1>8, <1>9
  <2> QED  BY <1>9, <2>1, <2>2 DEF AnswerPacket
<1> QED  BY <1>4, <1>11, <1>12 DEF a, out

\* A cleared buffer.
LEMMA ZeroBuffer == Buffer(ZeroBuf) /\ \A k \in 1 .. Len(ZeroBuf) : ZeroBuf[k] = 0
<1>1. ZeroBuf \in [1 .. BUF_SIZE -> Nat] /\ BUF_SIZE \in Nat
  BY ExchangeAssumption DEF ZeroBuf
<1>2. Len(ZeroBuf) = BUF_SIZE /\ ZeroBuf \in Seq(Nat)
  BY <1>1
<1> QED  BY <1>2 DEF Buffer, ZeroBuf

\* A command through the stream of its client and a cleared buffer is its message.
LEMMA CommandSends ==
  ASSUME NEW words, Plain(words), ~ Rejected(words), 16 + Bytes(WordTokens(words)) <= BUF_SIZE,
         4 <= TOKEN_COUNT, NEW s \in Stream, Clean(s, Len(words) - 1)
  PROVE  LET r == client_eval_cmds(words, protocol_tokenstream_reset(s))
         IN  /\ r \in Stream /\ r.length <= TOKEN_COUNT /\ Clean(r, Len(words) - 1)
             /\ Packet(protocol_send(r, ZeroBuf).bytes, words)
<1> USE ExchangeAssumption
<1> DEFINE e == Len(words) - 1
           r == client_eval_cmds(words, protocol_tokenstream_reset(s))
           m == protocol_send(r, ZeroBuf).bytes
<1>1. e \in 0 .. 2
  BY WordTokensAre
<1>2. Ready(s, e)
  <2> SUFFICES ASSUME NEW k \in 0 .. e - 1 PROVE k < s.length \/ s.tokens[k] = NoToken
    BY DEF Ready
  <2>1. CASE k = 0
    <3>1. s.length \in Nat
      BY DEF Stream
    <3>2. e # 0
      <4> HIDE DEF e
      <4> QED  BY <1>1
    <3> QED  BY <2>1, <3>1, <3>2 DEF Clean
  <2>2. CASE k # 0
    <3>1. k \in 1 .. e - 1
      BY <1>1, <2>2
    <3> QED  BY <3>1 DEF Clean
  <2> QED  BY <2>1, <2>2
<1>3. Evaluated(r, words)
  <2>1. TOKEN_COUNT >= 4
    OBVIOUS
  <2> QED  BY <1>2, <2>1, EvalEvaluates
<1> HIDE DEF r
<1>4. Stuffed(r, e) /\ r.type = MsgType(words) /\ r.length = e + Len(WordTokens(words))
  BY <1>3 DEF Evaluated
<1>5. r \in Stream /\ r.length <= TOKEN_COUNT /\ \A k \in 0 .. e - 1 : r.tokens[k] = NoToken
  BY <1>4 DEF Stuffed
<1>6. Len(TokensWritten(r)[r.length]) = Bytes(WordTokens(words))
  BY <1>3, EvaluatedBytes
<1>7. ZeroBuf \in Seq(Nat) /\ Len(ZeroBuf) = BUF_SIZE /\ \A k \in 1 .. Len(ZeroBuf) : ZeroBuf[k] = 0
  BY ZeroBuffer DEF Buffer
<1>8. /\ m \in Seq(Nat) /\ Len(m) \in 16 .. Len(ZeroBuf)
      /\ Holds(m, r.type, ReadAs(r, e))
  <2> HIDE DEF e
  <2>1. 16 + Len(TokensWritten(r)[r.length]) <= Len(ZeroBuf)
    BY <1>6, <1>7
  <2> QED  BY <1>1, <1>4, <1>7, <2>1, SentHolds
<1>9. ReadAs(r, e) = Wire(words)
  BY <1>3, EvaluatedWire
<1> HIDE DEF m
<1>10. Packet(m, words)
  <2>1. Len(m) <= BUF_SIZE
    BY <1>7, <1>8
  <2> QED  BY <1>4, <1>8, <1>9, <2>1 DEF Packet
<1>11. Clean(r, e)
  <2>1. e # 0 => 0 \in 0 .. e - 1
    <3> HIDE DEF e
    <3> QED  BY <1>1
  <2>2. \A k \in 1 .. e - 1 : k \in 0 .. e - 1
    BY <1>1
  <2> QED  BY <1>5, <2>1, <2>2 DEF Clean
<1> QED  BY <1>5, <1>10, <1>11 DEF r, m

\* The agent has read the request of a client into its stream.
LEMMA ServeReads ==
  ASSUME NEW words, Plain(words), NEW m, Packet(m, words), NEW buf, Buffer(buf),
         4 <= TOKEN_COUNT, NEW s \in Stream
  PROVE  /\ Buffer(Overwritten(buf, m))
         /\ protocol_read(Overwritten(buf, m), s).ok = (Len(words) # 1)
         /\ protocol_read(Overwritten(buf, m), s).stream \in Stream
         /\ Len(words) # 1 =>
              /\ Received(protocol_read(Overwritten(buf, m), s).stream, words)
              /\ protocol_read(Overwritten(buf, m), s).stream.type = MsgType(words)
<1> USE ExchangeAssumption
<1> DEFINE b == Overwritten(buf, m)
           read == protocol_read(b, s)
           w == Wire(words)
<1>1. m \in Seq(Nat) /\ Len(m) <= BUF_SIZE /\ Holds(m, MsgType(words), w)
  BY DEF Packet
<1>2. buf \in Seq(Nat) /\ Len(buf) = BUF_SIZE
  BY DEF Buffer
<1>3. w \in Seq(Token) /\ Len(w) \in 0 .. 4 /\ (Len(words) = 1 => w = <<>>) /\ (Len(words) # 1 => w # <<>>)
  BY WireIs
<1>4. MsgType(words) \in CInt
  BY MsgTypeIs
<1>5. Buffer(b)
  BY <1>1, <1>2, OverwrittenIs DEF Buffer
<1>6. Holds(b, MsgType(words), w)
  <2> HIDE DEF w
  <2> QED  BY <1>1, <1>2, <1>3, HoldsOverwritten
<1>7. Len(w) <= TOKEN_COUNT
  <2> DEFINE n == Len(w)
  <2>1. n \in 0 .. 4
    BY <1>3
  <2> HIDE DEF n
  <2>2. n <= TOKEN_COUNT
    BY <2>1
  <2> QED  BY <2>2 DEF n
<1>8. Reads(read, s, MsgType(words), w)
  <2> HIDE DEF b, w
  <2> QED  BY <1>3, <1>4, <1>6, <1>7, ReadBack
<1> HIDE DEF b, read, w
<1>9. read.ok = (Len(words) # 1)
  BY <1>3, <1>8, Zenon DEF Reads
<1>10. read.stream \in Stream
  BY <1>8 DEF Reads
<1>11. ASSUME Len(words) # 1 PROVE Received(read.stream, words) /\ read.stream.type = MsgType(words)
  <2> DEFINE r == read.stream
  <2>1. /\ r.type = MsgType(words) /\ r.length = Len(w)
        /\ \A k \in 0 .. TOKEN_COUNT - 1 : r.tokens[k] = IF k < Len(w) THEN w[k + 1] ELSE s.tokens[k]
    BY <1>3, <1>8, <1>11 DEF Reads
  <2> HIDE DEF r
  <2>2. ASSUME NEW k \in 0 .. r.length - 1 PROVE r.tokens[k] = w[k + 1]
    <3> DEFINE n == Len(w)
    <3>0. n \in 0 .. 4 /\ n <= TOKEN_COUNT /\ r.length = n
      BY <1>3, <1>7, <2>1
    <3> HIDE DEF n
    <3>1. k \in 0 .. TOKEN_COUNT - 1 /\ k < n
      BY <3>0
    <3> QED  BY <2>1, <3>1 DEF n
  <2>3. Received(r, words)
    BY <1>7, <1>10, <2>1, <2>2 DEF Received, r, w
  <2> QED  BY <2>1, <2>3 DEF r
<1> QED  BY <1>5, <1>9, <1>10, <1>11 DEF b, read

\* The request that is read is the one the command line asks for.
LEMMA RequestIs ==
  ASSUME NEW words, Plain(words), Len(words) # 1, NEW s, Received(s, words),
         s.type = MsgType(words), NEW line,
         Usage[line].type = Asked(words).type, Usage[line].args = Asked(words).args,
         Usage[line].vars = Asked(words).vars
  PROVE  /\ Understood(Request(s), line)
         /\ Request(s).args = Asked(words).args
<1> DEFINE q == Request(s)
           a == Asked(words)
<1>1. /\ protocol_parse_token_stream(s).args = a.args
      /\ protocol_parse_token_stream(s).vars = a.vars
  BY ParseAsked
<1>2. q = [type |-> a.type, args |-> a.args, vars |-> a.vars, cells |-> s.length]
  <2>1. s.type = a.type
    BY DEF Asked, Plain
  <2> HIDE DEF a
  <2> QED  BY <1>1, <2>1 DEF Request
<1>3. q.type = a.type /\ q.args = a.args /\ q.vars = a.vars /\ q.cells = s.length
  <2> HIDE DEF a, q
  <2> QED  BY <1>2
<1>4. Len(a.args) < s.length /\ Len(a.vars) < s.length
  <2> DEFINE l == Len(words)
             n == s.length
             t == Len(WordTokens(words))
  <2>1. l \in {2, 3}
    BY DEF Plain
  <2>2. n = l - 1 + t
    BY WireIs DEF Received
  <2>3. CASE l = 2
    <3>1. a = [type |-> MsgType(words), args |-> <<words[2]>>, vars |-> <<>>]
      BY <2>3 DEF Asked
    <3>2. Len(a.args) = 1 /\ Len(a.vars) = 0
      BY <3>1
    <3>3. t = 1
      BY <2>3 DEF WordTokens
    <3> HIDE DEF l, n, t, a
    <3>4. n = 2
      BY <2>2, <2>3, <3>3
    <3> QED  BY <3>2, <3>4 DEF n
  <2>4. CASE l = 3 /\ words[2] = EnvWord
    <3>1. a = [type |-> MsgType(words), args |-> <<>>, vars |-> <<words[3]>>]
      BY <2>4 DEF Asked
    <3>2. Len(a.args) = 0 /\ Len(a.vars) = 1
      BY <3>1
    <3>3. t = 1
      BY <2>4 DEF WordTokens
    <3> HIDE DEF l, n, t, a
    <3>4. n = 3
      BY <2>2, <2>4, <3>3
    <3> QED  BY <3>2, <3>4 DEF n
  <2>5. CASE l = 3 /\ words[2] # EnvWord
    <3>1. a = [type |-> MsgType(words), args |-> <<words[2], words[3]>>, vars |-> <<>>]
      BY <2>5 DEF Asked
    <3>2. Len(a.args) = 2 /\ Len(a.vars) = 0
      BY <3>1
    <3>3. t = 2
      BY <2>5 DEF WordTokens
    <3> HIDE DEF l, n, t, a
    <3>4. n = 4
      BY <2>2, <2>5, <3>3
    <3> QED  BY <3>2, <3>4 DEF n
  <2> QED  BY <2>1, <2>3, <2>4, <2>5
<1> HIDE DEF q, a
<1>5. Understood(q, line)
  BY <1>3, <1>4 DEF Understood, a
<1> QED  BY <1>3, <1>5 DEF q, a

\* A client has read the answer that it was sent.
Heard(read, s, answer) ==
  /\ read.ok = TRUE /\ read.stream \in Stream /\ read.stream.length = 1
  /\ \A k \in 1 .. TOKEN_COUNT - 1 : read.stream.tokens[k] = s.tokens[k]
  /\ Printed(read.stream) = answer

\* A client that reads an answer through the stream of its request hears it.
LEMMA ResponseHears ==
  ASSUME NEW m, NEW answer, AnswerPacket(m, answer), NEW s \in Stream
  PROVE  Heard(protocol_read(Overwritten(ZeroBuf, m), s), s, answer)
<1> USE ExchangeAssumption
<1>1. PICK type \in CInt, text \in Text :
        /\ answer = [type |-> type, text |-> text]
        /\ m \in Seq(Nat) /\ Len(m) <= BUF_SIZE /\ Holds(m, type, <<Arg(text)>>)
  BY DEF AnswerPacket
<1> DEFINE b == Overwritten(ZeroBuf, m)
           read == protocol_read(b, s)
           t == Arg(text)
           ts == <<t>>
<1>2. t \in Token /\ t.value = text
  BY DEF Arg, Token, TOKEN_ARG
<1> HIDE DEF t
<1>3. ts \in Seq(Token) /\ Len(ts) = 1 /\ ts[1] = t /\ ts # <<>>
  BY <1>2
<1>4. ZeroBuf \in Seq(Nat) /\ Len(ZeroBuf) = BUF_SIZE
  BY ZeroBuffer DEF Buffer
<1>5. Holds(m, type, ts)
  BY <1>1 DEF t
<1> HIDE DEF ts
<1>6. Holds(b, type, ts)
  <2>1. Len(m) <= Len(ZeroBuf)
    BY <1>1, <1>4
  <2> QED  BY <1>1, <1>3, <1>4, <1>5, <2>1, HoldsOverwritten
<1>7. Reads(read, s, type, ts)
  <2>1. Len(ts) <= TOKEN_COUNT
    BY <1>3
  <2> HIDE DEF b
  <2> QED  BY <1>3, <1>6, <2>1, ReadBack
<1> HIDE DEF b, read
<1>8. read.ok = TRUE
  BY <1>3, <1>7, Zenon DEF Reads
<1>9. /\ read.stream \in Stream /\ read.stream.type = type /\ read.stream.length = 1
      /\ \A k \in 0 .. TOKEN_COUNT - 1 :
           read.stream.tokens[k] = IF k < 1 THEN ts[k + 1] ELSE s.tokens[k]
  BY <1>3, <1>7 DEF Reads
<1>10. read.stream.tokens[0] = t
  <2>1. 0 \in 0 .. TOKEN_COUNT - 1 /\ 0 < 1 /\ 0 + 1 = 1
    OBVIOUS
  <2> QED  BY <1>3, <1>9, <2>1
<1>11. \A k \in 1 .. TOKEN_COUNT - 1 : read.stream.tokens[k] = s.tokens[k]
  <2>1. \A k \in 1 .. TOKEN_COUNT - 1 : k \in 0 .. TOKEN_COUNT - 1 /\ ~ (k < 1)
    OBVIOUS
  <2> QED  BY <1>9, <2>1
<1>12. Printed(read.stream) = answer
  BY <1>1, <1>2, <1>9, <1>10 DEF Printed
<1>13. Heard(read, s, answer)
  BY <1>8, <1>9, <1>11, <1>12 DEF Heard
<1> QED  BY <1>13 DEF b, read

\* What the agent says about a request fits the buffer the request came in.
LEMMA AnswerFits ==
  ASSUME NEW words, Plain(words), 16 + Bytes(WordTokens(words)) <= BUF_SIZE,
         18 + Len(InvalidText) <= BUF_SIZE, NEW request,
         request = NULL \/ request.args = Asked(words).args
  PROVE  AnswerText(request) \in Text /\ 18 + Len(AnswerText(request)) <= BUF_SIZE
<1> USE ExchangeAssumption
<1> DEFINE l == Len(words)
           a == Asked(words).args
           text == AnswerText(request)
<1>1. InvalidText \in Text
  BY DEF InvalidText, Text
<1>2. CASE text = InvalidText
  BY <1>1, <1>2
<1>3. CASE text # InvalidText
  <2>1. text = a[1] /\ a # <<>>
    BY <1>3 DEF AnswerText, Known
  <2>2. l \in 1 .. 3 /\ \A i \in 1 .. l : words[i] \in Text
    BY DEF Plain
  <2>3. l # 1 /\ ~ (l = 3 /\ words[2] = EnvWord)
    BY <2>1 DEF Asked
  <2>4. l = 2 \/ (l = 3 /\ words[2] # EnvWord)
    BY <2>2, <2>3
  <2> DEFINE w == words[2]
  <2>5. w \in Text /\ Len(w) \in Nat
    BY <2>2, <2>4 DEF Text
  <2>6. text = w
    <3>1. CASE l = 2
      <4>1. a = <<w>>
        BY <3>1 DEF Asked
      <4> QED  BY <2>1, <4>1
    <3>2. CASE l = 3 /\ words[2] # EnvWord
      <4>1. a = <<w, words[3]>>
        BY <3>2 DEF Asked
      <4> QED  BY <2>1, <4>1
    <3> QED  BY <2>4, <3>1, <3>2
  <2>7. Bytes(WordTokens(words)) \in Nat /\ Bytes(WordTokens(words)) >= Len(w) + 2
    <3> DEFINE ts == WordTokens(words)
    <3>1. CASE l = 2
      <4>1. ts = <<Arg(w)>>
        BY <3>1 DEF WordTokens
      <4>2. Len(ts) = 1 /\ ts[1].value = w
        BY <4>1 DEF Arg
      <4> HIDE DEF ts, w
      <4>3. Bytes(ts) = Len(w) + 2
        BY <4>2 DEF Bytes
      <4> QED  BY <2>5, <4>3 DEF ts
    <3>2. CASE l = 3 /\ words[2] # EnvWord
      <4> DEFINE v == words[3]
      <4>0. Len(v) \in Nat
        <5>1. v \in Text
          BY <2>2, <3>2
        <5> QED  BY <5>1 DEF Text
      <4>1. ts = <<Arg(w), Arg(v)>>
        BY <3>2 DEF WordTokens
      <4>2. Len(ts) = 2 /\ ts[1].value = w /\ ts[2].value = v
        BY <4>1 DEF Arg
      <4> HIDE DEF ts, w, v
      <4>3. Bytes(ts) = Len(w) + 2 + Len(v) + 2
        BY <4>2 DEF Bytes
      <4> QED  BY <2>5, <4>0, <4>3 DEF ts
    <3> QED  BY <2>4, <3>1, <3>2
  <2> DEFINE n == Bytes(WordTokens(words))
             k == Len(w)
  <2>8. 16 + n <= BUF_SIZE /\ n \in Nat /\ n >= k + 2 /\ k \in Nat
    BY <2>5, <2>7
  <2>9. 18 + k <= BUF_SIZE
    <3> HIDE DEF n, k
    <3> QED  BY <2>8
  <2> HIDE DEF text
  <2> QED  BY <2>5, <2>6, <2>9 DEF text
<1> QED  BY <1>2, <1>3

-----------------------------------------------------------------------------
\* The words of a client are plain when it sends them.
LEMMA SpokenPlain ==
  ASSUME PlainUsageOnly, WireTypes, NEW c \in Client, ~ Rejected(Words(c))
  PROVE  LET words == Words(c)
         IN  /\ Plain(words) /\ 16 + Bytes(WordTokens(words)) <= BUF_SIZE
             /\ Usage[argv[c]].type = Asked(words).type
             /\ Usage[argv[c]].args = Asked(words).args /\ Usage[argv[c]].vars = Asked(words).vars
<1>1. argv[c] \in DOMAIN Usage /\ config[c] = config_collect_args(argv[c])
  BY DEF WireTypes
<1>2. Words(c) = config_collect_args(argv[c]).args
  BY <1>1 DEF Words
<1> QED  BY <1>1, <1>2 DEF PlainUsageOnly

\* Another client is not touched.
LEMMA OthersKeep ==
  ASSUME NEW d \in Client, ClientInv(d), argv' = argv, config' = config,
         stream'[d] = stream[d], pc'[d] = pc[d], conn'[d] = conn[d], net'[d] = net[d],
         inq'[d] = inq[d], reply'[d] = reply[d], told'[d] = told[d], heard'[d] = heard[d],
         got'[d] = got[d]
  PROVE  ClientInv(d)'
<1>1. Words(d)' = Words(d)
  BY DEF Words
<1>2. Underway(d)'
  BY <1>1 DEF ClientInv, Underway
<1>3. Answered(d)'
  BY DEF ClientInv, Answered
<1> QED  BY <1>1, <1>2, <1>3 DEF ClientInv

\* Nothing is under way at the start.
LEMMA WireInit ==
  ASSUME PlainUsageOnly, Init
  PROVE  WireInv
<1> USE ExchangeAssumption
<1> DEFINE s == protocol_tokenstream_alloc(TOKEN_COUNT)
<1>1. NoToken \in Token
  BY DEF NoToken, Token, Text, TOKEN_NONE
<1>0. 0 \in CInt
  BY SMTT(30) DEF CInt, INT_MAX
<1>2. s \in Stream /\ s.length = 0 /\ \A k \in 0 .. TOKEN_COUNT - 1 : s.tokens[k] = NoToken
  BY <1>0, <1>1 DEF protocol_tokenstream_alloc, Stream
<1> HIDE DEF s
<1>3. /\ stream = [c \in Client |-> s] /\ token_stream = s
      /\ conn = [c \in Client |-> "none"] /\ pc \in [Client -> {"idle", "ended"}]
      /\ net = [c \in Client |-> <<>>] /\ inq = [c \in Client |-> <<>>] /\ reply = [c \in Client |-> <<>>]
      /\ got = [c \in Client |-> NULL] /\ heard = [c \in Client |-> NULL] /\ told = [c \in Client |-> NULL]
      /\ flagged = {} /\ in_buf = ZeroBuf /\ out_buf = ZeroBuf
      /\ argv \in [Client -> DOMAIN Usage] /\ config = [c \in Client |-> config_collect_args(argv[c])]
  BY DEF Init, s
<1>4. WireTypes
  BY <1>2, <1>3, ZeroBuffer DEF WireTypes
<1>5. ASSUME NEW c \in Client PROVE ClientInv(c)
  <2>1. stream[c] = s /\ conn[c] = "none" /\ net[c] = <<>> /\ inq[c] = <<>> /\ reply[c] = <<>>
        /\ got[c] = NULL /\ heard[c] = NULL
    BY <1>3
  <2>2. ASSUME ~ Rejected(Words(c)) PROVE Clean(s, Len(Words(c)) - 1)
    <3> DEFINE e == Len(Words(c)) - 1
    <3>1. e \in 0 .. 2
      BY <1>4, <2>2, SpokenPlain, WordTokensAre
    <3> HIDE DEF e
    <3>2. 0 \in 0 .. TOKEN_COUNT - 1 /\ \A k \in 1 .. e - 1 : k \in 0 .. TOKEN_COUNT - 1
      BY <3>1 DEF PlainUsageOnly
    <3>3. Clean(s, e)
      BY <1>2, <3>2 DEF Clean
    <3> QED  BY <3>3 DEF e
  <2> QED  BY <1>2, <2>1, <2>2 DEF ClientInv, Underway, Answered
<1> QED  BY <1>2, <1>3, <1>4, <1>5 DEF WireInv

wired == <<argv, config, stream, pc, conn, net, inq, reply, in_buf, out_buf, token_stream,
           flagged, got, told, heard>>

\* A step that leaves the wire alone keeps the invariant.
LEMMA WireUntouched ==
  ASSUME WireInv, UNCHANGED wired
  PROVE  WireInv'
<1>1. WireTypes'
  BY DEF WireInv, WireTypes, wired
<1>2. \A d \in Client : ClientInv(d)'
  BY OthersKeep DEF WireInv, wired
<1> QED  BY <1>1, <1>2 DEF WireInv, wired

\* A client program ends.
LEMMA WireEnds ==
  ASSUME WireInv, NEW c \in Client, NEW end \in {"ended", "starved"}, pc' = [pc EXCEPT ![c] = end],
         UNCHANGED <<argv, config, stream, conn, net, inq, reply, in_buf, out_buf, token_stream,
                     flagged, got, told, heard>>
  PROVE  WireInv'
<1>1. WireTypes'
  BY DEF WireInv, WireTypes
<1>2. ASSUME NEW d \in Client PROVE ClientInv(d)'
  <2>1. ClientInv(d) /\ pc'[d] \in {pc[d], "ended", "starved"}
    BY DEF WireInv, WireTypes
  <2>2. Words(d)' = Words(d)
    BY DEF Words
  <2>3. Underway(d)' /\ Answered(d)'
    BY <2>1, <2>2 DEF ClientInv, Underway, Answered
  <2> QED  BY <2>1, <2>2, <2>3 DEF ClientInv
<1> QED  BY <1>1, <1>2 DEF WireInv

\* A client program ends before it has sent its command, perhaps with a connection.
LEMMA FailsKeepsWire ==
  ASSUME WireInv, NEW c \in Client, CommandFails(c)
  PROVE  WireInv'
<1>1. WireTypes /\ ClientInv(c) /\ pc[c] = "idle"
  BY DEF WireInv, CommandFails, Round
<1>2. conn[c] = "none" /\ net[c] = <<>> /\ inq[c] = <<>> /\ reply[c] = <<>>
  BY <1>1 DEF ClientInv, Underway, Answered
<1>3. /\ \E end \in {"ended", "starved"} : pc' = [pc EXCEPT ![c] = end]
      /\ conn' = conn \/ conn' = [conn EXCEPT ![c] = "open"]
      /\ heard' = [heard EXCEPT ![c] = NULL]
      /\ UNCHANGED <<argv, config, stream, net, inq, reply, in_buf, out_buf, token_stream,
                     flagged, got, told>>
  BY DEF CommandFails, Round, agent
<1>4. WireTypes'
  BY <1>1, <1>3 DEF WireTypes
<1>5. ClientInv(c)'
  <2>1. pc'[c] # "idle" /\ heard'[c] = NULL /\ net'[c] = <<>> /\ inq'[c] = <<>> /\ reply'[c] = <<>>
    BY <1>1, <1>2, <1>3 DEF WireTypes
  <2>2. Words(c)' = Words(c)
    BY <1>3 DEF Words
  <2>3. Underway(c)' /\ Answered(c)'
    BY <2>1 DEF Underway, Answered
  <2> QED  BY <1>1, <1>3, <2>1, <2>2, <2>3 DEF ClientInv
<1>6. ASSUME NEW d \in Client, d # c PROVE ClientInv(d)'
  <2>1. ClientInv(d)
    BY DEF WireInv
  <2>2. pc'[d] = pc[d] /\ conn'[d] = conn[d] /\ heard'[d] = heard[d]
    BY <1>1, <1>3, <1>6 DEF WireTypes
  <2> QED  BY <1>3, <2>1, <2>2, OthersKeep
<1> QED  BY <1>3, <1>4, <1>5, <1>6 DEF WireInv

\* A client that sends its command.
LEMMA CommandKeepsWire ==
  ASSUME PlainUsageOnly, WireInv, NEW c \in Client, Command(c)
  PROVE  WireInv'
<1> DEFINE words == Words(c)
           e == Len(words) - 1
           s == client_eval_cmds(words, protocol_tokenstream_reset(stream[c]))
           m == protocol_send(s, ZeroBuf).bytes
<1>1. WireTypes /\ ClientInv(c) /\ pc[c] = "idle" /\ ~ Rejected(words)
  BY DEF WireInv, Command, Round
<1>2. /\ stream' = [stream EXCEPT ![c] = s] /\ net' = [net EXCEPT ![c] = m]
      /\ pc' = [pc EXCEPT ![c] = "waiting"] /\ conn' = [conn EXCEPT ![c] = "open"]
      /\ heard' = [heard EXCEPT ![c] = NULL] /\ told' = [told EXCEPT ![c] = NULL]
      /\ UNCHANGED <<argv, config, inq, reply, in_buf, out_buf, token_stream, flagged, got>>
  BY DEF Command, Round
<1>3. Plain(words) /\ 16 + Bytes(WordTokens(words)) <= BUF_SIZE
  BY <1>1, SpokenPlain
<1>4. stream[c] \in Stream /\ Clean(stream[c], e) /\ 4 <= TOKEN_COUNT
  BY <1>1 DEF WireTypes, ClientInv, PlainUsageOnly
<1>5. s \in Stream /\ s.length <= TOKEN_COUNT /\ Clean(s, e) /\ Packet(m, words)
  <2> HIDE DEF words
  <2> QED  BY <1>1, <1>3, <1>4, CommandSends
<1> HIDE DEF s, m
<1>6. conn[c] = "none" /\ net[c] = <<>> /\ inq[c] = <<>> /\ reply[c] = <<>>
  BY <1>1 DEF ClientInv, Underway, Answered
<1>7. WireTypes'
  BY <1>1, <1>2, <1>5 DEF WireTypes
<1>8. ClientInv(c)'
  <2>1. /\ stream'[c] = s /\ net'[c] = m /\ pc'[c] = "waiting" /\ conn'[c] = "open"
        /\ heard'[c] = NULL /\ inq'[c] = <<>> /\ reply'[c] = <<>> /\ got'[c] = got[c]
    BY <1>1, <1>2, <1>6 DEF WireTypes
  <2>2. Words(c)' = words
    BY <1>2 DEF Words
  <2>3. Underway(c)'
    BY <1>5, <2>1, <2>2 DEF Underway
  <2>4. Answered(c)'
    BY <2>1 DEF Answered
  <2>5. got'[c] # NULL => Understood(got'[c], argv'[c])
    BY <1>1, <1>2, <2>1 DEF ClientInv
  <2> HIDE DEF words
  <2> QED  BY <1>5, <2>1, <2>2, <2>3, <2>4, <2>5 DEF ClientInv
<1>9. ASSUME NEW d \in Client, d # c PROVE ClientInv(d)'
  <2>1. ClientInv(d)
    BY DEF WireInv
  <2>2. /\ stream'[d] = stream[d] /\ net'[d] = net[d] /\ pc'[d] = pc[d] /\ conn'[d] = conn[d]
        /\ heard'[d] = heard[d] /\ told'[d] = told[d]
    BY <1>1, <1>2, <1>9 DEF WireTypes
  <2> QED  BY <1>2, <2>1, <2>2, OthersKeep
<1> QED  BY <1>2, <1>7, <1>8, <1>9 DEF WireInv

\* The connection of a client is gone, and its program goes on.
LEMMA ResponseKeepsWire ==
  ASSUME PlainUsageOnly, WireInv, NEW c \in Client, Response(c)
  PROVE  WireInv'
<1> DEFINE e == Len(Words(c)) - 1
           read == protocol_read(Overwritten(ZeroBuf, reply[c]), stream[c])
<1>1. WireTypes /\ ClientInv(c) /\ pc[c] = "waiting" /\ reply[c] # <<>>
  BY DEF WireInv, Response
<1>2. conn[c] = "closed" /\ AnswerPacket(reply[c], told[c]) /\ net[c] = <<>> /\ inq[c] = <<>>
  BY <1>1 DEF ClientInv, Answered, Underway
<1>3. stream[c] \in Stream
  BY <1>1 DEF WireTypes
<1>4. /\ read.ok = TRUE /\ read.stream \in Stream /\ read.stream.length = 1
      /\ \A k \in 1 .. TOKEN_COUNT - 1 : read.stream.tokens[k] = stream[c].tokens[k]
      /\ Printed(read.stream) = told[c]
  <2>1. Heard(read, stream[c], told[c])
    BY <1>2, <1>3, ResponseHears, Zenon
  <2> HIDE DEF read
  <2> QED  BY <2>1, Zenon DEF Heard
<1>5. /\ stream' = [stream EXCEPT ![c] = read.stream]
      /\ heard' = [heard EXCEPT ![c] = IF read.ok THEN Printed(read.stream) ELSE NULL]
      /\ conn' = [conn EXCEPT ![c] = "none"] /\ reply' = [reply EXCEPT ![c] = <<>>]
      /\ pc' = [pc EXCEPT ![c] = IF Watching(c) THEN "idle" ELSE "ended"]
      /\ UNCHANGED <<argv, config, net, inq, in_buf, out_buf, token_stream, flagged, got, told>>
  BY DEF Response, NextRound, Closed, agent
<1> HIDE DEF read
<1>6. WireTypes'
  BY <1>1, <1>4, <1>5 DEF WireTypes
<1>7. ClientInv(c)'
  <2>1. /\ stream'[c] = read.stream /\ heard'[c] = told[c] /\ conn'[c] = "none" /\ reply'[c] = <<>>
        /\ net'[c] = <<>> /\ inq'[c] = <<>> /\ got'[c] = got[c] /\ told'[c] = told[c]
    <3>1. heard'[c] = told[c]
      BY <1>1, <1>4, <1>5, Zenon DEF WireTypes
    <3> QED  BY <1>1, <1>2, <1>5, <3>1 DEF WireTypes
  <2>2. Words(c)' = Words(c)
    BY <1>5 DEF Words
  <2>3. Underway(c)' /\ Answered(c)'
    BY <2>1 DEF Underway, Answered
  <2>4. ASSUME ~ Rejected(Words(c)) PROVE Clean(read.stream, e)
    <3>1. Clean(stream[c], e)
      BY <1>1, <2>4 DEF ClientInv
    <3>2. e \in 0 .. 2
      BY <1>1, <2>4, SpokenPlain, WordTokensAre
    <3> HIDE DEF e
    <3>3. \A k \in 1 .. e - 1 : k \in 1 .. TOKEN_COUNT - 1
      BY <3>2, ExchangeAssumption DEF PlainUsageOnly
    <3> QED  BY <1>4, <3>1, <3>3 DEF Clean
  <2>5. got'[c] # NULL => Understood(got'[c], argv'[c])
    BY <1>1, <1>5, <2>1 DEF ClientInv
  <2>6. read.stream.length <= TOKEN_COUNT
    BY <1>4, ExchangeAssumption
  <2> QED  BY <1>4, <2>1, <2>2, <2>3, <2>4, <2>5, <2>6 DEF ClientInv
<1>8. ASSUME NEW d \in Client, d # c PROVE ClientInv(d)'
  <2>1. ClientInv(d)
    BY DEF WireInv
  <2>2. /\ stream'[d] = stream[d] /\ pc'[d] = pc[d] /\ conn'[d] = conn[d]
        /\ heard'[d] = heard[d] /\ reply'[d] = reply[d]
    BY <1>1, <1>5, <1>8 DEF WireTypes
  <2> QED  BY <1>5, <2>1, <2>2, OthersKeep
<1> QED  BY <1>5, <1>6, <1>7, <1>8 DEF WireInv

\* A client whose connection ends without an answer.
LEMMA NoResponseKeepsWire ==
  ASSUME WireInv, NEW c \in Client, NoResponse(c)
  PROVE  WireInv'
<1>1. WireTypes /\ ClientInv(c) /\ conn[c] = "closed" /\ reply[c] = <<>>
  BY DEF WireInv, NoResponse
<1>2. net[c] = <<>> /\ inq[c] = <<>> /\ heard[c] = NULL
  BY <1>1 DEF ClientInv, Underway, Answered
<1>3. /\ conn' = [conn EXCEPT ![c] = "none"] /\ reply' = [reply EXCEPT ![c] = <<>>]
      /\ pc' = [pc EXCEPT ![c] = IF Watching(c) THEN "idle" ELSE "ended"]
      /\ UNCHANGED <<argv, config, stream, net, inq, in_buf, out_buf, token_stream, flagged, got, told, heard>>
  BY DEF NoResponse, NextRound, Closed, agent
<1>4. WireTypes'
  BY <1>1, <1>3 DEF WireTypes
<1>5. ClientInv(c)'
  <2>1. /\ conn'[c] = "none" /\ reply'[c] = <<>> /\ net'[c] = <<>> /\ inq'[c] = <<>> /\ heard'[c] = NULL
    BY <1>1, <1>2, <1>3 DEF WireTypes
  <2>2. Words(c)' = Words(c)
    BY <1>3 DEF Words
  <2>3. Underway(c)' /\ Answered(c)'
    BY <2>1 DEF Underway, Answered
  <2> QED  BY <1>1, <1>3, <2>1, <2>2, <2>3 DEF ClientInv
<1>6. ASSUME NEW d \in Client, d # c PROVE ClientInv(d)'
  <2>1. ClientInv(d)
    BY DEF WireInv
  <2>2. pc'[d] = pc[d] /\ conn'[d] = conn[d] /\ reply'[d] = reply[d]
    BY <1>1, <1>3, <1>6 DEF WireTypes
  <2> QED  BY <1>3, <2>1, <2>2, OthersKeep
<1> QED  BY <1>3, <1>4, <1>5, <1>6 DEF WireInv

\* In one piece a message arrives whole.
LEMMA ArriveKeepsWire ==
  ASSUME PlainUsageOnly, WireInv, NEW c \in Client, Arrive(c)
  PROVE  WireInv'
<1>1. WireTypes /\ ClientInv(c) /\ net[c] # <<>> /\ SPLIT = FALSE
  BY DEF WireInv, Arrive, PlainUsageOnly
<1>2. inq[c] = <<>> /\ conn[c] = "open" /\ Packet(net[c], Words(c)) /\ net[c] \in Seq(Nat)
  BY <1>1 DEF ClientInv, Underway, Packet
<1>3. /\ inq' = [inq EXCEPT ![c] = inq[c] \o SubSeq(net[c], 1, Len(net[c]))]
      /\ net' = [net EXCEPT ![c] = SubSeq(net[c], Len(net[c]) + 1, Len(net[c]))]
      /\ UNCHANGED <<argv, config, stream, pc, conn, reply, in_buf, out_buf, token_stream, flagged, got, told, heard>>
  BY <1>1 DEF Arrive, program, agent, WireTypes
<1>4. inq'[c] = net[c] /\ net'[c] = <<>>
  <2> DEFINE m == net[c]
  <2>1. m \in Seq(Nat)
    BY <1>2
  <2> HIDE DEF m
  <2>2. SubSeq(m, 1, Len(m)) = m /\ SubSeq(m, Len(m) + 1, Len(m)) = <<>> /\ <<>> \o m = m
    BY <2>1
  <2>3. inq'[c] = <<>> \o SubSeq(m, 1, Len(m)) /\ net'[c] = SubSeq(m, Len(m) + 1, Len(m))
    BY <1>1, <1>2, <1>3 DEF WireTypes, m
  <2> QED  BY <2>2, <2>3 DEF m
<1>5. WireTypes'
  BY <1>1, <1>3 DEF WireTypes
<1>6. ClientInv(c)'
  <2>1. Words(c)' = Words(c)
    BY <1>3 DEF Words
  <2>2. Underway(c)'
    BY <1>2, <1>3, <1>4, <2>1 DEF Underway
  <2>3. Answered(c)'
    BY <1>1, <1>3 DEF ClientInv, Answered
  <2> QED  BY <1>1, <1>3, <2>1, <2>2, <2>3 DEF ClientInv
<1>7. ASSUME NEW d \in Client, d # c PROVE ClientInv(d)'
  <2>1. ClientInv(d)
    BY DEF WireInv
  <2>2. net'[d] = net[d] /\ inq'[d] = inq[d]
    BY <1>1, <1>3, <1>7 DEF WireTypes
  <2> QED  BY <1>3, <2>1, <2>2, OthersKeep
<1>8. \A d \in flagged' : inq'[d] # <<>>
  <2> SUFFICES ASSUME NEW d \in flagged PROVE inq'[d] # <<>>
    BY <1>3
  <2>1. d \in Client /\ inq[d] # <<>>
    BY <1>1 DEF WireInv, WireTypes
  <2>2. d # c /\ inq'[d] = inq[d]
    BY <1>1, <1>2, <1>3, <2>1 DEF WireTypes
  <2> QED  BY <2>1, <2>2
<1> QED  BY <1>3, <1>5, <1>6, <1>7, <1>8 DEF WireInv

\* The connection of a client that the pass does not look at is closed.
LEMMA RefuseKeepsWire ==
  ASSUME WireInv, NEW c \in Client, Refuse(c)
  PROVE  WireInv'
<1>1. WireTypes /\ ClientInv(c) /\ conn[c] = "open" /\ c \notin flagged
  BY DEF WireInv, Refuse
<1>2. reply[c] = <<>> /\ heard[c] = NULL
  BY <1>1 DEF ClientInv, Answered
<1>3. /\ conn' = [conn EXCEPT ![c] = "closed"] /\ net' = [net EXCEPT ![c] = <<>>]
      /\ inq' = [inq EXCEPT ![c] = <<>>]
      /\ UNCHANGED <<argv, config, stream, pc, reply, in_buf, out_buf, token_stream, flagged, got, told, heard>>
  BY DEF Refuse, HungUp, program, agent
<1>4. WireTypes'
  BY <1>1, <1>3 DEF WireTypes
<1>5. ClientInv(c)'
  <2>1. conn'[c] = "closed" /\ net'[c] = <<>> /\ inq'[c] = <<>>
    BY <1>1, <1>3 DEF WireTypes
  <2>2. Words(c)' = Words(c)
    BY <1>3 DEF Words
  <2>3. Underway(c)' /\ Answered(c)'
    BY <1>2, <1>3, <2>1 DEF Underway, Answered
  <2>4. pc'[c] # "idle"
    BY <1>1, <1>3 DEF ClientInv
  <2> QED  BY <1>1, <1>3, <2>1, <2>2, <2>3, <2>4 DEF ClientInv
<1>6. ASSUME NEW d \in Client, d # c PROVE ClientInv(d)'
  <2>1. ClientInv(d)
    BY DEF WireInv
  <2>2. conn'[d] = conn[d] /\ net'[d] = net[d] /\ inq'[d] = inq[d]
    BY <1>1, <1>3, <1>6 DEF WireTypes
  <2> QED  BY <1>3, <2>1, <2>2, OthersKeep
<1>7. \A d \in flagged' : inq'[d] # <<>>
  <2> SUFFICES ASSUME NEW d \in flagged PROVE inq'[d] # <<>>
    BY <1>3
  <2>1. d \in Client /\ inq[d] # <<>> /\ d # c
    BY <1>1 DEF WireInv, WireTypes
  <2> QED  BY <1>1, <1>3, <2>1 DEF WireTypes
<1> QED  BY <1>3, <1>4, <1>5, <1>6, <1>7 DEF WireInv

\* A pass that begins with cleared buffers.
LEMMA PassKeepsWire ==
  ASSUME WireInv, BeginPass
  PROVE  WireInv'
<1>1. /\ flagged' = {c \in Client : inq[c] # <<>>} /\ in_buf' = ZeroBuf /\ out_buf' = ZeroBuf
      /\ UNCHANGED <<argv, config, stream, pc, conn, net, inq, reply, token_stream, got, told, heard>>
  BY DEF BeginPass, program, wire
<1>2. WireTypes'
  BY <1>1, ZeroBuffer DEF WireInv, WireTypes, Buffer, ZeroBuf
<1>3. \A d \in Client : ClientInv(d)'
  BY <1>1, OthersKeep DEF WireInv
<1> QED  BY <1>1, <1>2, <1>3 DEF WireInv

\* The agent reads and answers a request.
LEMMA ServeKeepsWire ==
  ASSUME PlainUsageOnly, WireInv, NEW c \in Client, Serve(c)
  PROVE  WireInv'
<1> DEFINE words == Words(c)
           filled == Overwritten(in_buf, inq[c])
           read == protocol_read(filled, token_stream)
           request == IF read.ok THEN Request(read.stream) ELSE NULL
           text == AnswerText(request)
<1>1. WireTypes /\ ClientInv(c) /\ c \in flagged
  BY DEF WireInv, Serve
<1>2. /\ inq[c] # <<>> /\ conn[c] = "open" /\ Packet(inq[c], words) /\ ~ Rejected(words)
      /\ reply[c] = <<>> /\ heard[c] = NULL /\ pc[c] # "idle"
  <2>1. inq[c] # <<>>
    BY <1>1 DEF WireInv
  <2> QED  BY <1>1, <2>1 DEF ClientInv, Underway, Answered, Packet
<1>3. /\ Plain(words) /\ 16 + Bytes(WordTokens(words)) <= BUF_SIZE
      /\ Usage[argv[c]].type = Asked(words).type /\ Usage[argv[c]].args = Asked(words).args
      /\ Usage[argv[c]].vars = Asked(words).vars
  BY <1>1, <1>2, SpokenPlain
<1>4. 4 <= TOKEN_COUNT /\ 18 + Len(InvalidText) <= BUF_SIZE
  BY DEF PlainUsageOnly
<1>5. Buffer(in_buf) /\ Buffer(out_buf) /\ token_stream \in Stream
  BY <1>1 DEF WireTypes
<1>6. /\ Buffer(filled) /\ read.ok = (Len(words) # 1) /\ read.stream \in Stream
      /\ Len(words) # 1 => Received(read.stream, words) /\ read.stream.type = MsgType(words)
  <2> HIDE DEF words
  <2> QED  BY <1>2, <1>3, <1>4, <1>5, ServeReads, ZenonT(40)
<1>7. PICK type \in {MSG_ERR, MSG_SUCCESS} :
        LET answer == AnswerStream(read.stream, type, text)
            out    == protocol_send(answer, out_buf)
        IN  /\ token_stream' = answer /\ out_buf' = out.buf
            /\ told' = [told EXCEPT ![c] = [type |-> type, text |-> text]]
            /\ reply' = [reply EXCEPT ![c] = IF pc[c] = "waiting" THEN out.bytes ELSE <<>>]
  <2> HIDE DEF read
  <2> QED  BY DEF Serve, read
<1>8. /\ flagged' = flagged \ {c} /\ in_buf' = filled
      /\ got' = [got EXCEPT ![c] = IF read.ok THEN request ELSE [type |-> MSG_ERR]]
      /\ conn' = [conn EXCEPT ![c] = "closed"] /\ net' = [net EXCEPT ![c] = <<>>]
      /\ inq' = [inq EXCEPT ![c] = <<>>]
      /\ UNCHANGED <<argv, config, stream, pc, heard>>
  <2> HIDE DEF read
  <2> QED  BY DEF Serve, HungUp, program, read
<1> HIDE DEF read, filled
<1>9. Understood(got'[c], argv[c]) /\ (request = NULL \/ request.args = Asked(words).args)
  <2>0. got'[c] = IF read.ok THEN request ELSE [type |-> MSG_ERR]
    BY <1>1, <1>8 DEF WireTypes
  <2>1. CASE Len(words) = 1
    <3>1. ~ read.ok
      BY <1>6, <2>1, Zenon
    <3>2. got'[c] = [type |-> MSG_ERR] /\ request = NULL
      BY <2>0, <3>1, Zenon
    <3>3. Asked(words).type = MSG_ERR
      BY <2>1 DEF Asked
    <3> QED  BY <1>3, <3>2, <3>3 DEF Understood
  <2>2. CASE Len(words) # 1
    <3>1. read.ok
      BY <1>6, <2>2, Zenon
    <3>2. got'[c] = Request(read.stream) /\ request = Request(read.stream)
      BY <2>0, <3>1, Zenon
    <3>3. Received(read.stream, words) /\ read.stream.type = MsgType(words)
      BY <1>6, <2>2, Zenon
    <3> HIDE DEF words
    <3>4. Understood(Request(read.stream), argv[c]) /\ Request(read.stream).args = Asked(words).args
      BY <1>3, <2>2, <3>3, RequestIs, Zenon
    <3> HIDE DEF request
    <3> QED  BY <3>2, <3>4, Zenon
  <2> QED  BY <2>1, <2>2
<1> HIDE DEF request
<1>10. text \in Text /\ 18 + Len(text) <= BUF_SIZE
  <2> HIDE DEF words
  <2> QED  BY <1>3, <1>4, <1>9, AnswerFits, Zenon
<1> HIDE DEF text
<1> DEFINE answer == AnswerStream(read.stream, type, text)
           out == protocol_send(answer, out_buf)
<1>11. /\ answer \in Stream /\ answer.length = 1 /\ Buffer(out.buf)
       /\ AnswerPacket(out.bytes, [type |-> type, text |-> text])
  <2>1. type \in CInt
    BY SMTT(30) DEF MSG_ERR, MSG_SUCCESS, CInt, INT_MAX
  <2>2. read.stream \in Stream
    BY <1>6
  <2> QED  BY <1>5, <1>10, <2>1, <2>2, AnswerSends, Zenon
<1>12. /\ token_stream' = answer /\ out_buf' = out.buf
       /\ told' = [told EXCEPT ![c] = [type |-> type, text |-> text]]
       /\ reply' = [reply EXCEPT ![c] = IF pc[c] = "waiting" THEN out.bytes ELSE <<>>]
  BY <1>7
<1> HIDE DEF answer, out
<1>13. WireTypes'
  <2>1. Buffer(in_buf)' /\ Buffer(out_buf)'
    BY <1>6, <1>8, <1>11, <1>12 DEF Buffer
  <2> QED  BY <1>1, <1>8, <1>11, <1>12, <2>1 DEF WireTypes
<1>14. ClientInv(c)'
  <2>1. /\ conn'[c] = "closed" /\ net'[c] = <<>> /\ inq'[c] = <<>> /\ heard'[c] = NULL
        /\ told'[c] = [type |-> type, text |-> text] /\ reply'[c] \in {out.bytes, <<>>}
    BY <1>1, <1>2, <1>8, <1>12 DEF WireTypes
  <2>2. Words(c)' = Words(c)
    BY <1>8 DEF Words
  <2>3. Underway(c)'
    BY <2>1 DEF Underway
  <2>4. Answered(c)'
    BY <1>11, <2>1 DEF Answered
  <2>5. pc'[c] # "idle" /\ stream'[c] = stream[c] /\ argv'[c] = argv[c]
    BY <1>2, <1>8
  <2> QED  BY <1>1, <1>9, <2>1, <2>2, <2>3, <2>4, <2>5 DEF ClientInv
<1>15. ASSUME NEW d \in Client, d # c PROVE ClientInv(d)'
  <2>1. ClientInv(d)
    BY DEF WireInv
  <2>2. /\ conn'[d] = conn[d] /\ net'[d] = net[d] /\ inq'[d] = inq[d] /\ reply'[d] = reply[d]
        /\ told'[d] = told[d] /\ got'[d] = got[d]
    BY <1>1, <1>8, <1>12, <1>15 DEF WireTypes
  <2> QED  BY <1>8, <2>1, <2>2, OthersKeep
<1>16. \A d \in flagged' : inq'[d] # <<>>
  <2> SUFFICES ASSUME NEW d \in flagged, d # c PROVE inq'[d] # <<>>
    BY <1>8
  <2>1. d \in Client /\ inq[d] # <<>>
    BY <1>1 DEF WireInv, WireTypes
  <2> QED  BY <1>1, <1>8, <2>1 DEF WireTypes
<1>17. token_stream'.length <= 1
  BY <1>11, <1>12
<1> QED  BY <1>13, <1>14, <1>15, <1>16, <1>17 DEF WireInv

\* Every step keeps the invariant.
LEMMA WireNext ==
  ASSUME PlainUsageOnly, WireInv, [Next]_vars
  PROVE  WireInv'
<1>1. CASE UNCHANGED vars
  BY <1>1, WireUntouched DEF vars, program, agent, wire, wired
<1>2. ASSUME NEW c \in Client, Change(c) PROVE WireInv'
  BY <1>2, WireUntouched DEF Change, agent, wire, wired
<1>3. ASSUME NEW c \in Client, Timeout(c) PROVE WireInv'
  BY <1>3, WireEnds DEF Timeout, agent, wire
<1>4. ASSUME NEW c \in Client, CommandRejected(c) PROVE WireInv'
  BY <1>4, WireEnds DEF CommandRejected, Round, agent, wire
<1>5. ASSUME NEW c \in Client, CommandFails(c) PROVE WireInv'
  BY <1>5, FailsKeepsWire
<1>6. ASSUME NEW c \in Client,
             Command(c) \/ Response(c) \/ NoResponse(c) \/ Arrive(c) \/ Refuse(c) \/ Serve(c)
      PROVE WireInv'
  BY <1>6, CommandKeepsWire, ResponseKeepsWire, NoResponseKeepsWire, ArriveKeepsWire,
     RefuseKeepsWire, ServeKeepsWire
<1>7. CASE BeginPass
  BY <1>7, PassKeepsWire
<1> QED  BY <1>1, <1>2, <1>3, <1>4, <1>5, <1>6, <1>7 DEF Next, ClientProgram

\* The invariant holds throughout.
LEMMA WireAlways ==
  ASSUME PlainUsageOnly
  PROVE  Spec => []WireInv
<1>1. Init => WireInv
  BY WireInit
<1>2. WireInv /\ [Next]_vars => WireInv'
  BY WireNext
<1> QED  BY <1>1, <1>2, PTL DEF Spec

\* The streams keep their tokens within the array: client_eval_cmds sets the length to the
\* number of words before protocol_tokenstream_add_token counts them again, and neither the
\* requests nor the answers read into the same stream ever let the length grow from one
\* round to the next.
THEOREM StreamsAlwaysFit ==
  ASSUME PlainUsageOnly
  PROVE  Spec => []TypeOK
<1>1. WireInv => TypeOK
  <2> SUFFICES ASSUME WireInv PROVE TypeOK
    OBVIOUS
  <2>1. WireTypes
    BY DEF WireInv
  <2>2. ASSUME NEW c \in Client PROVE stream[c].length \in 0 .. TOKEN_COUNT
    <3>1. stream[c].length \in Nat /\ stream[c].length <= TOKEN_COUNT
      BY <2>1 DEF WireInv, WireTypes, ClientInv, Stream
    <3> QED  BY <3>1, ExchangeAssumption
  <2>3. token_stream.length \in 0 .. TOKEN_COUNT
    <3>1. token_stream.length \in Nat /\ token_stream.length <= 1
      BY <2>1 DEF WireInv, WireTypes, Stream
    <3> QED  BY <3>1, ExchangeAssumption
  <2> QED  BY <2>1, <2>2, <2>3 DEF TypeOK, WireTypes
<1> QED  BY <1>1, WireAlways, PTL

\* What protocol_read and protocol_parse_token_stream of the agent get out of its buffer is
\* what the command line says, in every round and whichever clients were served before it:
\* every message announces more tokens than it has, but for a plain command the missing
\* ones are empty, because protocol_send sends SizeofInt bytes more than it wrote: they
\* are 0 in the buffer of the client and go over what an earlier message left.
THEOREM RequestsAlwaysUnderstood ==
  ASSUME PlainUsageOnly
  PROVE  Spec => []RequestUnderstood
<1>1. WireInv => RequestUnderstood
  BY DEF WireInv, ClientInv, Understood, RequestUnderstood
<1> QED  BY <1>1, WireAlways, PTL

\* server_eval_packet has room for the NULL behind the arguments and the variables of every
\* message: the length it allocates counts the words of the command twice.
THEOREM ArgsAlwaysFit ==
  ASSUME PlainUsageOnly
  PROVE  Spec => []ArgsFit
<1>1. WireInv => ArgsFit
  BY DEF WireInv, ClientInv, Understood, ArgsFit
<1> QED  BY <1>1, WireAlways, PTL

\* A client reads the answer it was given, though it reads it into the stream of its request
\* and the agent answers all clients of a pass from one stream and one buffer.
THEOREM AnswersAlwaysHeard ==
  ASSUME PlainUsageOnly
  PROVE  Spec => []AnswerHeard
<1>1. WireInv => AnswerHeard
  BY DEF WireInv, ClientInv, Answered, AnswerHeard
<1> QED  BY <1>1, WireAlways, PTL
=============================================================================
