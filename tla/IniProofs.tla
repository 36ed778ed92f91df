------------------------------ MODULE IniProofs -----------------------------
(***************************************************************************)
(* ini_parse of src/src/ini.h for every set of lines and every number of   *)
(* them in the file.  First which files it rejects (Inv), for lines that   *)
(* fit the line buffer; then what it hands to workspace_task_get and what  *)
(* task that collects (ReadInv), for the lines TidyLines describes.        *)
(***************************************************************************)
EXTENDS Ini, StructureLemmas

\* The characters of the lines.
Char == UNION {{l[j] : j \in 1 .. Len(l)} : l \in Line}

\* Every line is a text that fgets returns in one piece.
WholeLines ==
  /\ Line \subseteq Seq(Char)
  /\ \A l \in Line : Len(l) < LINE_BUF_SIZE /\ \A j \in 1 .. Len(l) : l[j] # NUL

\* The lines end in an entry with its indented lines.
InEntry(lines) ==
  \E q \in 1 .. Len(lines) :
    IsEntry(lines[q]) /\ \A r \in q + 1 .. Len(lines) : IsIndented(lines[r])

\* The indented lines that continue no entry.
Stray(lines) ==
  {p \in 1 .. Len(lines) :
     /\ IsIndented(lines[p])
     /\ \A q \in 1 .. p - 1 :
          IsEntry(lines[q]) => \E r \in q + 1 .. p - 1 : ~ IsIndented(lines[r])}

\* The inductive invariant: the parser collects a value exactly behind an entry, except
\* after a last line of blanks, behind which nothing is read.
Inv ==
  /\ text \in Seq(Line) /\ rest = <<>>
  /\ status \in {"run", "OK", "INVALID"}
  /\ status = "INVALID" <=> Stray(text) # {}
  /\ status = "run" =>
       IF mode = "MULTILINE"
       THEN text # <<>> /\ text[Len(text)][Len(text[Len(text)])] # NL
       ELSE mode = "VALUE" <=> InEntry(text)

-----------------------------------------------------------------------------
\* One more line: it is in an entry when it is one, or continues one.
LEMMA InEntryAppend ==
  ASSUME NEW lines \in Seq(Line), NEW t \in Line
  PROVE  InEntry(Append(lines, t)) <=> IsEntry(t) \/ (IsIndented(t) /\ InEntry(lines))
<1> DEFINE n == Len(lines)
           more == Append(lines, t)
<1>1. n \in Nat /\ Len(more) = n + 1 /\ more[n + 1] = t /\ \A j \in 1 .. n : more[j] = lines[j]
  BY LenProperties, AppendProperties
<1> HIDE DEF n, more
<1>2. InEntry(more) <=> \E q \in 1 .. n + 1 :
                           IsEntry(more[q]) /\ \A r \in q + 1 .. n + 1 : IsIndented(more[r])
  BY <1>1 DEF InEntry
<1>3. InEntry(lines) <=> \E q \in 1 .. n :
                            IsEntry(lines[q]) /\ \A r \in q + 1 .. n : IsIndented(lines[r])
  BY DEF InEntry, n
<1>4. ASSUME InEntry(more) PROVE IsEntry(t) \/ (IsIndented(t) /\ InEntry(lines))
  <2>1. PICK q \in 1 .. n + 1 : IsEntry(more[q]) /\ \A r \in q + 1 .. n + 1 : IsIndented(more[r])
    BY <1>2, <1>4
  <2>2. CASE q = n + 1
    BY <1>1, <2>1, <2>2
  <2>3. CASE q # n + 1
    <3>1. q \in 1 .. n /\ n + 1 \in q + 1 .. n + 1
      BY <1>1, <2>3
    <3>2. \A r \in q + 1 .. n : r \in q + 1 .. n + 1 /\ r \in 1 .. n
      BY <1>1, <3>1
    <3>3. IsEntry(lines[q]) /\ IsIndented(t) /\ \A r \in q + 1 .. n : IsIndented(lines[r])
      BY <1>1, <2>1, <3>1, <3>2
    <3> QED  BY <1>3, <3>1, <3>3
  <2> QED  BY <2>2, <2>3
<1>5. ASSUME IsEntry(t) PROVE InEntry(more)
  <2>1. n + 1 \in 1 .. n + 1 /\ (n + 1) + 1 .. n + 1 = {}
    BY <1>1
  <2> QED  BY <1>1, <1>2, <1>5, <2>1
<1>6. ASSUME IsIndented(t), InEntry(lines) PROVE InEntry(more)
  <2>1. PICK q \in 1 .. n : IsEntry(lines[q]) /\ \A r \in q + 1 .. n : IsIndented(lines[r])
    BY <1>3, <1>6
  <2>2. q \in 1 .. n + 1 /\ \A r \in q + 1 .. n + 1 : r = n + 1 \/ (r \in q + 1 .. n /\ r \in 1 .. n)
    BY <1>1
  <2>3. IsEntry(more[q]) /\ \A r \in q + 1 .. n + 1 : IsIndented(more[r])
    BY <1>1, <1>6, <2>1, <2>2
  <2> QED  BY <1>2, <2>2, <2>3
<1> QED  BY <1>4, <1>5, <1>6 DEF more

\* One more line is a stray one when it is indented behind no entry.
LEMMA StrayAppend ==
  ASSUME NEW lines \in Seq(Line), NEW t \in Line
  PROVE  Stray(Append(lines, t)) # {} <=>
           Stray(lines) # {} \/ (IsIndented(t) /\ ~ InEntry(lines))
<1> DEFINE n == Len(lines)
           more == Append(lines, t)
           Free(s, p) == \A q \in 1 .. p - 1 :
                           IsEntry(s[q]) => \E r \in q + 1 .. p - 1 : ~ IsIndented(s[r])
<1>1. n \in Nat /\ Len(more) = n + 1 /\ more[n + 1] = t /\ \A j \in 1 .. n : more[j] = lines[j]
  BY LenProperties, AppendProperties
<1> HIDE DEF n, more
<1>2. /\ Stray(more) = {p \in 1 .. n + 1 : IsIndented(more[p]) /\ Free(more, p)}
      /\ Stray(lines) = {p \in 1 .. n : IsIndented(lines[p]) /\ Free(lines, p)}
  BY <1>1 DEF Stray, n
<1>3. ASSUME NEW p \in 1 .. n + 1 PROVE Free(more, p) <=> Free(lines, p)
  <2>1. \A q \in 1 .. p - 1 : q \in 1 .. n
    BY <1>1
  <2>2. \A q \in 1 .. p - 1 : \A r \in q + 1 .. p - 1 : r \in 1 .. n
    BY <1>1
  <2> QED  BY <1>1, <2>1, <2>2
<1>4. Free(lines, n + 1) <=> ~ InEntry(lines)
  <2>1. (n + 1) - 1 = n
    BY <1>1
  <2> QED  BY <2>1 DEF InEntry, n
<1> HIDE DEF Free
<1>5. ASSUME NEW p \in 1 .. n + 1
      PROVE  p \in Stray(more) <=> p \in Stray(lines) \/ (p = n + 1 /\ IsIndented(t) /\ ~ InEntry(lines))
  <2>1. CASE p = n + 1
    <3>1. p \notin 1 .. n
      BY <1>1, <2>1
    <3> QED  BY <1>1, <1>2, <1>3, <1>4, <2>1, <3>1
  <2>2. CASE p # n + 1
    <3>1. p \in 1 .. n
      BY <1>1, <2>2
    <3> QED  BY <1>1, <1>2, <1>3, <2>2, <3>1
  <2> QED  BY <2>1, <2>2
<1>6. n + 1 \in 1 .. n + 1 /\ 1 .. n \subseteq 1 .. n + 1
  BY <1>1
<1>7. Stray(more) \subseteq 1 .. n + 1 /\ Stray(lines) \subseteq 1 .. n
  BY <1>2
<1> QED  BY <1>5, <1>6, <1>7 DEF more

\* Where a scan of parse_line may stop, and where it does.
Stops(buf, C) == {k \in 1 .. LINE_BUF_SIZE - 1 : buf[k] \in C} \cup {LINE_BUF_SIZE}

Solid(buf, sp) == {k \in 1 .. LINE_BUF_SIZE - 1 : ~ buf[k] = sp} \cup {LINE_BUF_SIZE}

First(M) == CHOOSE x \in M : \A y \in M : x <= y

\* The scans of parse_line over a line that was just read stop at its NUL at the latest.
LEMMA ScanStops ==
  ASSUME WholeLines, NEW t \in Line, line' = fgets(t), NEW C, NUL \in C
  PROVE  LET k == First(Stops(line', C))
         IN  /\ k \in 1 .. Len(t) /\ line'[k] \in C
             /\ line'[k] = IF k < Len(t) THEN t[k + 1] ELSE NUL
             /\ \A j \in 1 .. k - 1 : t[j + 1] \notin C
<1> DEFINE n == Len(t)
           found == Stops(line', C)
           k == First(found)
<1>1. n \in Nat /\ n > 0 /\ n < LINE_BUF_SIZE /\ LINE_BUF_SIZE \in Nat
  <2>1. t \in Seq(Char) /\ t # <<>>
    BY IniAssumption DEF WholeLines
  <2> QED  BY <2>1, LenProperties, EmptySeq, IniAssumption DEF WholeLines
<1>2. \A j \in 0 .. n : line'[j] = IF j < n THEN t[j + 1] ELSE NUL
  BY <1>1 DEF fgets
<1>3. found \in SUBSET Nat /\ n \in found
  BY <1>1, <1>2 DEF Stops
<1>4. k = CHOOSE x \in found : \A y \in found : x <= y
  BY DEF First
<1>5. \E x \in found : \A y \in found : x <= y
  <2> HIDE DEF found
  <2> QED  BY <1>3, Lowest
<1>6. k \in found /\ \A y \in found : k <= y
  <2> HIDE DEF found, k
  <2> QED  BY <1>4, <1>5
<1> HIDE DEF k, n
<1>7. k <= n /\ k \in 1 .. LINE_BUF_SIZE - 1 /\ line'[k] \in C
  BY <1>1, <1>3, <1>6 DEF Stops
<1>8. k \in 1 .. n /\ line'[k] = IF k < n THEN t[k + 1] ELSE NUL
  BY <1>1, <1>2, <1>7
<1>9. ASSUME NEW j \in 1 .. k - 1 PROVE t[j + 1] \notin C
  <2>1. j \in 1 .. LINE_BUF_SIZE - 1 /\ j \in 0 .. n /\ j < n /\ ~ (k <= j)
    BY <1>1, <1>8
  <2>2. j \notin found
    BY <1>6, <2>1
  <2> QED  BY <1>2, <2>1, <2>2 DEF Stops
<1> QED  BY <1>7, <1>8, <1>9 DEF k, n

\* The scan for a character e finds one exactly when the line has one behind its first.
LEMMA CharacterFound ==
  ASSUME WholeLines, NEW t \in Line, line' = fgets(t), NEW e, e # NUL
  PROVE  line'[First(Stops(line', {e, NUL}))] = e <=> Position(t, e) # {}
<1> DEFINE n == Len(t)
           C == {e, NUL}
           k == First(Stops(line', C))
<1>1. NUL \in C /\ NUL # e
  OBVIOUS
<1>2. /\ k \in 1 .. n /\ line'[k] \in C
      /\ line'[k] = IF k < n THEN t[k + 1] ELSE NUL
      /\ \A j \in 1 .. k - 1 : t[j + 1] \notin C
  BY <1>1, ScanStops
<1>3. n \in Nat /\ \A j \in 1 .. n : t[j] # NUL
  BY LenProperties DEF WholeLines
<1> HIDE DEF k, n
<1>4. ASSUME line'[k] = e PROVE Position(t, e) # {}
  <2>1. k < n /\ t[k + 1] = e /\ k + 1 \in 2 .. n
    BY <1>1, <1>2, <1>3, <1>4
  <2>2. ASSUME NEW i \in 2 .. (k + 1) - 1 PROVE t[i] # e
    <3>1. i - 1 \in 1 .. k - 1 /\ (i - 1) + 1 = i
      BY <1>2, <1>3
    <3> QED  BY <1>2, <3>1
  <2> QED  BY <2>1, <2>2 DEF Position, n
<1>5. ASSUME Position(t, e) # {} PROVE line'[k] = e
  <2>1. PICK j \in 2 .. n : t[j] = e
    BY <1>5 DEF Position, n
  <2>2. ~ (j - 1 < k)
    <3>1. ASSUME j - 1 < k PROVE FALSE
      <4>1. j - 1 \in 1 .. k - 1 /\ (j - 1) + 1 = j
        BY <1>2, <1>3, <3>1
      <4> QED  BY <1>2, <2>1, <4>1
    <3> QED  BY <3>1
  <2>3. k < n /\ k + 1 \in 1 .. n
    BY <1>2, <1>3, <2>1, <2>2
  <2> QED  BY <1>2, <1>3, <2>3
<1> QED  BY <1>4, <1>5 DEF k

\* A line that begins with a blank, and in which only blanks are found, has no newline at
\* its end.
LEMMA BlanksToEnd ==
  ASSUME WholeLines, NEW t \in Line, line' = fgets(t), NEW sp, sp # NL, t[1] = sp,
         line'[First(Solid(line', sp))] = NUL
  PROVE  t[Len(t)] # NL
<1> SUFFICES ASSUME t[Len(t)] = NL PROVE FALSE
  OBVIOUS
<1> DEFINE n == Len(t)
           found == Solid(line', sp)
           k == First(found)
<1>1. n \in Nat /\ n > 0 /\ n < LINE_BUF_SIZE /\ LINE_BUF_SIZE \in Nat
  <2>1. t \in Seq(Char) /\ t # <<>>
    BY IniAssumption DEF WholeLines
  <2> QED  BY <2>1, LenProperties, EmptySeq, IniAssumption DEF WholeLines
<1>2. n > 1
  BY <1>1
<1>3. \A j \in 0 .. n : line'[j] = IF j < n THEN t[j + 1] ELSE NUL
  BY <1>1 DEF fgets
<1>4. line'[n - 1] = NL
  BY <1>1, <1>2, <1>3
<1>5. found \in SUBSET Nat /\ n - 1 \in found
  BY <1>1, <1>2, <1>4 DEF Solid
<1>6. k = CHOOSE x \in found : \A y \in found : x <= y
  BY DEF First
<1>7. \E x \in found : \A y \in found : x <= y
  <2> HIDE DEF found
  <2> QED  BY <1>5, Lowest
<1>8. k \in found /\ \A y \in found : k <= y
  <2> HIDE DEF found, k
  <2> QED  BY <1>6, <1>7
<1>9. line'[k] = NUL
  OBVIOUS
<1> HIDE DEF k, n
<1>10. k \in 1 .. n - 1
  BY <1>1, <1>2, <1>5, <1>8 DEF Solid
<1>11. line'[k] = t[k + 1] /\ k + 1 \in 1 .. n
  BY <1>1, <1>3, <1>10
<1>12. t[k + 1] # NUL
  BY <1>11 DEF WholeLines, n
<1> QED  BY <1>9, <1>11, <1>12

\* A line is read whole, and never behind a line without a newline.
LEMMA ReadWhole ==
  ASSUME WholeLines, Inv, NEW t \in Unread, ReadLine(t)
  PROVE  /\ t \in Line /\ line' = fgets(t) /\ rest' = <<>> /\ text' = Append(text, t)
         /\ status = "run" /\ mode # "MULTILINE"
         /\ text' \in Seq(Line) /\ text' # <<>> /\ text'[Len(text')] = t
<1>1. t \in Line /\ rest = <<>> /\ status = "run" /\ text \in Seq(Line)
  BY DEF Inv, Unread, ReadLine
<1>2. t \in Seq(Char) /\ Len(t) \in Nat /\ Len(t) < LINE_BUF_SIZE
  BY <1>1, LenProperties DEF WholeLines
<1>3. ChunkLen(t) = Len(t)
  BY <1>2 DEF ChunkLen
<1>4. SubSeq(t, 1, Len(t)) = t
  BY <1>2, SubSeqFull
<1>5. SubSeq(t, Len(t) + 1, Len(t)) = <<>>
  <2> DEFINE a == Len(t) + 1
             b == Len(t)
  <2>1. a \in Int /\ b \in Int /\ b < a
    BY <1>2
  <2> HIDE DEF a, b
  <2>2. SubSeq(t, a, b) = <<>>
    BY <2>1, SubSeqEmpty
  <2> QED  BY <2>2 DEF a, b
<1>6. line' = fgets(t) /\ rest' = <<>> /\ text' = Append(text, t)
  BY <1>1, <1>3, <1>4, <1>5 DEF ReadLine
<1>7. mode # "MULTILINE"
  BY <1>1 DEF Inv, Unread
<1>8. text' \in Seq(Line) /\ text' # <<>> /\ text'[Len(text')] = t
  BY <1>1, <1>6, AppendProperties, LenProperties
<1> QED  BY <1>1, <1>6, <1>7, <1>8

-----------------------------------------------------------------------------
\* A line that continues an entry or is not indented, and the mode it has to leave.
LEMMA LineKept ==
  ASSUME WholeLines, Inv, NEW t \in Unread, ReadLine(t), status' = status,
         IsIndented(t) => InEntry(text),
         \/ mode' = "MULTILINE" /\ t[Len(t)] # NL
         \/ mode' # "MULTILINE" /\ (mode' = "VALUE" <=> IsEntry(t) \/ IsIndented(t))
  PROVE  Inv'
<1>1. /\ t \in Line /\ rest' = <<>> /\ text' = Append(text, t) /\ status = "run"
      /\ text' \in Seq(Line) /\ text' # <<>> /\ text'[Len(text')] = t /\ text \in Seq(Line)
  BY ReadWhole DEF Inv
<1>2. Stray(text) = {} /\ status' = "run"
  BY <1>1 DEF Inv
<1>3. Stray(text') = {}
  BY <1>1, <1>2, StrayAppend
<1>4. InEntry(text') <=> IsEntry(t) \/ IsIndented(t)
  BY <1>1, InEntryAppend
<1> QED  BY <1>1, <1>2, <1>3, <1>4 DEF Inv

\* An indented line behind no entry ends the parse.
LEMMA LineRejected ==
  ASSUME WholeLines, Inv, NEW t \in Unread, ReadLine(t), status' = "INVALID",
         IsIndented(t), ~ InEntry(text)
  PROVE  Inv'
<1>1. /\ t \in Line /\ rest' = <<>> /\ text' = Append(text, t) /\ text' \in Seq(Line)
      /\ text \in Seq(Line)
  BY ReadWhole DEF Inv
<1>2. Stray(text') # {}
  BY <1>1, StrayAppend
<1> QED  BY <1>1, <1>2 DEF Inv

\* While lines are read the parser collects a value exactly behind an entry.
LEMMA ValueMode ==
  ASSUME WholeLines, Inv, NEW t \in Unread, ReadLine(t)
  PROVE  mode # "MULTILINE" /\ (mode = "VALUE" <=> InEntry(text))
<1>1. status = "run" /\ mode # "MULTILINE"
  BY ReadWhole
<1> QED  BY <1>1 DEF Inv

\* An empty line ends a value.
LEMMA BlankKeeps ==
  ASSUME WholeLines, Inv, NEW t \in Unread, BlankLine(t)
  PROVE  Inv'
<1>1. ReadLine(t) /\ status' = status /\ t[1] = NL
  BY DEF BlankLine
<1>2. ~ IsIndented(t) /\ ~ IsEntry(t)
  BY <1>1, Zenon DEF IsIndented, IsEntry, NL
<1>3. mode # "MULTILINE"
  BY <1>1, ValueMode
<1>4. mode' = "STARTLINE"
  BY <1>3, Zenon DEF BlankLine, StartLine
<1> QED  BY <1>1, <1>2, <1>4, LineKept

\* So does a header, closed or not.
LEMMA SectionKeeps ==
  ASSUME WholeLines, Inv, NEW t \in Unread, NEW under \in 0 .. 1, SectionLine(t, under)
  PROVE  Inv'
<1>1. ReadLine(t) /\ status' = status /\ t[1] = "["
  BY Zenon DEF SectionLine
<1>2. ~ IsIndented(t) /\ ~ IsEntry(t)
  BY <1>1, Zenon DEF IsIndented, IsEntry, NL
<1>3. mode' = "STARTLINE" \/ mode' = "SECTION"
  BY Zenon DEF SectionLine
<1> QED  BY <1>1, <1>2, <1>3, LineKept

\* A comment leaves the mode alone: without COMMENT_AFTER_VALUE it is none of a value.
LEMMA CommentKeeps ==
  ASSUME WholeLines, Inv, COMMENT_AFTER_VALUE = FALSE,
         NEW t \in Unread, NEW under \in 0 .. 1, CommentLine(t, under)
  PROVE  Inv'
<1>1. ReadLine(t) /\ status' = status /\ t[1] = "#" /\ mode' = mode /\ mode # "VALUE"
  BY Zenon DEF CommentLine
<1>2. ~ IsIndented(t) /\ ~ IsEntry(t)
  BY <1>1, Zenon DEF IsIndented, IsEntry, NL
<1>3. mode # "MULTILINE"
  BY <1>1, ValueMode
<1> QED  BY <1>1, <1>2, <1>3, LineKept

\* A line with an equals sign behind its first character begins a value.
LEMMA KeyKeeps ==
  ASSUME WholeLines, Inv, NEW t \in Unread, NEW under \in 0 .. 1, KeyLine(t, under)
  PROVE  Inv'
<1> DEFINE e == "="
           found == line'[First(Stops(line', {e, NUL}))] = e
<1>1. ReadLine(t) /\ status' = status /\ t[1] \notin {NL, " ", "[", "#"}
  BY Zenon DEF KeyLine
<1>2. FirstFrom(line', 1, LAMBDA c : c \in {e, NUL}) = First(Stops(line', {e, NUL}))
  BY DEF FirstFrom, First, Stops
<1>3. mode' = IF found THEN "VALUE" ELSE "KEY"
  BY <1>2, Zenon DEF KeyLine
<1>4. e # NUL
  BY DEF NUL
<1>5. found <=> Position(t, e) # {}
  <2> HIDE DEF e
  <2> QED  BY <1>1, <1>4, ReadWhole, CharacterFound
<1>6. ~ IsIndented(t) /\ (IsEntry(t) <=> found)
  BY <1>1, <1>5, Zenon DEF IsIndented, IsEntry
<1> HIDE DEF found
<1> QED  BY <1>1, <1>3, <1>6, LineKept

\* A continued line stays in the entry, or is the last of the file.
LEMMA ContinuedKeeps ==
  ASSUME WholeLines, Inv, NEW t \in Unread, NEW under \in 0 .. 1, ContinuedLine(t, under)
  PROVE  Inv'
<1> DEFINE sp == " "
           blank == line'[First(Solid(line', sp))] = NUL
<1>1. ReadLine(t) /\ status' = status /\ t[1] = sp /\ mode = "VALUE"
  BY Zenon DEF ContinuedLine
<1>2. FirstFrom(line', 1, LAMBDA c : ~ is_space(c)) = First(Solid(line', sp))
  BY DEF FirstFrom, First, Solid, is_space
<1>3. mode' = IF blank THEN "MULTILINE" ELSE "VALUE"
  BY <1>2, Zenon DEF ContinuedLine
<1>4. sp # NL
  BY DEF NL
<1>5. blank => t[Len(t)] # NL
  <2> HIDE DEF sp
  <2> QED  BY <1>1, <1>4, ReadWhole, BlanksToEnd
<1>6. IsIndented(t) /\ InEntry(text)
  BY <1>1, ValueMode DEF IsIndented
<1> HIDE DEF blank
<1> QED  BY <1>1, <1>3, <1>5, <1>6, LineKept

\* An indented line outside a value ends the parse.
LEMMA StrayKeeps ==
  ASSUME WholeLines, Inv, NEW t \in Unread, StrayIndent(t)
  PROVE  Inv'
<1>1. ReadLine(t) /\ status' = "INVALID" /\ IsIndented(t) /\ mode # "VALUE"
  BY DEF StrayIndent, IsIndented
<1>2. ~ InEntry(text)
  BY <1>1, ValueMode
<1> QED  BY <1>1, <1>2, LineRejected

\* At the end of the file the lines are judged already.
LEMMA EndKeeps ==
  ASSUME Inv, EndOfFile
  PROVE  Inv'
<1>1. status = "run" /\ status' = "OK" /\ rest' = rest /\ text' = text
  BY DEF EndOfFile
<1>2. Stray(text') = Stray(text)
  BY <1>1
<1> QED  BY <1>1, <1>2 DEF Inv

-----------------------------------------------------------------------------
\* No line is read.
LEMMA InitInv ==
  ASSUME Init
  PROVE  Inv
<1>1. text = <<>> /\ rest = <<>> /\ status = "run" /\ mode = "STARTLINE"
  BY DEF Init
<1>2. text \in Seq(Line) /\ Len(text) = 0
  BY <1>1, EmptySeq
<1>3. Stray(text) = {} /\ ~ InEntry(text)
  BY <1>2 DEF Stray, InEntry
<1> QED  BY <1>1, <1>2, <1>3 DEF Inv

\* One step for each kind of line.
LEMMA NextInv ==
  ASSUME WholeLines, COMMENT_AFTER_VALUE = FALSE, Inv, [Next]_vars
  PROVE  Inv'
<1>1. CASE UNCHANGED vars
  <2>1. /\ text' = text /\ rest' = rest /\ status' = status /\ mode' = mode
    BY <1>1 DEF vars
  <2>2. Stray(text') = Stray(text) /\ (InEntry(text') <=> InEntry(text))
    BY <2>1
  <2> QED  BY <2>1, <2>2 DEF Inv
<1>2. CASE EndOfFile
  BY <1>2, EndKeeps
<1>3. ASSUME NEW t \in Unread, BlankLine(t) \/ StrayIndent(t)
      PROVE  Inv'
  BY <1>3, BlankKeeps, StrayKeeps
<1>4. ASSUME NEW t \in Unread, NEW under \in 0 .. 1,
             SectionLine(t, under) \/ CommentLine(t, under)
               \/ KeyLine(t, under) \/ ContinuedLine(t, under)
      PROVE  Inv'
  BY <1>4, SectionKeeps, CommentKeeps, KeyKeeps, ContinuedKeeps
<1> QED  BY <1>1, <1>2, <1>3, <1>4 DEF Next

\* parse_line rejects a file exactly when an indented line continues no entry, for every
\* file whose lines fit the line buffer, hold no NUL and do not put a comment behind a
\* value: the state the parser carries from line to line never mistakes where a value is.
THEOREM AlwaysRejectsStrayIndent ==
  ASSUME WholeLines, COMMENT_AFTER_VALUE = FALSE
  PROVE  Spec => []RejectsStrayIndent
<1>1. Init => Inv
  BY InitInv
<1>2. Inv /\ [Next]_vars => Inv'
  BY NextInv
<1>3. Inv => RejectsStrayIndent
  BY DEF Inv, RejectsStrayIndent, Stray
<1> QED  BY <1>1, <1>2, <1>3, PTL DEF Spec

-----------------------------------------------------------------------------
\* Texts and the arrays that hold them: the string at the start of the array is v.
Txt == Seq(Char \cup {NL})

Written(buf, size, v) ==
  /\ DOMAIN buf = - size .. size - 1 /\ v \in Txt /\ Len(v) < size
  /\ \A k \in 1 .. Len(v) : buf[k - 1] = v[k] /\ v[k] # NUL
  /\ buf[Len(v)] = NUL

\* The cells of buf from s to e hold the text w.
Spans(buf, s, e, w) ==
  /\ s \in Nat /\ e \in Int /\ w \in Txt /\ e = s + Len(w) - 1
  /\ \A k \in 1 .. Len(w) : buf[s + (k - 1)] = w[k] /\ w[k] # NUL

Last(M) == CHOOSE x \in M : \A y \in M : x >= y

\* The lowest and the highest member of a set are what the scans return.
LEMMA FirstIs ==
  ASSUME NEW M \in SUBSET Int, NEW x \in M, \A y \in M : x <= y
  PROVE  First(M) = x
<1>1. First(M) \in M /\ \A y \in M : First(M) <= y
  BY DEF First
<1>2. First(M) \in Int /\ x \in Int /\ First(M) <= x /\ x <= First(M)
  BY <1>1
<1> QED  BY <1>2

LEMMA LastIs ==
  ASSUME NEW M \in SUBSET Int, NEW x \in M, \A y \in M : x >= y
  PROVE  Last(M) = x
<1>1. Last(M) \in M /\ \A y \in M : Last(M) >= y
  BY DEF Last
<1>2. Last(M) \in Int /\ x \in Int /\ Last(M) <= x /\ x <= Last(M)
  BY <1>1
<1> QED  BY <1>2

\* A text in an array is the string that StringAt finds.
LEMMA StringIs ==
  ASSUME NEW size \in Nat, NEW buf, NEW v, Written(buf, size, v), size <= VALUE_BUF_SIZE
  PROVE  StringAt(buf) = v
<1> DEFINE n == Len(v)
           ends == {k \in 0 .. VALUE_BUF_SIZE : k \notin DOMAIN buf \/ buf[k] = NUL}
<1>1. VALUE_BUF_SIZE \in Nat /\ n \in Nat /\ n < size /\ v \in Txt
  BY IniAssumption, LenProperties DEF Written, Txt
<1>2. n \in ends
  BY <1>1 DEF Written
<1>3. ASSUME NEW y \in ends PROVE n <= y
  <2>1. SUFFICES ASSUME y < n PROVE FALSE
    BY <1>1
  <2>2. y \in 0 .. n - 1 /\ y \in - size .. size - 1 /\ y + 1 \in 1 .. n /\ (y + 1) - 1 = y
    BY <1>1, <2>1
  <2>3. buf[y] = v[y + 1] /\ v[y + 1] # NUL /\ y \in DOMAIN buf
    BY <2>2 DEF Written
  <2> QED  BY <2>3
<1>4. First(ends) = n
  <2>1. ends \in SUBSET Int
    BY <1>1
  <2> HIDE DEF ends, n
  <2> QED  BY <1>2, <1>3, <2>1, FirstIs
<1>5. StringAt(buf) = [j \in 1 .. First(ends) |-> buf[j - 1]]
  BY DEF StringAt, First
<1>6. StringAt(buf) = [j \in 1 .. n |-> v[j]]
  BY <1>1, <1>4, <1>5 DEF Written
<1>7. v = [j \in 1 .. n |-> v[j]]
  BY <1>1 DEF Txt
<1> QED  BY <1>6, <1>7

\* copy_to_buf puts a text at the start of an array.
LEMMA CopyStart ==
  ASSUME NEW size \in Nat, NEW buf, NEW s, NEW e, NEW w, Spans(buf, s, e, w), NEW out,
         DOMAIN out = - size .. size - 1, Len(w) < size
  PROVE  LET copied == copy_to_buf(buf, s, e, out, 0)
         IN  Written(copied.out, size, w) /\ copied.loc = Len(w)
<1> DEFINE copied == copy_to_buf(buf, s, e, out, 0)
           n == Len(w)
<1>1. n \in Nat /\ s \in Nat /\ e = s + n - 1 /\ w \in Txt
  BY LenProperties DEF Spans, Txt
<1>2. 0 + (e - s) + 1 = n
  BY <1>1
<1>3. /\ copied.loc = n
      /\ copied.out = [k \in - size .. size - 1 |->
                         IF k = n THEN NUL
                         ELSE IF k \in 0 .. n - 1 THEN buf[s + (k - 0)] ELSE out[k]]
  BY <1>1, <1>2 DEF copy_to_buf
<1> HIDE DEF copied
<1>4. ASSUME NEW k \in 1 .. n PROVE copied.out[k - 1] = w[k] /\ w[k] # NUL
  <2>1. k - 1 \in - size .. size - 1 /\ k - 1 # n /\ k - 1 \in 0 .. n - 1 /\ (k - 1) - 0 = k - 1
    BY <1>1
  <2>2. copied.out[k - 1] = buf[s + (k - 1)]
    BY <1>3, <2>1
  <2> QED  BY <2>2 DEF Spans
<1>5. n \in - size .. size - 1
  BY <1>1
<1>6. copied.out[n] = NUL /\ DOMAIN copied.out = - size .. size - 1
  BY <1>3, <1>5
<1> QED  BY <1>1, <1>3, <1>4, <1>6 DEF Written, copied

\* And behind the text that is there, with a newline between.
LEMMA CopyJoins ==
  ASSUME NEW size \in Nat, NEW buf, NEW s, NEW e, NEW w, Spans(buf, s, e, w), NEW out,
         NEW v, Written(out, size, v), Len(Joined(v, w)) < size
  PROVE  LET copied == copy_to_buf(buf, s, e, out, Len(v))
         IN  Written(copied.out, size, Joined(v, w)) /\ copied.loc = Len(Joined(v, w))
<1> DEFINE copied == copy_to_buf(buf, s, e, out, Len(v))
           n == Len(w)
           m == Len(v)
           x == Joined(v, w)
<1>1. /\ n \in Nat /\ m \in Nat /\ s \in Nat /\ e = s + n - 1 /\ w \in Txt /\ v \in Txt
      /\ DOMAIN out = - size .. size - 1
  BY LenProperties DEF Spans, Written, Txt
<1>2. CASE m = 0
  <2>1. v = <<>> /\ x = w
    BY <1>1, <1>2, EmptySeq DEF Joined, Txt
  <2> QED  BY <1>1, <1>2, <2>1, CopyStart
<1>3. CASE m # 0
  <2>1. x = v \o <<NL>> \o w
    BY <1>1, <1>3 DEF Joined, Txt
  <2>2. /\ x \in Txt /\ Len(x) = m + 1 + n
        /\ \A k \in 1 .. m : x[k] = v[k]
        /\ x[m + 1] = NL
        /\ \A k \in 1 .. n : x[m + 1 + k] = w[k]
    <3> DEFINE C == Char \cup {NL}
               u == v \o <<NL>>
    <3>1. NL \in C /\ v \in Seq(C) /\ w \in Seq(C)
      BY <1>1 DEF Txt
    <3> HIDE DEF C
    <3>2. u \in Seq(C) /\ Len(u) = m + 1 /\ u[m + 1] = NL /\ \A k \in 1 .. m : u[k] = v[k]
      BY <3>1
    <3> HIDE DEF u
    <3>3. x = u \o w
      BY <2>1 DEF u
    <3>4. /\ x \in Seq(C) /\ Len(x) = m + 1 + n
          /\ \A k \in 1 .. m + 1 : x[k] = u[k]
          /\ \A k \in 1 .. n : x[m + 1 + k] = w[k]
      <4>1. /\ u \o w \in Seq(C) /\ Len(u \o w) = Len(u) + n
            /\ \A k \in 1 .. Len(u) : (u \o w)[k] = u[k]
            /\ \A k \in 1 .. n : (u \o w)[Len(u) + k] = w[k]
        BY <3>1, <3>2
      <4> QED  BY <3>2, <3>3, <4>1
    <3>5. m + 1 \in 1 .. m + 1 /\ \A k \in 1 .. m : k \in 1 .. m + 1
      BY <1>1
    <3> QED  BY <3>2, <3>4, <3>5 DEF Txt, C
  <2>3. m > 0 /\ (m + 1) + (e - s) + 1 = m + 1 + n
    BY <1>1, <1>3
  <2>4. /\ copied.loc = m + 1 + n
        /\ copied.out = [k \in - size .. size - 1 |->
                           IF k = m + 1 + n THEN NUL
                           ELSE IF k \in m + 1 .. m + 1 + n - 1 THEN buf[s + (k - (m + 1))]
                           ELSE IF m > 0 /\ k = m THEN NL ELSE out[k]]
    BY <1>1, <2>3, SMTT(30) DEF copy_to_buf
  <2> HIDE DEF copied, x
  <2>5. m + 1 + n < size
    BY <2>2 DEF x
  <2>6. ASSUME NEW k \in 1 .. Len(x) PROVE copied.out[k - 1] = x[k] /\ x[k] # NUL
    <3>1. k \in 1 .. m + 1 + n /\ k - 1 \in - size .. size - 1 /\ k - 1 # m + 1 + n
      BY <1>1, <2>2, <2>5
    <3>2. CASE k <= m
      <4>1. k \in 1 .. m /\ k - 1 \notin m + 1 .. m + 1 + n - 1 /\ k - 1 # m
        BY <1>1, <3>1, <3>2, SMTT(30)
      <4>2. copied.out[k - 1] = out[k - 1]
        BY <2>4, <3>1, <4>1
      <4> QED  BY <2>2, <4>1, <4>2 DEF Written
    <3>3. CASE k = m + 1
      <4>1. k - 1 = m /\ k - 1 \notin m + 1 .. m + 1 + n - 1
        BY <1>1, <3>3
      <4>2. copied.out[k - 1] = NL
        BY <2>3, <2>4, <3>1, <4>1
      <4> QED  BY <2>2, <3>3, <4>2 DEF NL, NUL
    <3>4. CASE k > m + 1
      <4> DEFINE i == k - (m + 1)
      <4>1. i \in 1 .. n /\ k = m + 1 + i /\ k - 1 \in m + 1 .. m + 1 + n - 1 /\ (k - 1) - (m + 1) = i - 1
        BY <1>1, <3>1, <3>4
      <4>2. copied.out[k - 1] = buf[s + ((k - 1) - (m + 1))]
        BY <2>4, <3>1, <4>1
      <4>3. copied.out[k - 1] = w[i] /\ w[i] # NUL
        BY <4>1, <4>2 DEF Spans
      <4>4. x[k] = w[i]
        BY <2>2, <4>1
      <4> QED  BY <4>3, <4>4
    <3> QED  BY <1>1, <3>1, <3>2, <3>3, <3>4, SMTT(30)
  <2>7. m + 1 + n \in - size .. size - 1
    BY <1>1, <2>5
  <2>8. copied.out[m + 1 + n] = NUL /\ DOMAIN copied.out = - size .. size - 1
    BY <2>4, <2>7
  <2> QED  BY <2>2, <2>4, <2>5, <2>6, <2>8 DEF Written, copied, x
<1> QED  BY <1>2, <1>3


-----------------------------------------------------------------------------
\* A set of numbers with an upper bound has a greatest one.
LEMMA Highest ==
  ASSUME NEW a \in Int, NEW z \in Int, NEW M \in SUBSET (a .. z), M # {}
  PROVE  \E x \in M : \A y \in M : x >= y
<1> DEFINE T == {n \in Nat : \E x \in M : n = z - x}
<1>1. T \in SUBSET Nat /\ T # {}
  <2>1. PICK x \in M : x \in a .. z
    OBVIOUS
  <2>2. z - x \in Nat
    BY <2>1
  <2>3. z - x \in T
    BY <2>2
  <2> QED  BY <2>3
<1>2. PICK n \in T : \A k \in T : n <= k
  <2> HIDE DEF T
  <2> QED  BY <1>1, Lowest
<1>3. PICK x \in M : n = z - x
  OBVIOUS
<1>4. \A y \in M : y \in Int /\ z - y \in T
  OBVIOUS
<1>5. \A y \in M : n <= z - y
  BY <1>2, <1>4
<1>6. \A y \in M : x >= y
  BY <1>3, <1>4, <1>5
<1> QED  BY <1>6

\* A bounded set of integers that has a member has a lowest one.
LEMMA LowestIn ==
  ASSUME NEW a \in Int, NEW z \in Int, NEW M \in SUBSET (a .. z), M # {}
  PROVE  \E x \in M : \A y \in M : x <= y
<1> DEFINE T == {n \in Nat : \E x \in M : n = x - a}
<1>1. T \in SUBSET Nat /\ T # {}
  <2>1. PICK x \in M : x \in a .. z
    OBVIOUS
  <2>2. x - a \in Nat
    BY <2>1
  <2>3. x - a \in T
    BY <2>2
  <2> QED  BY <2>3
<1>2. PICK n \in T : \A k \in T : n <= k
  <2> HIDE DEF T
  <2> QED  BY <1>1, Lowest
<1>3. PICK x \in M : n = x - a
  OBVIOUS
<1>4. \A y \in M : y \in Int /\ y - a \in T
  OBVIOUS
<1>5. \A y \in M : n <= y - a
  BY <1>2, <1>4
<1>6. \A y \in M : x <= y
  BY <1>3, <1>4, <1>5
<1> QED  BY <1>6

\* The characters from f to g are what is left of the ones from a to z without the blanks
\* around them.
Core(t, a, z, f, g) ==
  /\ f \in a .. z /\ g \in f .. z /\ ~ is_space(t[f]) /\ ~ is_space(t[g])
  /\ \A j \in a .. f - 1 : is_space(t[j])
  /\ \A j \in g + 1 .. z : is_space(t[j])

\* Characters that are not all blanks have a core.
LEMMA CoreExists ==
  ASSUME NEW C, NEW t \in Seq(C), NEW a \in Nat, NEW z \in Nat, NEW j \in a .. z, ~ is_space(t[j])
  PROVE  \E f, g : Core(t, a, z, f, g)
<1> DEFINE M == {k \in a .. z : ~ is_space(t[k])}
<1>1. M \in SUBSET (a .. z) /\ M # {} /\ a \in Int /\ z \in Int
  OBVIOUS
<1>2. PICK f \in M : \A y \in M : f <= y
  <2> HIDE DEF M
  <2> QED  BY <1>1, LowestIn
<1>3. PICK g \in M : \A y \in M : g >= y
  <2> HIDE DEF M
  <2> QED  BY <1>1, Highest
<1>4. f \in a .. z /\ g \in f .. z /\ ~ is_space(t[f]) /\ ~ is_space(t[g])
  BY <1>2, <1>3
<1>5. ASSUME NEW k \in a .. f - 1 PROVE is_space(t[k])
  <2>1. k \in a .. z /\ ~ (f <= k)
    BY <1>4
  <2> QED  BY <1>2, <2>1
<1>6. ASSUME NEW k \in g + 1 .. z PROVE is_space(t[k])
  <2>1. k \in a .. z /\ ~ (g >= k)
    BY <1>4
  <2> QED  BY <1>3, <2>1
<1> QED  BY <1>4, <1>5, <1>6 DEF Core

\* The part of a text from a to z.
LEMMA PartIs ==
  ASSUME NEW C, NEW t \in Seq(C), NEW a \in 1 .. Len(t) + 1, NEW z \in a - 1 .. Len(t)
  PROVE  /\ SubSeq(t, a, z) \in Seq(C) /\ Len(SubSeq(t, a, z)) = z - a + 1
         /\ \A j \in 1 .. z - a + 1 : SubSeq(t, a, z)[j] = t[a + j - 1]
<1>1. Len(t) \in Nat
  BY LenProperties
<1>2. CASE a <= z
  <2>1. a \in 1 .. Len(t) /\ z \in a .. Len(t)
    BY <1>1, <1>2
  <2> QED  BY <2>1, SubSeqProperties, SMTT(30)
<1>3. CASE ~ (a <= z)
  <2>1. z < a /\ z - a + 1 = 0 /\ a \in Int /\ z \in Int
    BY <1>1, <1>3
  <2>2. SubSeq(t, a, z) = <<>>
    BY <2>1, SubSeqEmpty
  <2>3. <<>> \in Seq(C) /\ Len(<<>>) = 0
    OBVIOUS
  <2> QED  BY <2>1, <2>2, <2>3
<1> QED  BY <1>2, <1>3

\* Trimmed leaves the core.
LEMMA TrimmedIs ==
  ASSUME NEW C, NEW t \in Seq(C), NEW a \in 1 .. Len(t), NEW z \in a .. Len(t),
         NEW f, NEW g, Core(t, a, z, f, g)
  PROVE  LET w == Trimmed(SubSeq(t, a, z))
         IN  w \in Seq(C) /\ Len(w) = g - f + 1 /\ \A i \in 1 .. g - f + 1 : w[i] = t[f + i - 1]
<1> DEFINE s == SubSeq(t, a, z)
           n == z - a + 1
           solid == {j \in 1 .. n : ~ is_space(s[j])}
           i == f - a + 1
           k == g - a + 1
<1>1. Len(t) \in Nat /\ a \in Nat /\ z \in Nat /\ f \in a .. z /\ g \in f .. z /\ n \in Nat
  BY LenProperties DEF Core
<1>2. s \in Seq(C) /\ Len(s) = n /\ \A j \in 1 .. n : s[j] = t[a + j - 1]
  BY <1>1, PartIs
<1> HIDE DEF s
<1>3. i \in 1 .. n /\ k \in i .. n /\ a + i - 1 = f /\ a + k - 1 = g /\ k \in 1 .. n
  BY <1>1
<1>4. i \in solid /\ k \in solid
  BY <1>2, <1>3 DEF Core
<1>5. ASSUME NEW y \in solid PROVE i <= y /\ k >= y
  <2>1. y \in 1 .. n /\ s[y] = t[a + y - 1] /\ ~ is_space(t[a + y - 1])
    BY <1>2
  <2>2. a + y - 1 \notin a .. f - 1
    BY <2>1 DEF Core
  <2>3. a + y - 1 \notin g + 1 .. z
    BY <2>1 DEF Core
  <2> QED  BY <1>1, <2>1, <2>2, <2>3
<1>6. solid \in SUBSET Int
  OBVIOUS
<1>7. First(solid) = i /\ Last(solid) = k
  <2> HIDE DEF solid, i, k
  <2> QED  BY <1>4, <1>5, <1>6, FirstIs, LastIs
<1>8. Trimmed(s) = SubSeq(s, First(solid), Last(solid))
  <2>1. solid # {}
    BY <1>4
  <2> QED  BY <1>2, <2>1 DEF Trimmed, First, Last
<1>9. Trimmed(s) = SubSeq(s, i, k)
  BY <1>7, <1>8
<1> HIDE DEF solid
<1>10. i \in 1 .. Len(s) + 1 /\ k \in i - 1 .. Len(s)
  BY <1>1, <1>2, <1>3
<1> DEFINE w == SubSeq(s, i, k)
<1>11. w \in Seq(C) /\ Len(w) = k - i + 1 /\ \A j \in 1 .. k - i + 1 : w[j] = s[i + j - 1]
  <2> HIDE DEF i, k
  <2> QED  BY <1>2, <1>10, PartIs, ZenonT(30)
<1>12. k - i + 1 = g - f + 1
  BY <1>1
<1> HIDE DEF w
<1>13. ASSUME NEW j \in 1 .. g - f + 1 PROVE w[j] = t[f + j - 1]
  <2>1. j \in 1 .. k - i + 1 /\ i + j - 1 \in 1 .. n /\ a + (i + j - 1) - 1 = f + j - 1
    BY <1>1, <1>3, <1>12
  <2> QED  BY <1>2, <1>11, <2>1
<1> QED  BY <1>9, <1>11, <1>12, <1>13 DEF s, w

\* A text that is not all blanks, and one that is empty.
LEMMA TrimmedSome ==
  ASSUME NEW C, NEW s \in Seq(C), Trimmed(s) # <<>>
  PROVE  \E j \in 1 .. Len(s) : ~ is_space(s[j])
BY DEF Trimmed

LEMMA TrimmedNone ==
  Trimmed(<<>>) = <<>>
<1>1. {j \in 1 .. Len(<<>>) : ~ is_space(<<>>[j])} = {}
  OBVIOUS
<1> QED  BY <1>1 DEF Trimmed

-----------------------------------------------------------------------------
\* The line buffer after a whole line.
LEMMA LineRead ==
  ASSUME WholeLines, NEW t \in Line, line' = fgets(t)
  PROVE  /\ t \in Seq(Char) /\ Len(t) \in Nat /\ 0 < Len(t) /\ Len(t) < LINE_BUF_SIZE
         /\ LINE_BUF_SIZE \in Nat
         /\ \A j \in 0 .. Len(t) : line'[j] = IF j < Len(t) THEN t[j + 1] ELSE NUL
         /\ \A j \in 1 .. Len(t) : t[j] # NUL /\ (t[j] = NL => j = Len(t))
<1> DEFINE n == Len(t)
<1>1. n \in Nat /\ n > 0 /\ n < LINE_BUF_SIZE /\ LINE_BUF_SIZE \in Nat
  <2>1. t \in Seq(Char) /\ t # <<>>
    BY IniAssumption DEF WholeLines
  <2> QED  BY <2>1, LenProperties, EmptySeq, IniAssumption DEF WholeLines
<1>2. \A j \in 0 .. n : line'[j] = IF j < n THEN t[j + 1] ELSE NUL
  BY <1>1 DEF fgets
<1> QED  BY <1>1, <1>2, IniAssumption DEF WholeLines

\* The first loop of trim_start_end stops at the first character that is no blank.
LEMMA StartIs ==
  ASSUME WholeLines, NEW t \in Line, line' = fgets(t),
         NEW a \in 1 .. Len(t) + 1, NEW f \in a .. Len(t) + 1,
         f <= Len(t) => ~ is_space(t[f]), \A j \in a .. f - 1 : is_space(t[j])
  PROVE  trimmed_start(line', a - 1) = f - 1
<1> DEFINE n == Len(t)
           found == {k \in a - 1 .. LINE_BUF_SIZE - 1 : ~ is_space(line'[k])} \cup {LINE_BUF_SIZE}
<1>1. /\ n \in Nat /\ n < LINE_BUF_SIZE /\ LINE_BUF_SIZE \in Nat /\ a \in Nat /\ f \in Nat
      /\ \A j \in 0 .. n : line'[j] = IF j < n THEN t[j + 1] ELSE NUL
  BY LineRead
<1> HIDE DEF n
<1>2. f - 1 \in found
  <2>1. f - 1 \in a - 1 .. LINE_BUF_SIZE - 1 /\ f - 1 \in 0 .. n /\ (f - 1) + 1 = f
    BY <1>1 DEF n
  <2>2. ~ is_space(line'[f - 1])
    <3>1. CASE f - 1 < n
      <4>1. f <= n /\ line'[f - 1] = t[f]
        BY <1>1, <2>1, <3>1
      <4> QED  BY <4>1 DEF n
    <3>2. CASE ~ (f - 1 < n)
      BY <1>1, <2>1, <3>2 DEF is_space, NUL
    <3> QED  BY <3>1, <3>2
  <2> QED  BY <2>1, <2>2
<1>3. ASSUME NEW y \in found PROVE f - 1 <= y
  <2>1. SUFFICES ASSUME y < f - 1 PROVE FALSE
    BY <1>1
  <2>2. y \in a - 1 .. LINE_BUF_SIZE - 1 /\ ~ is_space(line'[y])
    BY <1>1, <2>1 DEF n
  <2>3. y + 1 \in a .. f - 1 /\ y \in 0 .. n /\ y < n
    BY <1>1, <2>1, <2>2 DEF n
  <2>4. line'[y] = t[y + 1] /\ is_space(t[y + 1])
    BY <1>1, <2>3
  <2> QED  BY <2>2, <2>4
<1>4. found \in SUBSET Int /\ f - 1 \in Int
  BY <1>1
<1>5. First(found) = f - 1
  <2> HIDE DEF found
  <2> QED  BY <1>2, <1>3, <1>4, FirstIs
<1> QED  BY <1>5 DEF trimmed_start, FirstFrom, First

\* The second stops at the last one that is neither a blank nor the newline.
LEMMA EndIs ==
  ASSUME WholeLines, NEW t \in Line, line' = fgets(t), NEW under,
         NEW z \in 1 .. Len(t), NEW g \in 1 .. z, ~ is_space(t[g]), t[g] # NL,
         \A j \in g + 1 .. z : is_space(t[j]) \/ t[j] = NL
  PROVE  trimmed_end(line', z - 1, under) = g - 1
<1> DEFINE n == Len(t)
           found == {k \in 0 .. z - 1 : ~ is_space(line'[k]) /\ line'[k] # NL} \cup {-1}
<1>1. /\ n \in Nat /\ z \in Nat /\ g \in Nat /\ z <= n
      /\ \A j \in 0 .. n : line'[j] = IF j < n THEN t[j + 1] ELSE NUL
  BY LineRead
<1> HIDE DEF n
<1>2. ASSUME NEW k \in 0 .. z - 1 PROVE line'[k] = t[k + 1] /\ k + 1 \in 1 .. z
  <2>1. k \in 0 .. n /\ k < n
    BY <1>1
  <2> QED  BY <1>1, <2>1
<1>3. g - 1 \in found
  <2>1. g - 1 \in 0 .. z - 1 /\ (g - 1) + 1 = g
    BY <1>1
  <2> QED  BY <1>2, <2>1
<1>4. ASSUME NEW y \in found PROVE g - 1 >= y
  <2>1. SUFFICES ASSUME y > g - 1 PROVE FALSE
    BY <1>1
  <2>2. y \in 0 .. z - 1 /\ ~ is_space(line'[y]) /\ line'[y] # NL
    BY <1>1, <2>1
  <2>3. y + 1 \in g + 1 .. z
    BY <1>1, <2>1, <2>2
  <2> QED  BY <1>2, <2>2, <2>3
<1>5. found \in SUBSET Int /\ g - 1 \in Int /\ g - 1 # -1
  BY <1>1
<1>6. Last(found) = g - 1
  <2> HIDE DEF found
  <2> QED  BY <1>3, <1>4, <1>5, LastIs
<1>7. LastUpTo(line', z - 1, LAMBDA c : ~ is_space(c) /\ c # NL) = g - 1
  BY <1>6 DEF LastUpTo, Last
<1> QED  BY <1>5, <1>7 DEF trimmed_end

\* copy_trimmed_to_buf copies what Trimmed leaves of the characters from a to z, when they
\* are not all blanks; the newline behind them is not part of it.
LEMMA TrimsSome ==
  ASSUME WholeLines, NEW t \in Line, line' = fgets(t), NEW under,
         NEW a \in 1 .. Len(t), NEW z \in a .. Len(t), NEW y \in z .. Len(t),
         \A j \in a .. z : t[j] # NL, \A j \in z + 1 .. y : t[j] = NL,
         Trimmed(SubSeq(t, a, z)) # <<>>
  PROVE  Spans(line', trimmed_start(line', a - 1), trimmed_end(line', y - 1, under),
               Trimmed(SubSeq(t, a, z)))
<1> DEFINE n == Len(t)
           w == Trimmed(SubSeq(t, a, z))
<1>1. /\ t \in Seq(Char) /\ n \in Nat /\ a \in Nat /\ z \in Nat /\ y \in Nat
      /\ \A j \in 0 .. n : line'[j] = IF j < n THEN t[j + 1] ELSE NUL
      /\ \A j \in 1 .. n : t[j] # NUL
  BY LineRead, SMTT(30)
<1>2. PICK f, g : Core(t, a, z, f, g)
  <2>1. a \in 1 .. n + 1 /\ z \in a - 1 .. n
    BY <1>1
  <2>2. /\ SubSeq(t, a, z) \in Seq(Char) /\ Len(SubSeq(t, a, z)) = z - a + 1
        /\ \A j \in 1 .. z - a + 1 : SubSeq(t, a, z)[j] = t[a + j - 1]
    BY <1>1, <2>1, PartIs
  <2>3. PICK j \in 1 .. z - a + 1 : ~ is_space(SubSeq(t, a, z)[j])
    BY <2>2, TrimmedSome
  <2>4. a + j - 1 \in a .. z /\ ~ is_space(t[a + j - 1])
    BY <1>1, <2>2, <2>3
  <2> QED  BY <1>1, <2>4, CoreExists
<1>3. f \in a .. z /\ g \in f .. z /\ f \in Nat /\ g \in Nat /\ f \in 1 .. n /\ g \in 1 .. n
  BY <1>1, <1>2 DEF Core
<1>4. w \in Seq(Char) /\ Len(w) = g - f + 1 /\ \A i \in 1 .. g - f + 1 : w[i] = t[f + i - 1]
  BY <1>1, <1>2, TrimmedIs
<1>5. trimmed_start(line', a - 1) = f - 1
  <2>1. a \in 1 .. n + 1 /\ f \in a .. n + 1
    BY <1>1, <1>3
  <2> QED  BY <1>2, <2>1, StartIs DEF Core
<1>6. trimmed_end(line', y - 1, under) = g - 1
  <2>1. y \in 1 .. n /\ g \in 1 .. y
    BY <1>1, <1>3
  <2>2. ~ is_space(t[g]) /\ t[g] # NL
    BY <1>2, <1>3 DEF Core
  <2>3. ASSUME NEW j \in g + 1 .. y PROVE is_space(t[j]) \/ t[j] = NL
    <3>1. j \in g + 1 .. z \/ j \in z + 1 .. y
      BY <1>1, <1>3
    <3> QED  BY <1>2, <3>1 DEF Core
  <2> QED  BY <2>1, <2>2, <2>3, EndIs
<1> HIDE DEF w
<1>7. w \in Txt
  <2>1. Seq(Char) \subseteq Seq(Char \cup {NL})
    OBVIOUS
  <2> QED  BY <1>4, <2>1 DEF Txt
<1>8. f - 1 \in Nat /\ g - 1 \in Int /\ g - 1 = (f - 1) + Len(w) - 1
  BY <1>3, <1>4
<1>9. ASSUME NEW i \in 1 .. Len(w) PROVE line'[(f - 1) + (i - 1)] = w[i] /\ w[i] # NUL
  <2>1. /\ i \in 1 .. g - f + 1 /\ (f - 1) + (i - 1) \in 0 .. n /\ (f - 1) + (i - 1) < n
        /\ ((f - 1) + (i - 1)) + 1 = f + i - 1 /\ f + i - 1 \in 1 .. n
    BY <1>1, <1>3, <1>4
  <2>2. line'[(f - 1) + (i - 1)] = t[f + i - 1] /\ w[i] = t[f + i - 1]
    BY <1>1, <1>4, <2>1
  <2> QED  BY <1>1, <2>1, <2>2
<1> QED  BY <1>5, <1>6, <1>7, <1>8, <1>9 DEF Spans, w

\* It copies nothing when there is nothing between the character before a and the newline or
\* the end of the part.
LEMMA TrimsNone ==
  ASSUME WholeLines, NEW t \in Line, line' = fgets(t), NEW under,
         NEW a \in 2 .. Len(t) + 1, NEW y \in a - 1 .. Len(t),
         ~ is_space(t[a - 1]), t[a - 1] # NL, a <= Len(t) => ~ is_space(t[a]),
         \A j \in a .. y : t[j] = NL
  PROVE  Spans(line', trimmed_start(line', a - 1), trimmed_end(line', y - 1, under), <<>>)
<1>1. Len(t) \in Nat /\ a \in Nat /\ y \in Nat
  BY LineRead
<1>2. trimmed_start(line', a - 1) = a - 1
  <2>1. a \in 1 .. Len(t) + 1 /\ a \in a .. Len(t) + 1 /\ a .. a - 1 = {}
    BY <1>1
  <2> QED  BY <2>1, StartIs
<1>3. trimmed_end(line', y - 1, under) = a - 2
  <2> DEFINE g == a - 1
  <2>1. y \in 1 .. Len(t) /\ g \in 1 .. y /\ g + 1 = a /\ g - 1 = a - 2
    BY <1>1
  <2>2. ~ is_space(t[g]) /\ t[g] # NL
    OBVIOUS
  <2> HIDE DEF g
  <2>3. \A j \in g + 1 .. y : is_space(t[j]) \/ t[j] = NL
    BY <2>1
  <2> QED  BY <2>1, <2>2, <2>3, EndIs
<1>4. <<>> \in Txt /\ Len(<<>>) = 0
  BY DEF Txt
<1>5. a - 1 \in Nat /\ a - 2 \in Int /\ a - 2 = (a - 1) + 0 - 1
  BY <1>1
<1> QED  BY <1>2, <1>3, <1>4, <1>5 DEF Spans

-----------------------------------------------------------------------------
\* The files that are read as they are meant: no name, value or indented line is blanks only,
\* and every text fits its buffer.
TidyLines ==
  /\ WholeLines /\ COMMENT_AFTER_VALUE = FALSE
  /\ KEY_BUF_SIZE <= VALUE_BUF_SIZE
  /\ \A l \in Line :
       /\ IsSection(l) =>
            Len(NameIn(l)) < KEY_BUF_SIZE /\ (NameIn(l) # <<>> \/ 2 \in Position(l, "]"))
       /\ IsEntry(l) =>
            Len(KeyIn(l)) < KEY_BUF_SIZE
              /\ (FirstPart(l) # <<>> \/ Len(Body(l)) \in Position(l, "="))
       /\ IsIndented(l) => Trimmed(Body(l)) # <<>>
  /\ \A n \in 1 .. MAX_LINES : \A lines \in [1 .. n -> Line] : \A p \in 1 .. n :
       IsEntry(lines[p]) => Len(ValueOf(lines, p)) < VALUE_BUF_SIZE

\* Where the scan for a character stops is where the character is.
LEMMA FoundAt ==
  ASSUME WholeLines, NEW t \in Line, line' = fgets(t), NEW e, e # NUL, Position(t, e) # {}
  PROVE  LET k == First(Stops(line', {e, NUL}))
         IN  /\ k \in 1 .. Len(t) - 1 /\ t[k + 1] = e
             /\ \A j \in Position(t, e) : j = k + 1
             /\ (CHOOSE j \in Position(t, e) : TRUE) = k + 1
<1> DEFINE k == First(Stops(line', {e, NUL}))
<1>1. NUL \in {e, NUL}
  OBVIOUS
<1>2. k \in 1 .. Len(t) /\ line'[k] = (IF k < Len(t) THEN t[k + 1] ELSE NUL)
      /\ \A j \in 1 .. k - 1 : t[j + 1] \notin {e, NUL}
  BY <1>1, ScanStops
<1>3. line'[k] = e
  BY CharacterFound
<1>4. Len(t) \in Nat
  BY LineRead
<1> HIDE DEF k
<1>5. k \in 1 .. Len(t) - 1 /\ t[k + 1] = e
  BY <1>2, <1>3, <1>4
<1>6. ASSUME NEW j \in Position(t, e) PROVE j = k + 1
  <2>1. j \in 2 .. Len(t) /\ t[j] = e /\ \A i \in 2 .. j - 1 : t[i] # e
    BY DEF Position
  <2>2. ~ (j < k + 1)
    <3> SUFFICES ASSUME j < k + 1 PROVE FALSE
      OBVIOUS
    <3>1. j - 1 \in 1 .. k - 1 /\ (j - 1) + 1 = j
      BY <1>4, <1>5, <2>1
    <3> QED  BY <1>2, <2>1, <3>1
  <2>3. ~ (k + 1 < j)
    <3> SUFFICES ASSUME k + 1 < j PROVE FALSE
      OBVIOUS
    <3>1. k + 1 \in 2 .. j - 1
      BY <1>4, <1>5, <2>1
    <3> QED  BY <1>5, <2>1, <3>1
  <2> QED  BY <1>4, <1>5, <2>1, <2>2, <2>3
<1>7. (CHOOSE j \in Position(t, e) : TRUE) \in Position(t, e)
  OBVIOUS
<1> QED  BY <1>5, <1>6, <1>7 DEF k

\* A header gives its name.
LEMMA NameCopied ==
  ASSUME TidyLines, NEW t \in Line, line' = fgets(t), NEW under, IsSection(t)
  PROVE  LET close == First(Stops(line', {"]", NUL}))
         IN  /\ line'[close] = "]"
             /\ Spans(line', trimmed_start(line', 1), trimmed_end(line', close - 1, under), NameIn(t))
<1> DEFINE e == "]"
           k == First(Stops(line', {e, NUL}))
<1>1. WholeLines /\ t[1] = "[" /\ Position(t, e) # {} /\ e # NUL
  BY DEF TidyLines, IsSection, NUL
<1>2. ~ is_space(t[1]) /\ t[1] # NL /\ ~ is_space(e)
  BY <1>1 DEF is_space, NL
<1>3. NameIn(t) # <<>> \/ 2 \in Position(t, e)
  BY DEF TidyLines
<1>4. NameIn(t) = Trimmed(SubSeq(t, 2, (CHOOSE j \in Position(t, e) : TRUE) - 1))
  BY DEF NameIn
<1> HIDE DEF e
<1>5. /\ k \in 1 .. Len(t) - 1 /\ t[k + 1] = e /\ \A j \in Position(t, e) : j = k + 1
      /\ (CHOOSE j \in Position(t, e) : TRUE) = k + 1
  BY <1>1, FoundAt
<1>6. line'[k] = e
  BY <1>1, CharacterFound
<1>7. /\ Len(t) \in Nat /\ t \in Seq(Char)
      /\ \A j \in 1 .. Len(t) : t[j] # NUL /\ (t[j] = NL => j = Len(t))
  BY <1>1, LineRead
<1> HIDE DEF k
<1>8. NameIn(t) = Trimmed(SubSeq(t, 2, k))
  <2>1. (k + 1) - 1 = k
    BY <1>5, <1>7
  <2> QED  BY <1>4, <1>5, <2>1
<1>9. CASE NameIn(t) # <<>>
  <2>1. k >= 2
    <3> SUFFICES ASSUME k < 2 PROVE FALSE
      BY <1>5, <1>7
    <3>1. k = 1
      BY <1>5, <1>7
    <3>2. SubSeq(t, 2, 1) = <<>>
      BY <1>7, SubSeqEmpty
    <3> QED  BY <1>8, <1>9, <3>1, <3>2, TrimmedNone
  <2> DEFINE a == 2
  <2>2. a \in 1 .. Len(t) /\ k \in a .. Len(t) /\ k \in k .. Len(t) /\ k + 1 .. k = {} /\ a - 1 = 1
    BY <1>5, <1>7, <2>1
  <2>3. \A j \in a .. k : t[j] # NL
    <3>1. \A j \in a .. k : j \in 1 .. Len(t) /\ j # Len(t)
      BY <1>5, <1>7
    <3> QED  BY <1>7, <3>1
  <2>4. Trimmed(SubSeq(t, a, k)) # <<>>
    BY <1>8, <1>9
  <2>5. Spans(line', trimmed_start(line', a - 1), trimmed_end(line', k - 1, under),
              Trimmed(SubSeq(t, a, k)))
    <3> HIDE DEF a
    <3> QED  BY <1>1, <2>2, <2>3, <2>4, TrimsSome
  <2> QED  BY <1>6, <1>8, <2>2, <2>5 DEF e, k
<1>10. CASE NameIn(t) = <<>>
  <2>1. k = 1
    BY <1>3, <1>5, <1>7, <1>10
  <2> DEFINE a == 2
             y == 1
  <2>2. a \in 2 .. Len(t) + 1 /\ y \in a - 1 .. Len(t) /\ a .. y = {} /\ a - 1 = 1
    BY <1>5, <1>7, <2>1
  <2>3. ~ is_space(t[a - 1]) /\ t[a - 1] # NL /\ ~ is_space(t[a])
    BY <1>2, <1>5, <2>1
  <2>4. Spans(line', trimmed_start(line', a - 1), trimmed_end(line', y - 1, under), <<>>)
    <3> HIDE DEF a, y
    <3> QED  BY <1>1, <2>2, <2>3, TrimsNone
  <2> QED  BY <1>6, <1>10, <2>1, <2>2, <2>4 DEF e, k
<1> QED  BY <1>9, <1>10

\* An entry gives its key.
LEMMA KeyCopied ==
  ASSUME WholeLines, NEW t \in Line, line' = fgets(t), NEW under, IsEntry(t)
  PROVE  LET equals == First(Stops(line', {"=", NUL}))
         IN  Spans(line', trimmed_start(line', 0), trimmed_end(line', equals - 1, under), KeyIn(t))
<1> DEFINE e == "="
           k == First(Stops(line', {e, NUL}))
<1>1. t[1] \notin {NL, " ", "[", "#"} /\ Position(t, e) # {} /\ e # NUL
  BY DEF IsEntry, NUL
<1>2. ~ is_space(t[1])
  BY <1>1 DEF is_space
<1>3. KeyIn(t) = Trimmed(SubSeq(t, 1, (CHOOSE j \in Position(t, e) : TRUE) - 1))
  BY DEF KeyIn
<1> HIDE DEF e
<1>4. k \in 1 .. Len(t) - 1 /\ (CHOOSE j \in Position(t, e) : TRUE) = k + 1
  BY <1>1, FoundAt
<1>5. /\ Len(t) \in Nat /\ t \in Seq(Char)
      /\ \A j \in 1 .. Len(t) : t[j] # NUL /\ (t[j] = NL => j = Len(t))
  BY LineRead
<1> HIDE DEF k
<1>6. KeyIn(t) = Trimmed(SubSeq(t, 1, k))
  <2>1. (k + 1) - 1 = k
    BY <1>4, <1>5
  <2> QED  BY <1>3, <1>4, <2>1
<1> DEFINE a == 1
<1>7. a \in 1 .. Len(t) /\ k \in a .. Len(t) /\ k \in k .. Len(t) /\ k + 1 .. k = {} /\ a - 1 = 0
  BY <1>4, <1>5
<1>8. \A j \in a .. k : t[j] # NL
  <2>1. \A j \in a .. k : j \in 1 .. Len(t) /\ j # Len(t)
    BY <1>4, <1>5
  <2> QED  BY <1>5, <2>1
<1>9. Trimmed(SubSeq(t, a, k)) # <<>>
  <2>1. a \in a .. k /\ a \in Nat /\ k \in Nat /\ ~ is_space(t[a])
    BY <1>2, <1>4, <1>5
  <2> HIDE DEF a
  <2>2. PICK f, g : Core(t, a, k, f, g)
    BY <1>5, <2>1, CoreExists
  <2>3. Len(Trimmed(SubSeq(t, a, k))) = g - f + 1
    BY <1>5, <1>7, <2>2, TrimmedIs
  <2>4. g - f + 1 # 0
    BY <2>1, <2>2 DEF Core
  <2>5. Len(<<>>) = 0
    OBVIOUS
  <2> QED  BY <2>3, <2>4, <2>5
<1>10. Spans(line', trimmed_start(line', a - 1), trimmed_end(line', k - 1, under),
             Trimmed(SubSeq(t, a, k)))
  <2> HIDE DEF a
  <2> QED  BY <1>7, <1>8, <1>9, TrimsSome
<1> QED  BY <1>6, <1>7, <1>10 DEF e, k

\* The body of a line is the line up to its newline.
LEMMA BodyIs ==
  ASSUME WholeLines, NEW t \in Line
  PROVE  LET m == Len(Body(t))
         IN  /\ m \in Nat /\ m <= Len(t) /\ m >= Len(t) - 1
             /\ Body(t) = SubSeq(t, 1, m)
             /\ \A j \in 1 .. m : t[j] # NL
             /\ \A j \in m + 1 .. Len(t) : t[j] = NL
             /\ \A a \in 1 .. m + 1 : SubSeq(Body(t), a, m) = SubSeq(t, a, m)
<1> DEFINE n == Len(t)
           m == IF t[n] = NL THEN n - 1 ELSE n
<1>1. /\ n \in Nat /\ n > 0 /\ t \in Seq(Char)
      /\ \A j \in 1 .. n : t[j] = NL => j = n
  <2>1. t \in Seq(Char) /\ t # <<>>
    BY IniAssumption DEF WholeLines
  <2> QED  BY <2>1, LenProperties, EmptySeq, IniAssumption
<1> HIDE DEF n
<1>2. m \in Nat /\ m <= n /\ m >= n - 1 /\ m \in 1 - 1 .. n /\ 1 \in 1 .. n + 1
  BY <1>1
<1>3. Body(t) = SubSeq(t, 1, m)
  <2>1. CASE t[n] = NL
    BY <2>1 DEF Body, n
  <2>2. CASE t[n] # NL
    <3>1. SubSeq(t, 1, n) = t
      BY <1>1, SubSeqFull DEF n
    <3> QED  BY <2>2, <3>1 DEF Body, n
  <2> QED  BY <2>1, <2>2
<1>4. \A j \in 1 .. m : t[j] # NL
  <2>1. ASSUME NEW j \in 1 .. m PROVE t[j] # NL
    <3>1. j \in 1 .. n /\ (t[n] = NL => j # n)
      BY <1>1
    <3> QED  BY <1>1, <3>1
  <2> QED  BY <2>1
<1>5. \A j \in m + 1 .. n : t[j] = NL
  <2>1. ASSUME NEW j \in m + 1 .. n PROVE t[j] = NL
    <3>1. j = n /\ t[n] = NL
      BY <1>1
    <3> QED  BY <3>1
  <2> QED  BY <2>1
<1> HIDE DEF m
<1> DEFINE b == SubSeq(t, 1, m)
<1>6. /\ b \in Seq(Char) /\ Len(b) = m - 1 + 1
      /\ \A j \in 1 .. m - 1 + 1 : b[j] = t[1 + j - 1]
  BY <1>1, <1>2, PartIs DEF n
<1>7. Len(b) = m /\ \A j \in 1 .. m : b[j] = t[j]
  <2>1. m - 1 + 1 = m /\ \A j \in 1 .. m : 1 + j - 1 = j
    BY <1>2
  <2> QED  BY <1>6, <2>1
<1> HIDE DEF b
<1>8. ASSUME NEW a \in 1 .. m + 1 PROVE SubSeq(b, a, m) = SubSeq(t, a, m)
  <2> DEFINE x == SubSeq(b, a, m)
             y == SubSeq(t, a, m)
  <2>1. a \in 1 .. Len(b) + 1 /\ m \in a - 1 .. Len(b) /\ a \in 1 .. n + 1 /\ m \in a - 1 .. n
    BY <1>1, <1>2, <1>7
  <2>2. x \in Seq(Char) /\ Len(x) = m - a + 1 /\ \A j \in 1 .. m - a + 1 : x[j] = b[a + j - 1]
    BY <1>6, <2>1, PartIs
  <2>3. y \in Seq(Char) /\ Len(y) = m - a + 1 /\ \A j \in 1 .. m - a + 1 : y[j] = t[a + j - 1]
    BY <1>1, <2>1, PartIs DEF n
  <2> HIDE DEF x, y
  <2>4. ASSUME NEW j \in 1 .. m - a + 1 PROVE x[j] = y[j]
    <3>1. a + j - 1 \in 1 .. m
      BY <1>2
    <3> QED  BY <1>7, <2>2, <2>3, <3>1
  <2>5. x = y
    BY <2>2, <2>3, <2>4, SeqEqual
  <2> QED  BY <2>5 DEF x, y
<1>9. Body(t) = b /\ Len(Body(t)) = m
  BY <1>3, <1>7 DEF b
<1> QED  BY <1>2, <1>3, <1>4, <1>5, <1>8, <1>9 DEF n

\* An entry gives the part of its value that is on its own line.
LEMMA FirstPartCopied ==
  ASSUME TidyLines, NEW t \in Line, line' = fgets(t), NEW under, IsEntry(t)
  PROVE  LET equals == First(Stops(line', {"=", NUL}))
         IN  /\ line'[equals] = "=" /\ equals \in 1 .. Len(t) - 1
             /\ Spans(line', trimmed_start(line', equals + 1),
                      trimmed_end(line', Len(t) - 1, under), FirstPart(t))
<1> DEFINE e == "="
           k == First(Stops(line', {e, NUL}))
           m == Len(Body(t))
<1>1. WholeLines /\ Position(t, e) # {} /\ e # NUL
  BY DEF TidyLines, IsEntry, NUL
<1>2. ~ is_space(e) /\ e # NL
  BY DEF is_space, NL
<1>3. FirstPart(t) # <<>> \/ m \in Position(t, e)
  BY DEF TidyLines
<1>4. FirstPart(t) = Trimmed(SubSeq(Body(t), (CHOOSE j \in Position(t, e) : TRUE) + 1, m))
  BY DEF FirstPart
<1> HIDE DEF e
<1>5. /\ k \in 1 .. Len(t) - 1 /\ t[k + 1] = e /\ \A j \in Position(t, e) : j = k + 1
      /\ (CHOOSE j \in Position(t, e) : TRUE) = k + 1
  BY <1>1, FoundAt
<1>6. line'[k] = e
  BY <1>1, CharacterFound
<1>7. Len(t) \in Nat /\ t \in Seq(Char)
  BY <1>1, LineRead
<1>8. /\ m \in Nat /\ m <= Len(t) /\ m >= Len(t) - 1
      /\ \A j \in 1 .. m : t[j] # NL
      /\ \A j \in m + 1 .. Len(t) : t[j] = NL
      /\ \A a \in 1 .. m + 1 : SubSeq(Body(t), a, m) = SubSeq(t, a, m)
  BY <1>1, BodyIs
<1> HIDE DEF k, m
<1>9. k + 1 <= m
  <2> SUFFICES ASSUME m < k + 1 PROVE FALSE
    BY <1>5, <1>7, <1>8
  <2>1. k + 1 \in m + 1 .. Len(t)
    BY <1>5, <1>7, <1>8
  <2> QED  BY <1>2, <1>5, <1>8, <2>1
<1> DEFINE a == k + 2
<1>10. a = (k + 1) + 1 /\ a \in 1 .. m + 1 /\ a - 1 = k + 1 /\ a \in Nat
  BY <1>5, <1>7, <1>8, <1>9
<1>11. FirstPart(t) = Trimmed(SubSeq(t, a, m))
  <2> HIDE DEF a
  <2> QED  BY <1>4, <1>5, <1>8, <1>10
<1> HIDE DEF a
<1>12. CASE FirstPart(t) # <<>>
  <2>1. a <= m
    <3> SUFFICES ASSUME m < a PROVE FALSE
      BY <1>8, <1>10
    <3>1. SubSeq(t, a, m) = <<>>
      BY <1>7, <1>8, <1>10, SubSeqEmpty
    <3> QED  BY <1>11, <1>12, <3>1, TrimmedNone
  <2> DEFINE y == Len(t)
  <2>2. a \in 1 .. Len(t) /\ m \in a .. Len(t) /\ y \in m .. Len(t)
    BY <1>7, <1>8, <1>10, <2>1
  <2>3. (\A j \in a .. m : t[j] # NL) /\ \A j \in m + 1 .. y : t[j] = NL
    <3>1. \A j \in a .. m : j \in 1 .. m
      BY <1>8, <1>10
    <3> QED  BY <1>8, <3>1
  <2>4. Spans(line', trimmed_start(line', a - 1), trimmed_end(line', y - 1, under),
              Trimmed(SubSeq(t, a, m)))
    <3> HIDE DEF y
    <3> QED  BY <1>1, <1>11, <1>12, <2>2, <2>3, TrimsSome
  <2> QED  BY <1>5, <1>6, <1>10, <1>11, <2>4 DEF e, k
<1>13. CASE FirstPart(t) = <<>>
  <2>1. m = k + 1
    BY <1>3, <1>5, <1>13
  <2> DEFINE y == Len(t)
  <2>2. a \in 2 .. Len(t) + 1 /\ y \in a - 1 .. Len(t) /\ a = m + 1
    BY <1>5, <1>7, <1>8, <1>10, <2>1
  <2>3. ~ is_space(t[a - 1]) /\ t[a - 1] # NL
    BY <1>2, <1>5, <1>10
  <2>4. \A j \in a .. y : t[j] = NL
    BY <1>8, <2>2
  <2>5. a <= Len(t) => ~ is_space(t[a])
    <3> SUFFICES ASSUME a <= Len(t) PROVE ~ is_space(t[a])
      OBVIOUS
    <3>1. a \in a .. y
      BY <1>7, <1>10
    <3> QED  BY <2>4, <3>1 DEF is_space, NL
  <2>6. Spans(line', trimmed_start(line', a - 1), trimmed_end(line', y - 1, under), <<>>)
    <3> HIDE DEF y
    <3> QED  BY <1>1, <2>2, <2>3, <2>4, <2>5, TrimsNone
  <2> QED  BY <1>5, <1>6, <1>10, <1>13, <2>6 DEF e, k
<1> QED  BY <1>12, <1>13

\* An indented line gives its text, from wherever its last blank in front was found.
LEMMA PartCopied ==
  ASSUME TidyLines, NEW t \in Line, line' = fgets(t), NEW under, IsIndented(t)
  PROVE  LET first == First(Solid(line', " "))
             start == IF first > 1 THEN first - 1 ELSE 1
         IN  /\ line'[first] # NUL /\ start \in 1 .. Len(t)
             /\ Spans(line', trimmed_start(line', start), trimmed_end(line', Len(t) - 1, under),
                      Trimmed(Body(t)))
<1> DEFINE sp == " "
           found == Solid(line', sp)
           first == First(found)
           m == Len(Body(t))
<1>1. WholeLines /\ t[1] = sp /\ Trimmed(Body(t)) # <<>>
  BY DEF TidyLines, IsIndented
<1>2. \A c : is_space(c) <=> c = sp
  BY DEF is_space
<1> HIDE DEF sp
<1>3. /\ Len(t) \in Nat /\ t \in Seq(Char) /\ 0 < Len(t) /\ Len(t) < LINE_BUF_SIZE
      /\ LINE_BUF_SIZE \in Nat
      /\ \A j \in 0 .. Len(t) : line'[j] = IF j < Len(t) THEN t[j + 1] ELSE NUL
      /\ \A j \in 1 .. Len(t) : t[j] # NUL
  BY <1>1, LineRead
<1>4. /\ m \in Nat /\ m <= Len(t) /\ m >= Len(t) - 1
      /\ Body(t) = SubSeq(t, 1, m)
      /\ \A j \in 1 .. m : t[j] # NL
      /\ \A j \in m + 1 .. Len(t) : t[j] = NL
  BY <1>1, BodyIs
<1> HIDE DEF m
<1> DEFINE a == 1
<1>5. Trimmed(SubSeq(t, a, m)) # <<>>
  BY <1>1, <1>4
<1>6. m >= 1
  <2> SUFFICES ASSUME m < 1 PROVE FALSE
    BY <1>4
  <2>1. SubSeq(t, 1, m) = <<>>
    BY <1>3, <1>4, SubSeqEmpty
  <2> QED  BY <1>5, <2>1, TrimmedNone
<1>7. a \in 1 .. Len(t) /\ m \in a .. Len(t) /\ Len(t) \in m .. Len(t)
  BY <1>3, <1>4, <1>6
<1>8. Spans(line', trimmed_start(line', a - 1), trimmed_end(line', Len(t) - 1, under),
            Trimmed(SubSeq(t, a, m)))
  <2>1. \A j \in a .. m : t[j] # NL
    BY <1>4
  <2> HIDE DEF a
  <2> QED  BY <1>1, <1>4, <1>5, <1>7, <2>1, TrimsSome
<1>9. PICK f, g : Core(t, 1, m, f, g)
  <2>1. /\ SubSeq(t, 1, m) \in Seq(Char) /\ Len(SubSeq(t, 1, m)) = m - 1 + 1
        /\ \A j \in 1 .. m - 1 + 1 : SubSeq(t, 1, m)[j] = t[1 + j - 1]
    <3>1. 1 \in 1 .. Len(t) + 1 /\ m \in 1 - 1 .. Len(t)
      BY <1>3, <1>7
    <3> QED  BY <1>3, <3>1, PartIs
  <2>2. PICK j \in 1 .. m - 1 + 1 : ~ is_space(SubSeq(t, 1, m)[j])
    BY <1>5, <2>1, TrimmedSome
  <2>3. j \in 1 .. m /\ 1 + j - 1 = j /\ 1 \in Nat
    BY <1>4
  <2>4. ~ is_space(t[j])
    BY <2>1, <2>2, <2>3
  <2> QED  BY <1>3, <1>4, <2>3, <2>4, CoreExists
<1>10. f \in 2 .. m /\ t[f] # sp /\ \A j \in 1 .. f - 1 : t[j] = sp
  <2>1. f \in 1 .. m /\ t[f] # sp /\ \A j \in 1 .. f - 1 : t[j] = sp
    BY <1>2, <1>9 DEF Core
  <2> QED  BY <1>1, <1>4, <2>1
<1>11. ASSUME NEW b \in 1 .. f PROVE trimmed_start(line', b - 1) = f - 1
  <2>1. b \in 1 .. Len(t) + 1 /\ f \in b .. Len(t) + 1 /\ \A j \in b .. f - 1 : j \in 1 .. f - 1
    BY <1>3, <1>4, <1>10
  <2>2. ~ is_space(t[f]) /\ \A j \in b .. f - 1 : is_space(t[j])
    BY <1>2, <1>10, <2>1
  <2> QED  BY <1>1, <2>1, <2>2, StartIs
<1>12. first = f - 1
  <2>1. f - 1 \in found
    <3>1. f - 1 \in 1 .. LINE_BUF_SIZE - 1 /\ f - 1 \in 0 .. Len(t) /\ f - 1 < Len(t) /\ (f - 1) + 1 = f
      BY <1>3, <1>4, <1>10
    <3>2. line'[f - 1] = t[f]
      BY <1>3, <3>1
    <3> QED  BY <1>10, <3>1, <3>2 DEF Solid
  <2>2. ASSUME NEW y \in found PROVE f - 1 <= y
    <3>1. y \in Int /\ y \in 1 .. LINE_BUF_SIZE
      BY <1>3 DEF Solid
    <3>2. SUFFICES ASSUME y < f - 1 PROVE FALSE
      BY <1>4, <1>10, <3>1
    <3>3. /\ y \in 0 .. Len(t) /\ y < Len(t) /\ y + 1 \in 1 .. f - 1 /\ y # LINE_BUF_SIZE
      BY <1>3, <1>4, <1>10, <3>1, <3>2
    <3>4. line'[y] = t[y + 1] /\ t[y + 1] = sp
      BY <1>3, <1>10, <3>3
    <3> QED  BY <3>3, <3>4 DEF Solid
  <2>3. found \in SUBSET Int
    BY <1>3 DEF Solid
  <2> HIDE DEF found
  <2> QED  BY <2>1, <2>2, <2>3, FirstIs
<1> DEFINE start == IF first > 1 THEN first - 1 ELSE 1
<1>13. start \in 1 .. Len(t) /\ start + 1 \in 1 .. f /\ (start + 1) - 1 = start
  BY <1>3, <1>4, <1>10, <1>12
<1>14. line'[first] # NUL
  <2>1. f - 1 \in 0 .. Len(t) /\ f - 1 < Len(t) /\ (f - 1) + 1 = f /\ f \in 1 .. Len(t)
    BY <1>3, <1>4, <1>10
  <2> QED  BY <1>3, <1>12, <2>1
<1>15. trimmed_start(line', start) = trimmed_start(line', 0)
  <2>1. 1 \in 1 .. f /\ 1 - 1 = 0
    BY <1>4, <1>10
  <2> HIDE DEF start
  <2> QED  BY <1>11, <1>13, <2>1
<1>16. Spans(line', trimmed_start(line', 0), trimmed_end(line', Len(t) - 1, under), Trimmed(Body(t)))
  BY <1>4, <1>8
<1> HIDE DEF start, found
<1> QED  BY <1>13, <1>14, <1>15, <1>16 DEF sp, found, start

-----------------------------------------------------------------------------
\* One step of each of the functions of the reference reading.
Longer(lines, p, n, v) ==
  IF \A r \in p + 1 .. p + n : IsIndented(lines[r])
  THEN Joined(v, Trimmed(Body(lines[p + n]))) ELSE v

More(lines, n, es) == IF IsEntry(lines[n]) THEN Append(es, Entry(lines, n)) ELSE es

InEnvironment(e) == e[1] = TaskName /\ e[2] \notin {KeyCmd, KeyDir, KeyWait}

Wider(e, env) == IF InEnvironment(e) THEN Append(env, <<e[2], e[3]>>) ELSE env

\* The value of an entry is well defined.
LEMMA ValuesDefined ==
  ASSUME NEW lines, NEW p, Len(lines) - p \in Nat
  PROVE  /\ DOMAIN Values(lines, p) = 0 .. Len(lines) - p
         /\ Values(lines, p)[0] = FirstPart(lines[p])
         /\ \A i \in 1 .. Len(lines) - p : Values(lines, p)[i] = Longer(lines, p, i, Values(lines, p)[i - 1])
<1> DEFINE len == Len(lines) - p
           start == FirstPart(lines[p])
           Loop(m, f) ==
             f = [i \in 0 .. m |-> IF i = 0 THEN start ELSE Longer(lines, p, i, f[i - 1])]
           S == {m \in Nat : \E f : Loop(m, f)}
<1>1. 0 \in S
  <2>1. Loop(0, [i \in 0 .. 0 |-> start])
    OBVIOUS
  <2> QED  BY <2>1
<1>2. ASSUME NEW m \in S PROVE m + 1 \in S
  <2>1. PICK f : Loop(m, f)
    OBVIOUS
  <2> DEFINE g == [i \in 0 .. m + 1 |-> IF i = m + 1 THEN Longer(lines, p, i, f[m]) ELSE f[i]]
  <2>2. Loop(m + 1, g)
    <3>1. ASSUME NEW i \in 0 .. m + 1
          PROVE  g[i] = IF i = 0 THEN start ELSE Longer(lines, p, i, g[i - 1])
      <4> HIDE DEF start
      <4>1. CASE i = m + 1
        <5>1. i # 0 /\ i - 1 = m /\ m \in 0 .. m + 1 /\ m # m + 1
          BY <4>1
        <5> QED  BY <4>1, <5>1
      <4>2. CASE i # m + 1
        <5>1. i \in 0 .. m /\ (i # 0 => i - 1 \in 0 .. m /\ i - 1 # m + 1)
          BY <4>2
        <5>2. f[i] = IF i = 0 THEN start ELSE Longer(lines, p, i, f[i - 1])
          BY <2>1, <5>1
        <5> QED  BY <5>1, <5>2, <4>2
      <4> QED  BY <4>1, <4>2
    <3> HIDE DEF start
    <3> QED  BY <3>1
  <2>3. m + 1 \in Nat
    OBVIOUS
  <2> HIDE DEF Loop, g
  <2> QED  BY <2>2, <2>3
<1>3. \E f : Loop(len, f)
  <2> HIDE DEF Loop
  <2>1. S \in SUBSET Nat
    OBVIOUS
  <2>2. len \in S
    <3> HIDE DEF S
    <3> QED  BY <1>1, <1>2, <2>1, Induction
  <2> QED  BY <2>2
<1>4. Loop(len, Values(lines, p))
  BY <1>3 DEF Values, Longer
<1>5. 0 \in 0 .. len /\ \A i \in 1 .. len : i \in 0 .. len /\ i # 0
  OBVIOUS
<1> HIDE DEF start, len
<1>6. DOMAIN Values(lines, p) = 0 .. len /\ Values(lines, p)[0] = start
  BY <1>4, <1>5
<1>7. \A i \in 1 .. len : Values(lines, p)[i] = Longer(lines, p, i, Values(lines, p)[i - 1])
  BY <1>4, <1>5
<1> QED  BY <1>6, <1>7 DEF start, len

\* The entries are well defined.
LEMMA EntriesDefined ==
  ASSUME NEW lines, Len(lines) \in Nat
  PROVE  /\ DOMAIN EntriesUpTo(lines) = 0 .. Len(lines)
         /\ EntriesUpTo(lines)[0] = <<>>
         /\ \A i \in 1 .. Len(lines) : EntriesUpTo(lines)[i] = More(lines, i, EntriesUpTo(lines)[i - 1])
<1> DEFINE len == Len(lines)
           start == <<>>
           Loop(m, f) ==
             f = [i \in 0 .. m |-> IF i = 0 THEN start ELSE More(lines, i, f[i - 1])]
           S == {m \in Nat : \E f : Loop(m, f)}
<1>1. 0 \in S
  <2>1. Loop(0, [i \in 0 .. 0 |-> start])
    OBVIOUS
  <2> QED  BY <2>1
<1>2. ASSUME NEW m \in S PROVE m + 1 \in S
  <2>1. PICK f : Loop(m, f)
    OBVIOUS
  <2> DEFINE g == [i \in 0 .. m + 1 |-> IF i = m + 1 THEN More(lines, i, f[m]) ELSE f[i]]
  <2>2. Loop(m + 1, g)
    <3>1. ASSUME NEW i \in 0 .. m + 1
          PROVE  g[i] = IF i = 0 THEN start ELSE More(lines, i, g[i - 1])
      <4> HIDE DEF start
      <4>1. CASE i = m + 1
        <5>1. i # 0 /\ i - 1 = m /\ m \in 0 .. m + 1 /\ m # m + 1
          BY <4>1
        <5> QED  BY <4>1, <5>1
      <4>2. CASE i # m + 1
        <5>1. i \in 0 .. m /\ (i # 0 => i - 1 \in 0 .. m /\ i - 1 # m + 1)
          BY <4>2
        <5>2. f[i] = IF i = 0 THEN start ELSE More(lines, i, f[i - 1])
          BY <2>1, <5>1
        <5> QED  BY <5>1, <5>2, <4>2
      <4> QED  BY <4>1, <4>2
    <3> HIDE DEF start
    <3> QED  BY <3>1
  <2>3. m + 1 \in Nat
    OBVIOUS
  <2> HIDE DEF Loop, g
  <2> QED  BY <2>2, <2>3
<1>3. \E f : Loop(len, f)
  <2> HIDE DEF Loop
  <2>1. S \in SUBSET Nat
    OBVIOUS
  <2>2. len \in S
    <3> HIDE DEF S
    <3> QED  BY <1>1, <1>2, <2>1, Induction, SMTT(30)
  <2> QED  BY <2>2
<1>4. Loop(len, EntriesUpTo(lines))
  BY <1>3 DEF EntriesUpTo, More
<1>5. 0 \in 0 .. len /\ \A i \in 1 .. len : i \in 0 .. len /\ i # 0
  OBVIOUS
<1> HIDE DEF start, len
<1>6. DOMAIN EntriesUpTo(lines) = 0 .. len /\ EntriesUpTo(lines)[0] = start
  BY <1>4, <1>5
<1>7. \A i \in 1 .. len : EntriesUpTo(lines)[i] = More(lines, i, EntriesUpTo(lines)[i - 1])
  BY <1>4, <1>5
<1> QED  BY <1>6, <1>7 DEF start, len

\* The environment is well defined.
LEMMA EnvironmentDefined ==
  ASSUME NEW es, Len(es) \in Nat
  PROVE  /\ DOMAIN EnvironmentUpTo(es) = 0 .. Len(es)
         /\ EnvironmentUpTo(es)[0] = <<>>
         /\ \A i \in 1 .. Len(es) : EnvironmentUpTo(es)[i] = Wider(es[i], EnvironmentUpTo(es)[i - 1])
<1> DEFINE len == Len(es)
           start == <<>>
           Loop(m, f) ==
             f = [i \in 0 .. m |-> IF i = 0 THEN start ELSE Wider(es[i], f[i - 1])]
           S == {m \in Nat : \E f : Loop(m, f)}
<1>1. 0 \in S
  <2>1. Loop(0, [i \in 0 .. 0 |-> start])
    OBVIOUS
  <2> QED  BY <2>1
<1>2. ASSUME NEW m \in S PROVE m + 1 \in S
  <2>1. PICK f : Loop(m, f)
    OBVIOUS
  <2> DEFINE g == [i \in 0 .. m + 1 |-> IF i = m + 1 THEN Wider(es[i], f[m]) ELSE f[i]]
  <2>2. Loop(m + 1, g)
    <3>1. ASSUME NEW i \in 0 .. m + 1
          PROVE  g[i] = IF i = 0 THEN start ELSE Wider(es[i], g[i - 1])
      <4> HIDE DEF start
      <4>1. CASE i = m + 1
        <5>1. i # 0 /\ i - 1 = m /\ m \in 0 .. m + 1 /\ m # m + 1
          BY <4>1
        <5> QED  BY <4>1, <5>1
      <4>2. CASE i # m + 1
        <5>1. i \in 0 .. m /\ (i # 0 => i - 1 \in 0 .. m /\ i - 1 # m + 1)
          BY <4>2
        <5>2. f[i] = IF i = 0 THEN start ELSE Wider(es[i], f[i - 1])
          BY <2>1, <5>1
        <5> QED  BY <5>1, <5>2, <4>2
      <4> QED  BY <4>1, <4>2
    <3> HIDE DEF start
    <3> QED  BY <3>1
  <2>3. m + 1 \in Nat
    BY SMTT(30)
  <2> HIDE DEF Loop, g
  <2> QED  BY <2>2, <2>3
<1>3. \E f : Loop(len, f)
  <2> HIDE DEF Loop
  <2>1. S \in SUBSET Nat
    OBVIOUS
  <2>2. len \in S
    <3> HIDE DEF S
    <3> QED  BY <1>1, <1>2, <2>1, Induction
  <2> QED  BY <2>2
<1>4. Loop(len, EnvironmentUpTo(es))
  BY <1>3 DEF EnvironmentUpTo, Wider, InEnvironment
<1>5. 0 \in 0 .. len /\ \A i \in 1 .. len : i \in 0 .. len /\ i # 0
  OBVIOUS
<1> HIDE DEF start, len
<1>6. DOMAIN EnvironmentUpTo(es) = 0 .. len /\ EnvironmentUpTo(es)[0] = start
  BY <1>4, <1>5
<1>7. \A i \in 1 .. len : EnvironmentUpTo(es)[i] = Wider(es[i], EnvironmentUpTo(es)[i - 1])
  BY <1>4, <1>5
<1> QED  BY <1>6, <1>7 DEF start, len

-----------------------------------------------------------------------------
\* One more line.
LEMMA OneMore ==
  ASSUME NEW lines \in Seq(Line), NEW t \in Line
  PROVE  /\ Len(lines) \in Nat /\ Append(lines, t) \in Seq(Line)
         /\ Len(Append(lines, t)) = Len(lines) + 1
         /\ Append(lines, t)[Len(lines) + 1] = t
         /\ \A j \in 1 .. Len(lines) : Append(lines, t)[j] = lines[j]
BY LenProperties, AppendProperties

\* A line behind the indented lines of an entry does not change its value, an indented
\* one makes it longer.
LEMMA ValueAppend ==
  ASSUME NEW lines \in Seq(Line), NEW t \in Line, NEW p \in 1 .. Len(lines)
  PROVE  LET more == Append(lines, t)
         IN  ValueOf(more, p) = Longer(more, p, Len(lines) + 1 - p, ValueOf(lines, p))
<1> DEFINE n == Len(lines)
           more == Append(lines, t)
           len == n - p
           v == Values(lines, p)
           w == Values(more, p)
           S == {k \in Nat : k <= len => w[k] = v[k]}
<1>1. /\ n \in Nat /\ Len(more) = n + 1 /\ more[n + 1] = t
      /\ \A j \in 1 .. n : more[j] = lines[j]
  BY OneMore
<1> HIDE DEF more
<1>2. len \in Nat /\ Len(lines) - p = len /\ Len(more) - p = len + 1
  BY <1>1
<1>3. v[0] = FirstPart(lines[p]) /\ \A i \in 1 .. len : v[i] = Longer(lines, p, i, v[i - 1])
  BY <1>2, ValuesDefined
<1>4. w[0] = FirstPart(more[p]) /\ \A i \in 1 .. len + 1 : w[i] = Longer(more, p, i, w[i - 1])
  <2>1. Len(more) - p \in Nat
    BY <1>2
  <2> QED  BY <1>2, <2>1, ValuesDefined
<1> HIDE DEF v, w
<1>5. 0 \in S
  BY <1>1, <1>3, <1>4
<1>6. ASSUME NEW k \in S PROVE k + 1 \in S
  <2> SUFFICES ASSUME k + 1 <= len PROVE w[k + 1] = v[k + 1]
    OBVIOUS
  <2>1. k \in Nat /\ k + 1 \in 1 .. len /\ k + 1 \in 1 .. len + 1 /\ (k + 1) - 1 = k /\ k <= len
    BY <1>2
  <2>2. w[k] = v[k]
    BY <2>1
  <2>3. w[k + 1] = Longer(more, p, k + 1, w[k]) /\ v[k + 1] = Longer(lines, p, k + 1, v[k])
    BY <1>3, <1>4, <2>1
  <2>4. \A r \in p + 1 .. p + (k + 1) : r \in 1 .. n /\ more[r] = lines[r]
    BY <1>1, <2>1
  <2>5. more[p + (k + 1)] = lines[p + (k + 1)]
    BY <1>1, <2>1
  <2> QED  BY <2>2, <2>3, <2>4, <2>5 DEF Longer
<1>7. w[len] = v[len]
  <2>1. S \in SUBSET Nat
    OBVIOUS
  <2>2. len \in S
    <3> HIDE DEF S, len
    <3> QED  BY <1>2, <1>5, <1>6, <2>1, Induction
  <2> QED  BY <1>2, <2>2
<1>8. w[len + 1] = Longer(more, p, len + 1, w[len])
  BY <1>2, <1>4
<1>9. ValueOf(lines, p) = v[len] /\ ValueOf(more, p) = w[len + 1] /\ len + 1 = n + 1 - p
  BY <1>1, <1>2 DEF ValueOf, v, w
<1> QED  BY <1>7, <1>8, <1>9 DEF more

\* The headers before a line stay.
LEMMA SectionAppend ==
  ASSUME NEW lines \in Seq(Line), NEW t \in Line, NEW p \in 1 .. Len(lines) + 1
  PROVE  SectionOf(Append(lines, t), p) = SectionOf(lines, p)
<1> DEFINE n == Len(lines)
           more == Append(lines, t)
           H(s) == {q \in 1 .. p - 1 : IsSection(s[q])}
<1>1. n \in Nat /\ \A j \in 1 .. n : more[j] = lines[j]
  BY OneMore
<1> HIDE DEF more
<1>2. \A q \in 1 .. p - 1 : more[q] = lines[q]
  BY <1>1
<1>3. H(more) = H(lines)
  BY <1>2
<1>4. CASE H(lines) = {}
  BY <1>3, <1>4 DEF SectionOf, more
<1>5. CASE H(lines) # {}
  <2> DEFINE M == H(lines)
             last == CHOOSE q \in M : \A r \in M : r <= q
  <2>1. last \in M
    <3>1. M \in SUBSET (1 .. p - 1) /\ 1 \in Int /\ p - 1 \in Int /\ M # {}
      BY <1>1, <1>5
    <3> HIDE DEF M
    <3>2. PICK x \in M : \A y \in M : x >= y
      BY <3>1, Highest
    <3>3. \A r \in M : r <= x
      BY <3>1, <3>2
    <3> QED  BY <3>3
  <2>2. more[last] = lines[last]
    <3>1. last \in 1 .. p - 1
      BY <2>1
    <3> HIDE DEF last
    <3> QED  BY <1>2, <3>1
  <2>3. SectionOf(lines, p) = NameIn(lines[last]) /\ SectionOf(more, p) = NameIn(more[last])
    BY <1>3, <1>5 DEF SectionOf
  <2> QED  BY <2>2, <2>3 DEF more
<1> QED  BY <1>4, <1>5

\* The section behind a line that is a header, and behind one that is not.
LEMMA SectionBehind ==
  ASSUME NEW lines, NEW p \in Nat \ {0}
  PROVE  SectionOf(lines, p + 1) = IF IsSection(lines[p]) THEN NameIn(lines[p]) ELSE SectionOf(lines, p)
<1> DEFINE H(x) == {q \in 1 .. x - 1 : IsSection(lines[q])}
<1>1. (p + 1) - 1 = p /\ p \in 1 .. p /\ \A q \in 1 .. p : q <= p /\ (q # p => q \in 1 .. p - 1)
  OBVIOUS
<1>2. CASE IsSection(lines[p])
  <2> DEFINE M == H(p + 1)
             last == CHOOSE q \in M : \A r \in M : r <= q
  <2>1. p \in M /\ \A q \in M : q \in Int /\ q <= p
    BY <1>1, <1>2
  <2>2. last \in M /\ \A r \in M : r <= last
    <3> HIDE DEF M
    <3> QED  BY <2>1
  <2>3. last = p
    <3> HIDE DEF M, last
    <3>1. last \in Int /\ last <= p /\ p <= last
      BY <2>1, <2>2
    <3> QED  BY <3>1
  <2>4. SectionOf(lines, p + 1) = NameIn(lines[last])
    BY <2>1 DEF SectionOf
  <2> QED  BY <1>2, <2>3, <2>4
<1>3. CASE ~ IsSection(lines[p])
  <2>1. H(p + 1) = H(p)
    BY <1>1, <1>3
  <2> DEFINE Named(M) == IF M = {} THEN <<>>
                         ELSE NameIn(lines[CHOOSE q \in M : \A r \in M : r <= q])
  <2>2. SectionOf(lines, p + 1) = Named(H(p + 1)) /\ SectionOf(lines, p) = Named(H(p))
    BY DEF SectionOf
  <2> HIDE DEF Named, H
  <2>3. SectionOf(lines, p + 1) = SectionOf(lines, p)
    BY <2>1, <2>2
  <2> QED  BY <1>3, <2>3
<1> QED  BY <1>2, <1>3

\* An entry that is followed by a line that is not indented is complete.
LEMMA EntryKept ==
  ASSUME NEW lines \in Seq(Line), NEW t \in Line, NEW p \in 1 .. Len(lines),
         NEW r \in p + 1 .. Len(lines) + 1, ~ IsIndented(Append(lines, t)[r])
  PROVE  Entry(Append(lines, t), p) = Entry(lines, p)
<1> DEFINE n == Len(lines)
           more == Append(lines, t)
<1>1. n \in Nat /\ \A j \in 1 .. n : more[j] = lines[j]
  BY OneMore
<1>2. ValueOf(more, p) = Longer(more, p, n + 1 - p, ValueOf(lines, p))
  BY ValueAppend
<1>3. p \in 1 .. n + 1
  BY <1>1
<1>4. SectionOf(more, p) = SectionOf(lines, p)
  BY <1>3, SectionAppend
<1>5. ~ IsIndented(more[r])
  OBVIOUS
<1> HIDE DEF more
<1>6. r \in p + 1 .. p + (n + 1 - p)
  BY <1>1
<1>7. ValueOf(more, p) = ValueOf(lines, p)
  BY <1>2, <1>5, <1>6 DEF Longer
<1> QED  BY <1>1, <1>4, <1>7 DEF Entry, more

\* Behind lines that are no entries, the entries are the same.
LEMMA EntriesStay ==
  ASSUME NEW lines, NEW n \in Nat, Len(lines) = n, NEW p \in 0 .. n, NEW q \in p .. n,
         \A r \in p + 1 .. q : ~ IsEntry(lines[r])
  PROVE  EntriesUpTo(lines)[q] = EntriesUpTo(lines)[p]
<1> DEFINE f == EntriesUpTo(lines)
           S == {k \in Nat : p + k <= q => f[p + k] = f[p]}
<1>1. \A i \in 1 .. n : f[i] = More(lines, i, f[i - 1])
  BY EntriesDefined
<1> HIDE DEF f
<1>2. 0 \in S
  <2>1. p + 0 = p
    OBVIOUS
  <2> QED  BY <2>1
<1>3. ASSUME NEW k \in S PROVE k + 1 \in S
  <2> SUFFICES ASSUME p + (k + 1) <= q PROVE f[p + (k + 1)] = f[p]
    OBVIOUS
  <2>1. p + (k + 1) \in 1 .. n /\ (p + (k + 1)) - 1 = p + k /\ p + k <= q /\ p + (k + 1) \in p + 1 .. q
    OBVIOUS
  <2>2. f[p + k] = f[p] /\ ~ IsEntry(lines[p + (k + 1)])
    BY <2>1
  <2>3. f[p + (k + 1)] = More(lines, p + (k + 1), f[p + k])
    BY <1>1, <2>1
  <2> QED  BY <2>2, <2>3 DEF More
<1>4. q - p \in S
  <2>1. S \in SUBSET Nat /\ q - p \in Nat
    OBVIOUS
  <2> HIDE DEF S
  <2> QED  BY <1>2, <1>3, <2>1, Induction
<1>5. p + (q - p) = q /\ q <= q
  OBVIOUS
<1> QED  BY <1>4, <1>5 DEF f

\* The first m entries are the same when those lines and their values are.
LEMMA EntriesSame ==
  ASSUME NEW lines, NEW more, Len(lines) \in Nat, Len(more) \in Nat,
         NEW m \in Nat, m <= Len(lines), m <= Len(more),
         \A p \in 1 .. m : more[p] = lines[p] /\ (IsEntry(lines[p]) => Entry(more, p) = Entry(lines, p))
  PROVE  EntriesUpTo(more)[m] = EntriesUpTo(lines)[m]
<1> DEFINE f == EntriesUpTo(lines)
           g == EntriesUpTo(more)
           S == {k \in Nat : k <= m => g[k] = f[k]}
<1>1. f[0] = <<>> /\ \A i \in 1 .. m : f[i] = More(lines, i, f[i - 1])
  BY EntriesDefined
<1>2. g[0] = <<>> /\ \A i \in 1 .. m : g[i] = More(more, i, g[i - 1])
  BY EntriesDefined
<1> HIDE DEF f, g
<1>3. 0 \in S
  BY <1>1, <1>2
<1>4. ASSUME NEW k \in S PROVE k + 1 \in S
  <2> SUFFICES ASSUME k + 1 <= m PROVE g[k + 1] = f[k + 1]
    OBVIOUS
  <2>1. k + 1 \in 1 .. m /\ (k + 1) - 1 = k /\ k <= m
    OBVIOUS
  <2>2. g[k] = f[k] /\ f[k + 1] = More(lines, k + 1, f[k]) /\ g[k + 1] = More(more, k + 1, g[k])
    BY <1>1, <1>2, <2>1
  <2>3. more[k + 1] = lines[k + 1] /\ (IsEntry(lines[k + 1]) => Entry(more, k + 1) = Entry(lines, k + 1))
    BY <2>1
  <2> QED  BY <2>2, <2>3 DEF More
<1>5. m \in S
  <2>1. S \in SUBSET Nat
    OBVIOUS
  <2> HIDE DEF S
  <2> QED  BY <1>3, <1>4, <2>1, Induction
<1> QED  BY <1>5 DEF f, g

\* A line that is not indented leaves the entries before it alone.
LEMMA EntriesAppend ==
  ASSUME NEW lines \in Seq(Line), NEW t \in Line, ~ IsIndented(t)
  PROVE  LET more == Append(lines, t)
         IN  /\ Entries(more) = IF IsEntry(t) THEN Append(Entries(lines), Entry(more, Len(lines) + 1))
                                ELSE Entries(lines)
             /\ EntriesUpTo(more)[Len(lines)] = Entries(lines)
<1> DEFINE n == Len(lines)
           more == Append(lines, t)
<1>1. /\ n \in Nat /\ Len(more) = n + 1 /\ more[n + 1] = t
      /\ \A j \in 1 .. n : more[j] = lines[j]
  BY OneMore
<1>2. ASSUME NEW p \in 1 .. n PROVE Entry(more, p) = Entry(lines, p)
  <2>1. n + 1 \in p + 1 .. n + 1
    BY <1>1
  <2> QED  BY <1>1, <2>1, EntryKept
<1> HIDE DEF more
<1>3. EntriesUpTo(more)[n] = EntriesUpTo(lines)[n]
  <2>1. n <= Len(lines) /\ n <= Len(more) /\ Len(more) \in Nat /\ Len(lines) \in Nat
    BY <1>1
  <2> QED  BY <1>1, <1>2, <2>1, EntriesSame
<1>4. EntriesUpTo(more)[n + 1] = More(more, n + 1, EntriesUpTo(more)[n])
  <2>1. n + 1 \in 1 .. Len(more) /\ (n + 1) - 1 = n /\ Len(more) \in Nat
    BY <1>1
  <2> QED  BY <2>1, EntriesDefined
<1> QED  BY <1>1, <1>3, <1>4 DEF More, Entries, more

\* The last entry with its indented lines, and the ones before it.
LEMMA LastEntry ==
  ASSUME NEW lines \in Seq(Line), NEW p \in 1 .. Len(lines), IsEntry(lines[p]),
         \A r \in p + 1 .. Len(lines) : IsIndented(lines[r])
  PROVE  Entries(lines) = Append(EntriesUpTo(lines)[p - 1], Entry(lines, p))
<1> DEFINE n == Len(lines)
<1>1. n \in Nat
  BY LenProperties
<1>2. \A r \in p + 1 .. n : ~ IsEntry(lines[r])
  BY DEF IsEntry, IsIndented
<1>3. p \in 0 .. n /\ n \in p .. n
  BY <1>1
<1>4. EntriesUpTo(lines)[n] = EntriesUpTo(lines)[p]
  BY <1>1, <1>2, <1>3, EntriesStay
<1>5. EntriesUpTo(lines)[p] = More(lines, p, EntriesUpTo(lines)[p - 1])
  BY <1>1, EntriesDefined
<1> QED  BY <1>4, <1>5 DEF Entries, More

\* An indented line makes the last entry longer and leaves the ones before it alone.
LEMMA EntryLonger ==
  ASSUME NEW lines \in Seq(Line), NEW t \in Line, IsIndented(t),
         NEW p \in 1 .. Len(lines), IsEntry(lines[p]),
         \A r \in p + 1 .. Len(lines) : IsIndented(lines[r])
  PROVE  LET more == Append(lines, t)
         IN  /\ EntriesUpTo(more)[p - 1] = EntriesUpTo(lines)[p - 1]
             /\ Entry(more, p) = <<SectionOf(lines, p), KeyIn(lines[p]), ValueOf(more, p)>>
             /\ ValueOf(more, p) = Joined(ValueOf(lines, p), Trimmed(Body(t)))
<1> DEFINE n == Len(lines)
           more == Append(lines, t)
<1>1. /\ n \in Nat /\ Len(more) = n + 1 /\ more[n + 1] = t /\ more \in Seq(Line)
      /\ \A j \in 1 .. n : more[j] = lines[j]
  BY OneMore
<1>2. ~ IsIndented(more[p]) /\ more[p] = lines[p] /\ IsEntry(more[p])
  BY <1>1 DEF IsEntry, IsIndented
<1>3. ASSUME NEW q \in 1 .. p - 1 PROVE Entry(more, q) = Entry(lines, q)
  <2>1. q \in 1 .. n /\ p \in q + 1 .. n + 1
    BY <1>1
  <2> QED  BY <1>2, <2>1, EntryKept
<1>4. ValueOf(more, p) = Longer(more, p, n + 1 - p, ValueOf(lines, p))
  BY ValueAppend
<1>5. SectionOf(more, p) = SectionOf(lines, p)
  <2>1. p \in 1 .. n + 1
    BY <1>1
  <2> QED  BY <2>1, SectionAppend
<1> HIDE DEF more
<1>6. EntriesUpTo(more)[p - 1] = EntriesUpTo(lines)[p - 1]
  <2> DEFINE m == p - 1
  <2>1. m \in Nat /\ m <= Len(lines) /\ m <= Len(more) /\ Len(more) \in Nat /\ Len(lines) \in Nat
    BY <1>1
  <2>2. \A q \in 1 .. m : more[q] = lines[q]
    BY <1>1
  <2>3. \A q \in 1 .. m : Entry(more, q) = Entry(lines, q)
    BY <1>3
  <2> HIDE DEF m
  <2>4. EntriesUpTo(more)[m] = EntriesUpTo(lines)[m]
    BY <2>1, <2>2, <2>3, EntriesSame
  <2> QED  BY <2>4 DEF m
<1>7. \A r \in p + 1 .. n + 1 : IsIndented(more[r])
  <2>1. ASSUME NEW r \in p + 1 .. n + 1 PROVE IsIndented(more[r])
    <3>1. r = n + 1 \/ (r \in p + 1 .. n /\ r \in 1 .. n)
      BY <1>1
    <3> QED  BY <1>1, <3>1
  <2> QED  BY <2>1
<1>8. p \in 1 .. Len(more) /\ p + (n + 1 - p) = n + 1
  BY <1>1
<1>9. ValueOf(more, p) = Joined(ValueOf(lines, p), Trimmed(Body(t)))
  BY <1>1, <1>4, <1>7, <1>8 DEF Longer
<1>10. Entry(more, p) = <<SectionOf(lines, p), KeyIn(lines[p]), ValueOf(more, p)>>
  BY <1>2, <1>5 DEF Entry
<1> QED  BY <1>6, <1>9, <1>10 DEF more

\* The value of an entry on the last line is the part on that line.
LEMMA NewEntry ==
  ASSUME NEW lines \in Seq(Line), NEW t \in Line
  PROVE  LET more == Append(lines, t)
         IN  Entry(more, Len(lines) + 1) = <<SectionOf(lines, Len(lines) + 1), KeyIn(t), FirstPart(t)>>
             /\ ValueOf(more, Len(lines) + 1) = FirstPart(t)
<1> DEFINE n == Len(lines)
           more == Append(lines, t)
           p == n + 1
<1>1. n \in Nat /\ Len(more) = p /\ more[p] = t /\ p \in 1 .. n + 1
  <2>1. /\ n \in Nat /\ Len(more) = n + 1 /\ more[n + 1] = t
    BY OneMore
  <2> QED  BY <2>1
<1>2. SectionOf(more, p) = SectionOf(lines, p)
  <2> HIDE DEF p
  <2> QED  BY <1>1, SectionAppend
<1> HIDE DEF more, p
<1>3. Len(more) - p = 0 /\ 0 \in Nat
  BY <1>1
<1>4. Values(more, p)[0] = FirstPart(more[p])
  <2>1. Len(more) - p \in Nat
    BY <1>3
  <2> QED  BY <2>1, ValuesDefined
<1>5. ValueOf(more, p) = FirstPart(t)
  BY <1>1, <1>3, <1>4 DEF ValueOf
<1> QED  BY <1>1, <1>2, <1>5 DEF Entry, more, p

-----------------------------------------------------------------------------
\* What the handler has collected from the entries it has seen.
TaskOf(es) ==
  [cmd |-> LastOf(es, KeyCmd), dir |-> LastOf(es, KeyDir), wait |-> LastOf(es, KeyWait),
   vars |-> Environment(es)]

\* One more entry replaces the value of its reserved key, and of no other.
LEMMA LastAppend ==
  ASSUME NEW E, NEW es \in Seq(E), NEW x \in E, NEW k
  PROVE  LastOf(Append(es, x), k) =
           IF x[1] = TaskName /\ x[2] = k THEN {x[3]} ELSE LastOf(es, k)
<1> DEFINE n == Len(es)
           more == Append(es, x)
           Mine(s, m) == {j \in 1 .. m : s[j][1] = TaskName /\ s[j][2] = k}
           Of(s, M) == {s[j][3] : j \in {j \in M : \A i \in M : i <= j}}
<1>1. n \in Nat /\ Len(more) = n + 1 /\ more[n + 1] = x /\ \A j \in 1 .. n : more[j] = es[j]
  BY LenProperties, AppendProperties
<1>2. LastOf(es, k) = Of(es, Mine(es, n)) /\ LastOf(more, k) = Of(more, Mine(more, n + 1))
  BY <1>1 DEF LastOf
<1> HIDE DEF more, n
<1>3. \A j \in 1 .. n + 1 : j \in Int /\ j <= n + 1 /\ (j # n + 1 => j \in 1 .. n)
  BY <1>1
<1>4. n + 1 \in 1 .. n + 1 /\ \A j \in 1 .. n : j \in 1 .. n + 1 /\ j # n + 1
  BY <1>1
<1>5. CASE x[1] = TaskName /\ x[2] = k
  <2> DEFINE M == Mine(more, n + 1)
             N == {j \in M : \A i \in M : i <= j}
  <2>1. n + 1 \in M /\ \A j \in M : j \in 1 .. n + 1
    BY <1>1, <1>4, <1>5
  <2>2. N = {n + 1}
    <3>1. n + 1 \in N
      BY <1>3, <2>1
    <3>2. ASSUME NEW j \in N PROVE j = n + 1
      <4>1. j \in 1 .. n + 1 /\ n + 1 <= j
        BY <2>1
      <4> QED  BY <1>1, <4>1
    <3> HIDE DEF N
    <3> QED  BY <3>1, <3>2
  <2>3. Of(more, M) = {more[j][3] : j \in N}
    OBVIOUS
  <2>4. Of(more, M) = {x[3]}
    <3> HIDE DEF N, M, Of
    <3> QED  BY <1>1, <2>2, <2>3
  <2> QED  BY <1>2, <1>5, <2>4 DEF more
<1>6. CASE ~ (x[1] = TaskName /\ x[2] = k)
  <2> DEFINE M == Mine(es, n)
  <2>1. Mine(more, n + 1) = M
    BY <1>1, <1>3, <1>4, <1>6
  <2>2. \A j \in M : j \in 1 .. n /\ more[j] = es[j]
    BY <1>1
  <2>3. Of(more, M) = Of(es, M)
    <3> HIDE DEF M
    <3> QED  BY <2>2
  <2> HIDE DEF M, Mine, Of
  <2> QED  BY <1>2, <1>6, <2>1, <2>3 DEF M, more
<1> QED  BY <1>5, <1>6

\* One more entry is added to the environment unless its key is reserved.
LEMMA EnvironmentAppend ==
  ASSUME NEW E, NEW es \in Seq(E), NEW x \in E
  PROVE  Environment(Append(es, x)) = Wider(x, Environment(es))
<1> DEFINE n == Len(es)
           more == Append(es, x)
           f == EnvironmentUpTo(es)
           g == EnvironmentUpTo(more)
           S == {k \in Nat : k <= n => g[k] = f[k]}
<1>1. n \in Nat /\ Len(more) = n + 1 /\ more[n + 1] = x /\ \A j \in 1 .. n : more[j] = es[j]
  BY LenProperties, AppendProperties
<1> HIDE DEF more
<1>2. f[0] = <<>> /\ \A i \in 1 .. n : f[i] = Wider(es[i], f[i - 1])
  BY <1>1, EnvironmentDefined
<1>3. g[0] = <<>> /\ \A i \in 1 .. n + 1 : g[i] = Wider(more[i], g[i - 1])
  <2>1. Len(more) \in Nat
    BY <1>1
  <2> QED  BY <1>1, <2>1, EnvironmentDefined
<1> HIDE DEF f, g
<1>4. 0 \in S
  BY <1>2, <1>3
<1>5. ASSUME NEW k \in S PROVE k + 1 \in S
  <2> SUFFICES ASSUME k + 1 <= n PROVE g[k + 1] = f[k + 1]
    OBVIOUS
  <2>1. k + 1 \in 1 .. n /\ k + 1 \in 1 .. n + 1 /\ (k + 1) - 1 = k /\ k <= n
    BY <1>1
  <2> QED  BY <1>1, <1>2, <1>3, <2>1
<1>6. n \in S
  <2>1. S \in SUBSET Nat
    OBVIOUS
  <2> HIDE DEF S, n
  <2> QED  BY <1>1, <1>4, <1>5, <2>1, Induction
<1>7. g[n] = f[n]
  BY <1>1, <1>6
<1>8. g[n + 1] = Wider(x, g[n])
  <2>1. n + 1 \in 1 .. n + 1 /\ (n + 1) - 1 = n
    BY <1>1
  <2> QED  BY <1>1, <1>3, <2>1
<1> QED  BY <1>1, <1>7, <1>8 DEF Environment, f, g, more

\* workspace_task_get collects one more entry.
LEMMA HandlerCollects ==
  ASSUME NEW E, NEW es \in Seq(E), NEW x \in E, task = TaskOf(es)
  PROVE  workspace_task_get(x[1], x[2], x[3]) = TaskOf(Append(es, x))
<1> DEFINE more == Append(es, x)
           mine == x[1] = TaskName
<1>1. /\ LastOf(more, KeyCmd) = IF mine /\ x[2] = KeyCmd THEN {x[3]} ELSE LastOf(es, KeyCmd)
      /\ LastOf(more, KeyDir) = IF mine /\ x[2] = KeyDir THEN {x[3]} ELSE LastOf(es, KeyDir)
      /\ LastOf(more, KeyWait) = IF mine /\ x[2] = KeyWait THEN {x[3]} ELSE LastOf(es, KeyWait)
  BY LastAppend
<1>2. Environment(more) = IF mine /\ x[2] \notin {KeyCmd, KeyDir, KeyWait}
                          THEN Append(Environment(es), <<x[2], x[3]>>) ELSE Environment(es)
  BY EnvironmentAppend DEF Wider, InEnvironment
<1>3. /\ task.cmd = LastOf(es, KeyCmd) /\ task.dir = LastOf(es, KeyDir)
      /\ task.wait = LastOf(es, KeyWait) /\ task.vars = Environment(es)
      /\ task = [cmd |-> task.cmd, dir |-> task.dir, wait |-> task.wait, vars |-> task.vars]
  BY DEF TaskOf
<1>4. TaskOf(more) = [cmd |-> LastOf(more, KeyCmd), dir |-> LastOf(more, KeyDir),
                      wait |-> LastOf(more, KeyWait), vars |-> Environment(more)]
  BY DEF TaskOf
<1> HIDE DEF more
<1> DEFINE got == workspace_task_get(x[1], x[2], x[3])
<1>5. KeyCmd # KeyDir /\ KeyCmd # KeyWait /\ KeyDir # KeyWait
  BY IniAssumption
<1>6. CASE ~ mine
  <2>1. got = task
    BY <1>6 DEF workspace_task_get, IsTaskSection
  <2> QED  BY <1>1, <1>2, <1>3, <1>4, <1>6, <2>1 DEF more
<1>7. CASE mine /\ x[2] = KeyCmd
  <2>1. got = [task EXCEPT !.cmd = {x[3]}]
    BY <1>5, <1>7 DEF workspace_task_get, IsTaskSection
  <2> QED  BY <1>1, <1>2, <1>3, <1>4, <1>5, <1>7, <2>1 DEF more
<1>8. CASE mine /\ x[2] = KeyDir
  <2>1. got = [task EXCEPT !.dir = {x[3]}]
    BY <1>5, <1>8 DEF workspace_task_get, IsTaskSection
  <2> QED  BY <1>1, <1>2, <1>3, <1>4, <1>5, <1>8, <2>1 DEF more
<1>9. CASE mine /\ x[2] = KeyWait
  <2>1. got = [task EXCEPT !.wait = {x[3]}]
    BY <1>5, <1>9 DEF workspace_task_get, IsTaskSection
  <2> QED  BY <1>1, <1>2, <1>3, <1>4, <1>5, <1>9, <2>1 DEF more
<1>10. CASE mine /\ x[2] \notin {KeyCmd, KeyDir, KeyWait}
  <2>1. got = [task EXCEPT !.vars = Append(@, <<x[2], x[3]>>)]
    BY <1>10 DEF workspace_task_get, IsTaskSection
  <2> QED  BY <1>1, <1>2, <1>3, <1>4, <1>10, <2>1 DEF more
<1> QED  BY <1>6, <1>7, <1>8, <1>9, <1>10

-----------------------------------------------------------------------------
Triple == Txt \X Txt \X Txt

\* Line p is an entry, and all lines behind it are indented.
Current(lines, p) ==
  IsEntry(lines[p]) /\ \A r \in p + 1 .. Len(lines) : IsIndented(lines[r])

\* The buffers hold the entry of line p as far as it has been read, and the handler has seen
\* the entries before it.
Collecting(p) ==
  /\ Current(text, p)
  /\ Written(key, KEY_BUF_SIZE, KeyIn(text[p]))
  /\ Written(value, VALUE_BUF_SIZE, ValueOf(text, p)) /\ value_loc = Len(ValueOf(text, p))
  /\ EntriesUpTo(text)[p - 1] = handed

\* The inductive invariant: the parser's buffers hold what the reference reading says of the
\* lines read so far.
ReadInv ==
  /\ Inv /\ Len(text) <= MAX_LINES
  /\ mode \in {"STARTLINE", "SECTION", "KEY", "VALUE"}
  /\ save_loc \in 0 .. LINE_BUF_SIZE /\ value_loc \in 0 .. VALUE_BUF_SIZE - 1
  /\ DOMAIN section = - KEY_BUF_SIZE .. KEY_BUF_SIZE - 1
  /\ DOMAIN key = - KEY_BUF_SIZE .. KEY_BUF_SIZE - 1
  /\ DOMAIN value = - VALUE_BUF_SIZE .. VALUE_BUF_SIZE - 1
  /\ handed \in Seq(Triple) /\ task = TaskOf(handed)
  /\ status = "run" =>
       /\ Written(section, KEY_BUF_SIZE, SectionOf(text, Len(text) + 1))
       /\ IF mode = "VALUE" THEN \E p \in 1 .. Len(text) : Collecting(p)
          ELSE Entries(text) = handed
  /\ status = "OK" => Entries(text) = handed

\* The section of an entry is that of the lines behind it.
LEMMA SectionHere ==
  ASSUME NEW lines, NEW n \in Nat, Len(lines) = n, NEW p \in 1 .. n, Current(lines, p)
  PROVE  SectionOf(lines, n + 1) = SectionOf(lines, p)
<1> DEFINE S == {k \in Nat : p + k <= n + 1 => SectionOf(lines, p + k) = SectionOf(lines, p)}
<1>1. \A r \in p .. n : ~ IsSection(lines[r])
  <2>1. ASSUME NEW r \in p .. n PROVE ~ IsSection(lines[r])
    <3>1. r = p \/ r \in p + 1 .. n
      OBVIOUS
    <3> QED  BY <3>1 DEF Current, IsEntry, IsSection, IsIndented
  <2> QED  BY <2>1
<1>2. 0 \in S
  <2>1. p + 0 = p
    OBVIOUS
  <2> QED  BY <2>1
<1>3. ASSUME NEW k \in S PROVE k + 1 \in S
  <2> SUFFICES ASSUME p + (k + 1) <= n + 1
               PROVE  SectionOf(lines, p + (k + 1)) = SectionOf(lines, p)
    OBVIOUS
  <2> DEFINE q == p + k
  <2>1. q \in Nat \ {0} /\ q \in p .. n /\ q + 1 = p + (k + 1) /\ q <= n + 1
    OBVIOUS
  <2>2. SectionOf(lines, q) = SectionOf(lines, p)
    BY <2>1
  <2>3. SectionOf(lines, q + 1) = SectionOf(lines, q)
    <3> HIDE DEF q
    <3> QED  BY <1>1, <2>1, SectionBehind
  <2> QED  BY <2>1, <2>2, <2>3
<1>4. n + 1 - p \in S
  <2>1. S \in SUBSET Nat /\ n + 1 - p \in Nat
    OBVIOUS
  <2> HIDE DEF S
  <2> QED  BY <1>2, <1>3, <2>1, Induction
<1>5. p + (n + 1 - p) = n + 1 /\ n + 1 <= n + 1
  OBVIOUS
<1> QED  BY <1>4, <1>5

\* The buffers hold the entry that is being collected.
LEMMA EntryHeld ==
  ASSUME TidyLines, ReadInv, status = "run", NEW p \in 1 .. Len(text), Collecting(p)
  PROVE  LET x == <<StringAt(section), StringAt(key), StringAt(value)>>
         IN  x = Entry(text, p) /\ x \in Triple
<1> DEFINE x == <<StringAt(section), StringAt(key), StringAt(value)>>
           n == Len(text)
<1>1. /\ Written(section, KEY_BUF_SIZE, SectionOf(text, n + 1))
      /\ Written(key, KEY_BUF_SIZE, KeyIn(text[p]))
      /\ Written(value, VALUE_BUF_SIZE, ValueOf(text, p)) /\ Current(text, p)
  BY DEF ReadInv, Collecting
<1>2. KEY_BUF_SIZE \in Nat /\ VALUE_BUF_SIZE \in Nat /\ KEY_BUF_SIZE <= VALUE_BUF_SIZE
  BY IniAssumption DEF TidyLines
<1>3. VALUE_BUF_SIZE <= VALUE_BUF_SIZE
  BY <1>2
<1>4. /\ StringAt(section) = SectionOf(text, n + 1) /\ StringAt(key) = KeyIn(text[p])
      /\ StringAt(value) = ValueOf(text, p)
  BY <1>1, <1>2, <1>3, StringIs
<1>5. SectionOf(text, n + 1) = SectionOf(text, p)
  <2>1. n \in Nat
    BY LenProperties DEF ReadInv, Inv
  <2> QED  BY <1>1, <2>1, SectionHere
<1>6. x = Entry(text, p)
  BY <1>4, <1>5 DEF Entry
<1>7. x \in Triple
  BY <1>1, <1>4 DEF Written, Triple
<1> QED  BY <1>6, <1>7

\* What is handed over is the entry that was collected.
LEMMA HandsOver ==
  ASSUME TidyLines, ReadInv, status = "run", Handle
  PROVE  handed' = Entries(text) /\ handed' \in Seq(Triple) /\ task' = TaskOf(handed')
<1>1. CASE mode # "VALUE"
  BY <1>1 DEF ReadInv, Handle
<1>2. CASE mode = "VALUE"
  <2> DEFINE x == <<StringAt(section), StringAt(key), StringAt(value)>>
  <2>1. PICK p \in 1 .. Len(text) : Collecting(p)
    BY <1>2 DEF ReadInv
  <2>2. x = Entry(text, p) /\ x \in Triple
    BY <2>1, EntryHeld
  <2>3. handed' = Append(handed, x) /\ task' = workspace_task_get(x[1], x[2], x[3])
    BY <1>2 DEF Handle
  <2>4. handed \in Seq(Triple) /\ task = TaskOf(handed)
    BY DEF ReadInv
  <2> HIDE DEF x
  <2>5. handed' = Entries(text)
    <3>1. Current(text, p) /\ EntriesUpTo(text)[p - 1] = handed /\ text \in Seq(Line)
      BY <2>1 DEF Collecting, ReadInv, Inv
    <3>2. Entries(text) = Append(EntriesUpTo(text)[p - 1], Entry(text, p))
      BY <3>1, LastEntry DEF Current
    <3> QED  BY <2>2, <2>3, <3>1, <3>2
  <2>6. handed' \in Seq(Triple)
    BY <2>2, <2>3, <2>4, AppendProperties
  <2>7. task' = TaskOf(handed')
    BY <2>2, <2>3, <2>4, HandlerCollects
  <2> QED  BY <2>5, <2>6, <2>7
<1> QED  BY <1>1, <1>2

\* A line is read when there is room for one in the file.
LEMMA RoomForLine ==
  ASSUME TidyLines, ReadInv, NEW t \in Unread, ReadLine(t)
  PROVE  /\ t \in Line /\ line' = fgets(t) /\ text' = Append(text, t) /\ status = "run"
         /\ text \in Seq(Line) /\ Len(text) \in Nat /\ Len(text') = Len(text) + 1
         /\ Len(text') <= MAX_LINES
         /\ ChunkLen(t) = Len(t)
<1>1. WholeLines /\ Inv
  BY DEF TidyLines, ReadInv
<1>2. t \in Line /\ line' = fgets(t) /\ text' = Append(text, t) /\ status = "run"
  BY <1>1, ReadWhole
<1>3. text \in Seq(Line) /\ rest = <<>>
  BY <1>1 DEF Inv
<1>4. Len(text) \in Nat /\ Len(text') = Len(text) + 1
  BY <1>2, <1>3, OneMore
<1>5. Len(text) # MAX_LINES /\ Len(text) <= MAX_LINES /\ MAX_LINES \in Nat
  BY <1>3, IniAssumption DEF Unread, ReadInv
<1>6. ChunkLen(t) = Len(t)
  BY <1>1, <1>2 DEF ChunkLen, WholeLines
<1> QED  BY <1>2, <1>3, <1>4, <1>5, <1>6

\* The section behind one more line.
LEMMA SectionNext ==
  ASSUME NEW lines \in Seq(Line), NEW t \in Line
  PROVE  SectionOf(Append(lines, t), Len(lines) + 2) =
           IF IsSection(t) THEN NameIn(t) ELSE SectionOf(lines, Len(lines) + 1)
<1> DEFINE n == Len(lines)
           p == n + 1
           more == Append(lines, t)
<1>1. n \in Nat /\ more[n + 1] = t
  BY OneMore
<1>2. p \in Nat \ {0} /\ p + 1 = n + 2 /\ p \in 1 .. n + 1 /\ more[p] = t
  BY <1>1
<1> HIDE DEF p, more
<1>3. SectionOf(more, p + 1) = IF IsSection(t) THEN NameIn(t) ELSE SectionOf(more, p)
  BY <1>2, SectionBehind
<1>4. SectionOf(more, p) = SectionOf(lines, p)
  BY <1>2, SectionAppend DEF more
<1> QED  BY <1>2, <1>3, <1>4 DEF p, more

\* A line that is neither indented nor an entry.
LEMMA PlainRead ==
  ASSUME TidyLines, ReadInv, NEW t \in Unread, ReadLine(t), Handle, Inv', status' = status,
         ~ IsIndented(t), ~ IsEntry(t),
         mode' \in {"STARTLINE", "SECTION", "KEY"},
         save_loc' \in 0 .. LINE_BUF_SIZE, value_loc' \in 0 .. VALUE_BUF_SIZE - 1,
         key' = key, value' = value,
         IF IsSection(t) THEN Written(section', KEY_BUF_SIZE, NameIn(t)) ELSE section' = section
  PROVE  ReadInv'
<1>1. /\ t \in Line /\ line' = fgets(t) /\ text' = Append(text, t) /\ status = "run"
      /\ text \in Seq(Line) /\ Len(text) \in Nat /\ Len(text') = Len(text) + 1
      /\ Len(text') <= MAX_LINES
  BY RoomForLine
<1>2. handed' = Entries(text) /\ handed' \in Seq(Triple) /\ task' = TaskOf(handed')
  BY <1>1, HandsOver
<1>3. Entries(text') = handed'
  BY <1>1, <1>2, EntriesAppend
<1>4. SectionOf(text', Len(text') + 1) =
        IF IsSection(t) THEN NameIn(t) ELSE SectionOf(text, Len(text) + 1)
  <2>1. Len(text') + 1 = Len(text) + 2
    BY <1>1
  <2> QED  BY <1>1, <2>1, SectionNext
<1>5. Written(section', KEY_BUF_SIZE, SectionOf(text', Len(text') + 1))
  BY <1>1, <1>4 DEF ReadInv
<1>6. DOMAIN section' = - KEY_BUF_SIZE .. KEY_BUF_SIZE - 1
  BY <1>5 DEF Written
<1>7. mode' \in {"STARTLINE", "SECTION", "KEY", "VALUE"} /\ mode' # "VALUE"
  OBVIOUS
<1>8. DOMAIN key' = - KEY_BUF_SIZE .. KEY_BUF_SIZE - 1 /\ DOMAIN value' = - VALUE_BUF_SIZE .. VALUE_BUF_SIZE - 1
  BY DEF ReadInv
<1>9. TaskOf(handed') = TaskOf(handed)'
  BY DEF TaskOf, LastOf, Environment, EnvironmentUpTo
<1> QED  BY <1>1, <1>2, <1>3, <1>5, <1>6, <1>7, <1>8, <1>9 DEF ReadInv

-----------------------------------------------------------------------------
\* An empty line hands over the entry before it.
LEMMA BlankReads ==
  ASSUME TidyLines, ReadInv, NEW t \in Unread, BlankLine(t)
  PROVE  ReadInv'
<1>1. WholeLines /\ Inv /\ LINE_BUF_SIZE \in Nat /\ VALUE_BUF_SIZE \in Nat /\ VALUE_BUF_SIZE # 0
  BY IniAssumption DEF TidyLines, ReadInv
<1>2. Inv'
  BY <1>1, BlankKeeps
<1>3. ReadLine(t) /\ Handle /\ status' = status /\ t[1] = NL /\ section' = section /\ key' = key /\ value' = value
  BY Zenon DEF BlankLine
<1>4. ~ IsIndented(t) /\ ~ IsEntry(t) /\ ~ IsSection(t)
  BY <1>3 DEF IsIndented, IsEntry, IsSection, NL
<1>5. mode' = "STARTLINE" /\ save_loc' = 0 /\ value_loc' = 0
  <2>1. mode # "MULTILINE"
    BY <1>1, <1>3, ValueMode
  <2> QED  BY <2>1, Zenon DEF BlankLine, StartLine
<1>6. save_loc' \in 0 .. LINE_BUF_SIZE /\ value_loc' \in 0 .. VALUE_BUF_SIZE - 1
  BY <1>1, <1>5
<1> QED  BY <1>2, <1>3, <1>4, <1>5, <1>6, PlainRead

\* A header hands over the entry before it, and a closed one names the section.
LEMMA SectionReads ==
  ASSUME TidyLines, ReadInv, NEW t \in Unread, NEW under \in 0 .. 1, SectionLine(t, under)
  PROVE  ReadInv'
<1> DEFINE e == "]"
           close == First(Stops(line', {e, NUL}))
           copied == copy_to_buf(line', trimmed_start(line', 1), trimmed_end(line', close - 1, under),
                                 section, 0)
<1>1. /\ WholeLines /\ Inv /\ LINE_BUF_SIZE \in Nat /\ LINE_BUF_SIZE > 0 /\ VALUE_BUF_SIZE \in Nat
      /\ VALUE_BUF_SIZE # 0 /\ KEY_BUF_SIZE \in Nat
  BY IniAssumption DEF TidyLines, ReadInv
<1>2. Inv'
  BY <1>1, SectionKeeps
<1>3. /\ ReadLine(t) /\ Handle /\ status' = status /\ t[1] = "[" /\ key' = key /\ value' = value
      /\ value_loc' = 0
  BY Zenon DEF SectionLine
<1>4. ~ IsIndented(t) /\ ~ IsEntry(t)
  BY <1>3 DEF IsIndented, IsEntry
<1>5. FirstFrom(line', 1, LAMBDA c : c \in {e, NUL}) = close
  BY DEF FirstFrom, First, Stops
<1>6. IF line'[close] = e
      THEN section' = copied.out /\ mode' = "STARTLINE" /\ save_loc' = 0
      ELSE mode' = "SECTION" /\ save_loc' = 1 /\ section' = section
  BY <1>5, Zenon DEF SectionLine, copy_trimmed_to_buf
<1>7. t \in Line /\ line' = fgets(t) /\ e # NUL
  BY <1>3, RoomForLine DEF NUL
<1>8. line'[close] = e <=> IsSection(t)
  <2>1. IsSection(t) <=> Position(t, e) # {}
    BY <1>3 DEF IsSection
  <2> HIDE DEF e
  <2> QED  BY <1>1, <1>7, <2>1, CharacterFound
<1>9. ASSUME IsSection(t) PROVE Written(copied.out, KEY_BUF_SIZE, NameIn(t))
  <2>1. Spans(line', trimmed_start(line', 1), trimmed_end(line', close - 1, under), NameIn(t))
    BY <1>7, <1>9, NameCopied
  <2>2. Len(NameIn(t)) < KEY_BUF_SIZE
    BY <1>7, <1>9 DEF TidyLines
  <2>3. DOMAIN section = - KEY_BUF_SIZE .. KEY_BUF_SIZE - 1
    BY DEF ReadInv
  <2> HIDE DEF close
  <2> QED  BY <1>1, <2>1, <2>2, <2>3, CopyStart
<1> HIDE DEF close, copied
<1>10. IF IsSection(t) THEN Written(section', KEY_BUF_SIZE, NameIn(t)) ELSE section' = section
  BY <1>6, <1>8, <1>9
<1>11. mode' \in {"STARTLINE", "SECTION", "KEY"} /\ save_loc' \in {0, 1}
  BY <1>6
<1>12. save_loc' \in 0 .. LINE_BUF_SIZE /\ value_loc' \in 0 .. VALUE_BUF_SIZE - 1
  BY <1>1, <1>3, <1>11
<1> QED  BY <1>2, <1>3, <1>4, <1>10, <1>11, <1>12, PlainRead

\* A comment outside a value changes nothing.
LEMMA CommentReads ==
  ASSUME TidyLines, ReadInv, NEW t \in Unread, NEW under \in 0 .. 1, CommentLine(t, under)
  PROVE  ReadInv'
<1>1. WholeLines /\ Inv /\ COMMENT_AFTER_VALUE = FALSE
  BY DEF TidyLines, ReadInv
<1>2. Inv'
  BY <1>1, CommentKeeps
<1>3. /\ ReadLine(t) /\ Handle /\ status' = status /\ t[1] = "#" /\ mode # "VALUE" /\ mode' = mode
      /\ section' = section /\ key' = key /\ save_loc' = save_loc
  BY <1>1, Zenon DEF CommentLine
<1>4. value' = value /\ value_loc' = value_loc
  BY <1>3, Zenon DEF CommentLine
<1>5. ~ IsIndented(t) /\ ~ IsEntry(t) /\ ~ IsSection(t)
  BY <1>3 DEF IsIndented, IsEntry, IsSection
<1>6. mode' \in {"STARTLINE", "SECTION", "KEY"}
  BY <1>3 DEF ReadInv
<1>7. save_loc' \in 0 .. LINE_BUF_SIZE /\ value_loc' \in 0 .. VALUE_BUF_SIZE - 1
  BY <1>3, <1>4 DEF ReadInv
<1> QED  BY <1>2, <1>3, <1>4, <1>5, <1>6, <1>7, PlainRead

\* The value of an entry of the file fits its buffer.
LEMMA ValueFits ==
  ASSUME TidyLines, NEW lines \in Seq(Line), Len(lines) <= MAX_LINES,
         NEW p \in 1 .. Len(lines), IsEntry(lines[p])
  PROVE  Len(ValueOf(lines, p)) < VALUE_BUF_SIZE
<1>1. Len(lines) \in Nat /\ lines \in [1 .. Len(lines) -> Line] /\ MAX_LINES \in Nat
  BY LenProperties, IniAssumption
<1>2. Len(lines) \in 1 .. MAX_LINES
  BY <1>1
<1> QED  BY <1>1, <1>2 DEF TidyLines

\* A line with a key: a new entry when there is an equals sign behind it.
LEMMA KeyReads ==
  ASSUME TidyLines, ReadInv, NEW t \in Unread, NEW under \in 0 .. 1, KeyLine(t, under)
  PROVE  ReadInv'
<1> DEFINE e == "="
           equals == First(Stops(line', {e, NUL}))
           key_copied == copy_to_buf(line', trimmed_start(line', 0),
                                     trimmed_end(line', equals - 1, under), key, 0)
           copied == copy_to_buf(line', trimmed_start(line', equals + 1),
                                 trimmed_end(line', Len(t) - 1, under), value, 0)
           n == Len(text)
<1>1. /\ WholeLines /\ Inv /\ LINE_BUF_SIZE \in Nat /\ VALUE_BUF_SIZE \in Nat
      /\ VALUE_BUF_SIZE # 0 /\ KEY_BUF_SIZE \in Nat
  BY IniAssumption DEF TidyLines, ReadInv
<1>2. Inv'
  BY <1>1, KeyKeeps
<1>3. /\ ReadLine(t) /\ Handle /\ status' = status /\ t[1] \notin {NL, " ", "[", "#"}
      /\ section' = section
  BY Zenon DEF KeyLine
<1>4. ~ IsIndented(t) /\ ~ IsSection(t) /\ (IsEntry(t) <=> Position(t, e) # {})
  BY <1>3 DEF IsIndented, IsEntry, IsSection
<1>5. FirstFrom(line', 1, LAMBDA c : c \in {e, NUL}) = equals
  BY DEF FirstFrom, First, Stops
<1>6. /\ t \in Line /\ line' = fgets(t) /\ text' = Append(text, t) /\ status = "run"
      /\ text \in Seq(Line) /\ n \in Nat /\ Len(text') = n + 1
      /\ Len(text') <= MAX_LINES /\ ChunkLen(t) = Len(t)
  BY <1>3, RoomForLine
<1>7. IF line'[equals] = e
      THEN /\ key' = key_copied.out /\ mode' = "VALUE" /\ save_loc' = equals + 1
           /\ value' = copied.out /\ value_loc' = copied.loc
      ELSE mode' = "KEY" /\ save_loc' = 0 /\ value_loc' = 0 /\ key' = key /\ value' = value
  BY <1>5, <1>6, Zenon DEF KeyLine, CopyValue, copy_trimmed_to_buf
<1>8. line'[equals] = e <=> IsEntry(t)
  <2>1. e # NUL
    BY DEF NUL
  <2> HIDE DEF e
  <2> QED  BY <1>1, <1>4, <1>6, <2>1, CharacterFound
<1>9. CASE ~ IsEntry(t)
  <2>1. mode' = "KEY" /\ save_loc' = 0 /\ value_loc' = 0 /\ key' = key /\ value' = value
    BY <1>7, <1>8, <1>9
  <2>2. mode' \in {"STARTLINE", "SECTION", "KEY"} /\ save_loc' \in 0 .. LINE_BUF_SIZE
        /\ value_loc' \in 0 .. VALUE_BUF_SIZE - 1
    BY <1>1, <2>1
  <2> QED  BY <1>2, <1>3, <1>4, <1>9, <2>1, <2>2, PlainRead
<1>10. CASE IsEntry(t)
  <2> DEFINE more == Append(text, t)
  <2>0. PICK p \in Nat : p = n + 1
    BY <1>6
  <2>1. /\ Spans(line', trimmed_start(line', 0), trimmed_end(line', equals - 1, under), KeyIn(t))
        /\ Spans(line', trimmed_start(line', equals + 1), trimmed_end(line', Len(t) - 1, under),
                 FirstPart(t))
        /\ equals \in 1 .. Len(t) - 1
    BY <1>1, <1>6, <1>10, KeyCopied, FirstPartCopied
  <2>2. more \in Seq(Line) /\ more[p] = t /\ Len(more) = p /\ p \in 1 .. Len(more)
    <3>1. more \in Seq(Line) /\ more[n + 1] = t /\ Len(more) = n + 1
      BY <1>6, OneMore
    <3> QED  BY <1>6, <2>0, <3>1
  <2>3. /\ ValueOf(more, p) = FirstPart(t)
        /\ Entry(more, p) = <<SectionOf(text, p), KeyIn(t), FirstPart(t)>>
    BY <1>6, <2>0, NewEntry
  <2>4. Len(ValueOf(more, p)) < VALUE_BUF_SIZE
    <3>1. Len(more) <= MAX_LINES /\ IsEntry(more[p])
      BY <1>6, <1>10, <2>2
    <3> HIDE DEF more
    <3> QED  BY <2>2, <3>1, ValueFits
  <2>5. /\ DOMAIN key = - KEY_BUF_SIZE .. KEY_BUF_SIZE - 1
        /\ DOMAIN value = - VALUE_BUF_SIZE .. VALUE_BUF_SIZE - 1
        /\ Len(KeyIn(t)) < KEY_BUF_SIZE
    BY <1>6, <1>10 DEF ReadInv, TidyLines
  <2>6. Written(key_copied.out, KEY_BUF_SIZE, KeyIn(t))
    <3> HIDE DEF equals
    <3> QED  BY <1>1, <2>1, <2>5, CopyStart
  <2>7. Written(copied.out, VALUE_BUF_SIZE, FirstPart(t)) /\ copied.loc = Len(FirstPart(t))
    <3> HIDE DEF equals
    <3> QED  BY <1>1, <2>1, <2>3, <2>4, <2>5, CopyStart, SMTT(30)
  <2> HIDE DEF equals, copied, key_copied
  <2>8. /\ key' = key_copied.out /\ mode' = "VALUE" /\ save_loc' = equals + 1
        /\ value' = copied.out /\ value_loc' = copied.loc
    BY <1>7, <1>8, <1>10
  <2>9. handed' = Entries(text) /\ handed' \in Seq(Triple) /\ task' = TaskOf(handed')
    BY <1>3, <1>6, HandsOver
  <2>10. EntriesUpTo(more)[p - 1] = handed'
    <3>1. p - 1 = n
      BY <1>6, <2>0
    <3> QED  BY <1>4, <1>6, <2>9, <3>1, EntriesAppend
  <2>11. Current(more, p)
    BY <1>10, <2>2 DEF Current
  <2>12. Collecting(p)'
    BY <1>6, <2>2, <2>3, <2>6, <2>7, <2>8, <2>10, <2>11 DEF Collecting
  <2>13. SectionOf(text', Len(text') + 1) = SectionOf(text, n + 1)
    <3>1. Len(text') + 1 = n + 2
      BY <1>6
    <3> QED  BY <1>4, <1>6, <3>1, SectionNext
  <2>14. /\ Written(section', KEY_BUF_SIZE, SectionOf(text', Len(text') + 1))
         /\ DOMAIN section' = - KEY_BUF_SIZE .. KEY_BUF_SIZE - 1
    BY <1>3, <1>6, <2>13 DEF ReadInv
  <2>15. /\ DOMAIN key' = - KEY_BUF_SIZE .. KEY_BUF_SIZE - 1
         /\ DOMAIN value' = - VALUE_BUF_SIZE .. VALUE_BUF_SIZE - 1
    BY <2>6, <2>7, <2>8 DEF Written
  <2>16. save_loc' \in 0 .. LINE_BUF_SIZE /\ value_loc' \in 0 .. VALUE_BUF_SIZE - 1
    <3>1. Len(t) \in Nat /\ Len(t) < LINE_BUF_SIZE
      BY <1>1, <1>6, LineRead
    <3>2. Len(FirstPart(t)) \in Nat
      BY <2>7, LenProperties DEF Written, Txt
    <3> QED  BY <1>1, <2>1, <2>3, <2>4, <2>7, <2>8, <3>1, <3>2
  <2>17. mode' \in {"STARTLINE", "SECTION", "KEY", "VALUE"} /\ mode' = "VALUE" /\ status' = "run"
    BY <1>3, <1>6, <2>8
  <2>18. TaskOf(handed') = TaskOf(handed)'
    BY DEF TaskOf, LastOf, Environment, EnvironmentUpTo
  <2>19. \E q \in 1 .. Len(text') : Collecting(q)'
    BY <1>6, <2>2, <2>12
  <2> HIDE DEF more
  <2> QED  BY <1>2, <1>6, <2>9, <2>14, <2>15, <2>16, <2>17, <2>18, <2>19 DEF ReadInv
<1> QED  BY <1>9, <1>10

\* An indented line behind an entry.
LEMMA ContinuedReads ==
  ASSUME TidyLines, ReadInv, NEW t \in Unread, NEW under \in 0 .. 1, ContinuedLine(t, under)
  PROVE  ReadInv'
<1> DEFINE sp == " "
           first == First(Solid(line', sp))
           start == IF first > 1 THEN first - 1 ELSE 1
           copied == copy_to_buf(line', trimmed_start(line', start),
                                 trimmed_end(line', Len(t) - 1, under), value, value_loc)
           n == Len(text)
           more == Append(text, t)
<1>1. /\ WholeLines /\ Inv /\ LINE_BUF_SIZE \in Nat /\ VALUE_BUF_SIZE \in Nat
  BY IniAssumption DEF TidyLines, ReadInv
<1>2. Inv'
  BY <1>1, ContinuedKeeps
<1>3. /\ ReadLine(t) /\ status' = status /\ t[1] = sp /\ mode = "VALUE"
      /\ section' = section /\ key' = key /\ task' = task /\ handed' = handed
  BY Zenon DEF ContinuedLine
<1>4. FirstFrom(line', 1, LAMBDA c : ~ is_space(c)) = first
  BY DEF FirstFrom, First, Solid, is_space
<1>5. /\ t \in Line /\ line' = fgets(t) /\ text' = Append(text, t) /\ status = "run"
      /\ text \in Seq(Line) /\ n \in Nat /\ Len(text') = n + 1
      /\ Len(text') <= MAX_LINES /\ ChunkLen(t) = Len(t)
  BY <1>3, RoomForLine
<1>6. IsIndented(t) /\ ~ IsSection(t)
  BY <1>3 DEF IsIndented, IsSection
<1>7. /\ line'[first] # NUL /\ start \in 1 .. Len(t)
      /\ Spans(line', trimmed_start(line', start), trimmed_end(line', Len(t) - 1, under),
               Trimmed(Body(t)))
  BY <1>5, <1>6, PartCopied
<1>8. save_loc' = start
  BY <1>4, Zenon DEF ContinuedLine
<1>9. mode' = "VALUE" /\ value' = copied.out /\ value_loc' = copied.loc
  <2>1. mode' = "VALUE" /\ CopyValue(save_loc', ChunkLen(t) - 1, value_loc, under)
    BY <1>4, <1>7, Zenon DEF ContinuedLine
  <2> QED  BY <1>5, <1>8, <2>1 DEF CopyValue, copy_trimmed_to_buf
<1> HIDE DEF first, start
<1>10. PICK p \in 1 .. n : Collecting(p)
  BY <1>3, <1>5 DEF ReadInv
<1>11. /\ Current(text, p) /\ Written(key, KEY_BUF_SIZE, KeyIn(text[p]))
       /\ Written(value, VALUE_BUF_SIZE, ValueOf(text, p)) /\ value_loc = Len(ValueOf(text, p))
       /\ EntriesUpTo(text)[p - 1] = handed
  BY <1>10 DEF Collecting
<1>12. /\ EntriesUpTo(more)[p - 1] = EntriesUpTo(text)[p - 1]
       /\ Entry(more, p) = <<SectionOf(text, p), KeyIn(text[p]), ValueOf(more, p)>>
       /\ ValueOf(more, p) = Joined(ValueOf(text, p), Trimmed(Body(t)))
  BY <1>5, <1>6, <1>11, EntryLonger DEF Current
<1>13. /\ more \in Seq(Line) /\ Len(more) = n + 1 /\ more[n + 1] = t
       /\ \A j \in 1 .. n : more[j] = text[j]
  BY <1>5, OneMore
<1>14. Current(more, p) /\ p \in 1 .. Len(more) /\ more[p] = text[p]
  <2>1. p \in 1 .. Len(more) /\ more[p] = text[p] /\ IsEntry(more[p])
    BY <1>5, <1>11, <1>13 DEF Current
  <2>2. ASSUME NEW r \in p + 1 .. Len(more) PROVE IsIndented(more[r])
    <3>1. r = n + 1 \/ (r \in p + 1 .. n /\ r \in 1 .. n)
      BY <1>5, <1>13
    <3> QED  BY <1>6, <1>11, <1>13, <3>1 DEF Current
  <2> QED  BY <2>1, <2>2 DEF Current
<1>15. Len(ValueOf(more, p)) < VALUE_BUF_SIZE
  <2>1. Len(more) <= MAX_LINES /\ IsEntry(more[p])
    BY <1>5, <1>14 DEF Current
  <2> HIDE DEF more
  <2> QED  BY <1>13, <1>14, <2>1, ValueFits
<1>16. Written(copied.out, VALUE_BUF_SIZE, ValueOf(more, p)) /\ copied.loc = Len(ValueOf(more, p))
  BY <1>1, <1>7, <1>11, <1>12, <1>15, CopyJoins
<1>17. Collecting(p)'
  BY <1>3, <1>5, <1>9, <1>11, <1>12, <1>14, <1>16 DEF Collecting
<1>18. SectionOf(text', Len(text') + 1) = SectionOf(text, n + 1)
  <2>1. Len(text') + 1 = n + 2
    BY <1>5
  <2> QED  BY <1>5, <1>6, <2>1, SectionNext
<1>19. /\ Written(section', KEY_BUF_SIZE, SectionOf(text', Len(text') + 1))
       /\ DOMAIN section' = - KEY_BUF_SIZE .. KEY_BUF_SIZE - 1
       /\ DOMAIN key' = - KEY_BUF_SIZE .. KEY_BUF_SIZE - 1
  BY <1>3, <1>5, <1>18 DEF ReadInv
<1>20. DOMAIN value' = - VALUE_BUF_SIZE .. VALUE_BUF_SIZE - 1
  BY <1>9, <1>16 DEF Written
<1>21. save_loc' \in 0 .. LINE_BUF_SIZE /\ value_loc' \in 0 .. VALUE_BUF_SIZE - 1
  <2>1. Len(t) \in Nat /\ Len(t) < LINE_BUF_SIZE
    BY <1>1, <1>5, LineRead
  <2>2. Len(ValueOf(more, p)) \in Nat
    BY <1>16, LenProperties DEF Written, Txt
  <2> QED  BY <1>1, <1>7, <1>8, <1>9, <1>15, <1>16, <2>1, <2>2
<1>22. handed' \in Seq(Triple) /\ task' = TaskOf(handed')
  BY <1>3 DEF ReadInv
<1>23. TaskOf(handed') = TaskOf(handed)'
  BY DEF TaskOf, LastOf, Environment, EnvironmentUpTo
<1>24. \E q \in 1 .. Len(text') : Collecting(q)'
  BY <1>5, <1>14, <1>17
<1>25. mode' \in {"STARTLINE", "SECTION", "KEY", "VALUE"} /\ mode' = "VALUE" /\ status' = "run"
  BY <1>3, <1>5, <1>9
<1> HIDE DEF more, copied
<1> QED  BY <1>2, <1>5, <1>19, <1>20, <1>21, <1>22, <1>23, <1>24, <1>25 DEF ReadInv

\* The line that is rejected changes nothing but the status.
LEMMA StrayReads ==
  ASSUME TidyLines, ReadInv, NEW t \in Unread, StrayIndent(t)
  PROVE  ReadInv'
<1>1. WholeLines /\ Inv
  BY DEF TidyLines, ReadInv
<1>2. Inv'
  BY <1>1, StrayKeeps
<1>3. /\ ReadLine(t) /\ status' = "INVALID" /\ section' = section /\ key' = key /\ value' = value
      /\ value_loc' = value_loc /\ save_loc' = save_loc /\ mode' = mode /\ task' = task
      /\ handed' = handed
  BY Zenon DEF StrayIndent
<1>4. Len(text') <= MAX_LINES
  BY <1>3, RoomForLine
<1>5. TaskOf(handed)' = TaskOf(handed)
  BY <1>3 DEF TaskOf, LastOf, Environment, EnvironmentUpTo
<1> QED  BY <1>2, <1>3, <1>4, <1>5 DEF ReadInv

\* At the end of the file the last entry is handed over.
LEMMA EndReads ==
  ASSUME TidyLines, ReadInv, EndOfFile
  PROVE  ReadInv'
<1>1. Inv'
  BY EndKeeps DEF ReadInv
<1>2. /\ status = "run" /\ Handle /\ status' = "OK" /\ section' = section /\ key' = key
      /\ value' = value /\ value_loc' = value_loc /\ save_loc' = save_loc /\ mode' = mode
      /\ text' = text
  BY Zenon DEF EndOfFile
<1>3. handed' = Entries(text) /\ handed' \in Seq(Triple) /\ task' = TaskOf(handed')
  BY <1>2, HandsOver
<1>4. Entries(text)' = Entries(text)
  BY <1>2 DEF Entries
<1>5. TaskOf(handed)' = TaskOf(handed')
  BY DEF TaskOf, LastOf, Environment, EnvironmentUpTo
<1> QED  BY <1>1, <1>2, <1>3, <1>4, <1>5 DEF ReadInv

-----------------------------------------------------------------------------
\* Nothing is read yet, and nothing is in the buffers.
LEMMA ReadInit ==
  ASSUME Init
  PROVE  ReadInv
<1>1. Inv
  BY InitInv
<1>2. /\ text = <<>> /\ handed = <<>> /\ status = "run" /\ mode = "STARTLINE"
      /\ value_loc = 0 /\ save_loc = 0 /\ task = NoTask
      /\ section = Zeroed(KEY_BUF_SIZE) /\ key = Zeroed(KEY_BUF_SIZE)
      /\ value = Zeroed(VALUE_BUF_SIZE)
  BY DEF Init
<1>3. /\ MAX_LINES \in Nat /\ LINE_BUF_SIZE \in Nat /\ KEY_BUF_SIZE \in Nat \ {0}
      /\ VALUE_BUF_SIZE \in Nat \ {0}
  BY IniAssumption
<1>4. Len(<<>>) = 0 /\ <<>> \in Txt /\ <<>> \in Seq(Triple)
  BY EmptySeq DEF Txt
<1>5. SectionOf(<<>>, Len(<<>>) + 1) = <<>>
  <2>1. 1 .. (0 + 1) - 1 = {}
    OBVIOUS
  <2> QED  BY <1>4, <2>1 DEF SectionOf
<1>6. Entries(<<>>) = <<>>
  BY <1>4, EntriesDefined DEF Entries
<1>7. TaskOf(<<>>) = NoTask
  <2>1. Environment(<<>>) = <<>>
    BY <1>4, EnvironmentDefined DEF Environment
  <2>2. ASSUME NEW k PROVE LastOf(<<>>, k) = {}
    <3>1. 1 .. 0 = {}
      OBVIOUS
    <3> QED  BY <1>4, <3>1 DEF LastOf
  <2> QED  BY <2>1, <2>2 DEF TaskOf, NoTask
<1>8. \A size \in Nat \ {0} : /\ DOMAIN Zeroed(size) = - size .. size - 1
                              /\ Zeroed(size)[0] = NUL
  BY DEF Zeroed
<1>9. Written(section, KEY_BUF_SIZE, <<>>)
  <2>1. Len(<<>>) < KEY_BUF_SIZE
    BY <1>3, <1>4
  <2>2. \A k \in 1 .. Len(<<>>) : FALSE
    BY <1>4
  <2> QED  BY <1>2, <1>3, <1>4, <1>8, <2>1, <2>2 DEF Written
<1>10. save_loc \in 0 .. LINE_BUF_SIZE /\ value_loc \in 0 .. VALUE_BUF_SIZE - 1 /\ Len(text) <= MAX_LINES
  BY <1>2, <1>3, <1>4
<1> QED  BY <1>1, <1>2, <1>3, <1>4, <1>5, <1>6, <1>7, <1>8, <1>9, <1>10 DEF ReadInv

\* One step for each kind of line.
LEMMA ReadNext ==
  ASSUME TidyLines, ReadInv, [Next]_vars
  PROVE  ReadInv'
<1>1. CASE UNCHANGED vars
  <2>1. /\ line' = line /\ section' = section /\ key' = key /\ value' = value
        /\ value_loc' = value_loc /\ save_loc' = save_loc /\ mode' = mode /\ status' = status
        /\ rest' = rest /\ task' = task /\ text' = text /\ handed' = handed
    BY <1>1 DEF vars
  <2>2. Inv'
    BY <2>1 DEF ReadInv, Inv, Stray, InEntry
  <2>3. Entries(text)' = Entries(text) /\ TaskOf(handed)' = TaskOf(handed)
        /\ SectionOf(text, Len(text) + 1)' = SectionOf(text, Len(text) + 1)
    BY <2>1 DEF Entries, TaskOf, LastOf, Environment, EnvironmentUpTo
  <2>4. ASSUME NEW p, Collecting(p) PROVE Collecting(p)'
    BY <2>1, <2>4 DEF Collecting, Current
  <2> QED  BY <2>1, <2>2, <2>3, <2>4 DEF ReadInv
<1>2. CASE EndOfFile
  BY <1>2, EndReads
<1>3. ASSUME NEW t \in Unread, BlankLine(t) \/ StrayIndent(t)
      PROVE  ReadInv'
  BY <1>3, BlankReads, StrayReads
<1>4. ASSUME NEW t \in Unread, NEW under \in 0 .. 1,
             SectionLine(t, under) \/ CommentLine(t, under)
               \/ KeyLine(t, under) \/ ContinuedLine(t, under)
      PROVE  ReadInv'
  BY <1>4, SectionReads, CommentReads, KeyReads, ContinuedReads
<1> QED  BY <1>1, <1>2, <1>3, <1>4 DEF Next

\* What the handler has seen and the entry in the buffers are the entries of the file.
LEMMA ReadHandsOver ==
  ASSUME TidyLines, ReadInv
  PROVE  HandsOverFile
<1> DEFINE x == <<StringAt(section), StringAt(key), StringAt(value)>>
<1> SUFFICES ASSUME status # "INVALID"
             PROVE  Entries(text) = handed \o (IF Open THEN <<x>> ELSE <<>>)
  BY DEF HandsOverFile
<1>1. handed \in Seq(Triple)
  BY DEF ReadInv
<1>2. CASE ~ Open
  <2>1. Entries(text) = handed
    BY <1>2 DEF ReadInv, Inv, Open
  <2>2. handed \o <<>> = handed
    BY <1>1
  <2> QED  BY <1>2, <2>1, <2>2
<1>3. CASE Open
  <2>1. PICK p \in 1 .. Len(text) : Collecting(p)
    BY <1>3 DEF ReadInv, Open
  <2>2. x = Entry(text, p) /\ x \in Triple
    BY <1>3, <2>1, EntryHeld DEF Open
  <2>3. Entries(text) = Append(EntriesUpTo(text)[p - 1], Entry(text, p))
    BY <2>1, LastEntry DEF ReadInv, Inv, Collecting, Current
  <2>4. EntriesUpTo(text)[p - 1] = handed
    BY <2>1 DEF Collecting
  <2> HIDE DEF x
  <2>5. handed \o <<x>> = Append(handed, x)
    BY <1>1, <2>2
  <2> QED  BY <1>3, <2>2, <2>3, <2>4, <2>5
<1> QED  BY <1>2, <1>3

\* What the handler collected from the entries of the file is the section of the task.
LEMMA ReadTask ==
  ASSUME ReadInv
  PROVE  TaskIsSection
BY DEF ReadInv, TaskIsSection, TaskOf

\* The positions parse_line computes stay inside the line buffer and the value buffer, for
\* every file of tidy lines: trimming never passes the ends of the text it trims, and the
\* end of a value that copy_to_buf carries from line to line is never beyond the last
\* character of the value.
THEOREM TypeCorrect ==
  ASSUME TidyLines
  PROVE  Spec => []TypeOK
<1>1. Init => ReadInv
  BY ReadInit
<1>2. ReadInv /\ [Next]_vars => ReadInv'
  BY ReadNext
<1>3. ReadInv => TypeOK
  BY DEF ReadInv, Inv, TypeOK
<1> QED  BY <1>1, <1>2, <1>3, PTL DEF Spec

\* ini_parse hands over every entry of a file of tidy lines once, in order, with the section
\* it is in and its whole value: what parse_line leaves in the buffers between two lines is
\* what the lines read so far say, whatever was in the buffers before.
THEOREM AlwaysHandsOverFile ==
  ASSUME TidyLines
  PROVE  Spec => []HandsOverFile
<1>1. Init => ReadInv
  BY ReadInit
<1>2. ReadInv /\ [Next]_vars => ReadInv'
  BY ReadNext
<1>3. ReadInv => HandsOverFile
  BY ReadHandsOver
<1> QED  BY <1>1, <1>2, <1>3, PTL DEF Spec

\* The task workspace_task_get collects from a file of tidy lines is the section of that
\* name: the last command, directory and awaited name in it, and its other keys, in order,
\* as the environment.
THEOREM TaskAlwaysSection ==
  ASSUME TidyLines
  PROVE  Spec => []TaskIsSection
<1>1. Init => ReadInv
  BY ReadInit
<1>2. ReadInv /\ [Next]_vars => ReadInv'
  BY ReadNext
<1>3. ReadInv => TaskIsSection
  BY ReadTask
<1> QED  BY <1>1, <1>2, <1>3, PTL DEF Spec
=============================================================================
