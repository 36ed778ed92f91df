-------------------------------- MODULE Ini ---------------------------------
(***************************************************************************)
(* ini_parse of src/src/ini.h on one workspace file, with the handler      *)
(* workspace_task_get of src/src/server.h that collects the task TaskName. *)
(* One action is one line as fgets returns it.  A text is a sequence of    *)
(* characters; the parser's buffers are arrays, because the positions it   *)
(* computes may be negative: the cells below 0 belong to the buffer in     *)
(* front, where nothing is read again while names are short.               *)
(***************************************************************************)
EXTENDS Integers, Sequences

CONSTANTS
  Line,                   \* the lines a file may have
  MAX_LINES,              \* and how many of them
  LINE_BUF_SIZE, VALUE_BUF_SIZE, KEY_BUF_SIZE,
  TaskName, KeyCmd, KeyDir, KeyWait,
  COMMENT_AFTER_VALUE     \* may a comment follow the lines of a value directly?

NUL == "NUL"
NL == "NL"

ASSUME IniAssumption ==
  /\ MAX_LINES \in Nat
  /\ LINE_BUF_SIZE \in Nat \ {0, 1}
  /\ VALUE_BUF_SIZE \in Nat \ {0} /\ KEY_BUF_SIZE \in Nat \ {0}
  /\ COMMENT_AFTER_VALUE \in BOOLEAN
  /\ KeyCmd # KeyDir /\ KeyCmd # KeyWait /\ KeyDir # KeyWait
  \* A line ends at its first newline and is not empty.
  /\ \A l \in Line : l # <<>> /\ \A j \in 1 .. Len(l) : l[j] = NL => j = Len(l)

VARIABLES
  line, section, key, value,    \* the four parts of buf
  value_loc, save_loc, mode,    \* the rest of IniParseState
  status,                       \* "run" while lines are read, then the return code
  rest,                         \* what fgets has left of a long line
  task,                         \* what the handler collected
  text, handed                  \* history: the lines read, the handler's calls

vars == <<line, section, key, value, value_loc, save_loc, mode, status, rest,
          task, text, handed>>

-----------------------------------------------------------------------------
\* An array with the last cells of the one in front of it, and the string in it.
Zeroed(size) == [k \in - size .. size - 1 |-> NUL]

StringAt(buf) ==
  LET ends == {k \in 0 .. VALUE_BUF_SIZE : k \notin DOMAIN buf \/ buf[k] = NUL}
      len  == CHOOSE k \in ends : \A j \in ends : k <= j
  IN  [j \in 1 .. len |-> buf[j - 1]]

\* A char* that is NULL is {}, one that points to the string v is {v}.
NoTask == [cmd |-> {}, dir |-> {}, wait |-> {}, vars |-> <<>>]

Init ==
  /\ line = [k \in 0 .. LINE_BUF_SIZE - 1 |-> NUL]
  /\ section = Zeroed(KEY_BUF_SIZE)
  /\ key = Zeroed(KEY_BUF_SIZE)
  /\ value = Zeroed(VALUE_BUF_SIZE)
  /\ value_loc = 0 /\ save_loc = 0
  /\ mode = "STARTLINE"
  /\ status = "run"
  /\ rest = <<>>
  /\ task = NoTask
  /\ text = <<>> /\ handed = <<>>

-----------------------------------------------------------------------------
\* Reading and trimming.

is_space(c) == c = " "

\* The line buffer after fgets: the tail of earlier lines stays behind the NUL.
fgets(chunk) ==
  [k \in 0 .. LINE_BUF_SIZE - 1 |->
     IF k < Len(chunk) THEN chunk[k + 1] ELSE IF k = Len(chunk) THEN NUL ELSE line[k]]

\* The first position from start on where a character of the given kind is, or
\* the size of the buffer.
FirstFrom(buf, start, Is(_)) ==
  LET found == {k \in start .. LINE_BUF_SIZE - 1 : Is(buf[k])} \cup {LINE_BUF_SIZE}
  IN  CHOOSE k \in found : \A j \in found : k <= j

LastUpTo(buf, end, Is(_)) ==
  LET found == {k \in 0 .. end : Is(buf[k])} \cup {-1}
  IN  CHOOSE k \in found : \A j \in found : k >= j

\* trim_start_end.  When only blanks are before end the code goes on below the
\* start of buf; under says how many blanks it finds there.
trimmed_start(buf, start) == FirstFrom(buf, start, LAMBDA c : ~ is_space(c))

\* Mutant: the newline is left in place.
TrimKeepsNewline(buf, end, under) ==
  LET last == LastUpTo(buf, end, LAMBDA c : ~ is_space(c))
  IN  IF last = -1 THEN -1 - under ELSE last

\* Mutant: one character too many is cut off.
TrimTooFar(buf, end, under) == LastUpTo(buf, end, LAMBDA c : ~ is_space(c) /\ c # NL) - 1

trimmed_end(buf, end, under) ==
  LET last == LastUpTo(buf, end, LAMBDA c : ~ is_space(c) /\ c # NL)
  IN  IF last = -1 THEN -1 - under ELSE last

\* copy_to_buf: the array and the position of its end.
copy_to_buf(buf, start, end, out, out_loc) ==
  LET at  == IF out_loc > 0 THEN out_loc + 1 ELSE out_loc
      loc == at + (end - start) + 1
  IN  [ out |-> [k \in DOMAIN out |->
                   IF k = loc THEN NUL
                   ELSE IF k \in at .. loc - 1 THEN buf[start + (k - at)]
                   ELSE IF out_loc > 0 /\ k = out_loc THEN NL ELSE out[k]],
        loc |-> loc ]

copy_trimmed_to_buf(buf, start, end, out, out_loc, under) ==
  copy_to_buf(buf, trimmed_start(buf, start), trimmed_end(buf, end, under), out, out_loc)

-----------------------------------------------------------------------------
\* Mutant: the section is not compared with the name of the task.
AnySection(s) == TRUE

IsTaskSection(s) == s = TaskName

\* The handler.  Later values of a reserved key replace earlier ones, every other
\* key is added to the environment.
workspace_task_get(s, k, v) ==
  IF ~ IsTaskSection(s) THEN task
  ELSE CASE k = KeyCmd  -> [task EXCEPT !.cmd = {v}]
         [] k = KeyDir  -> [task EXCEPT !.dir = {v}]
         [] k = KeyWait -> [task EXCEPT !.wait = {v}]
         [] OTHER       -> [task EXCEPT !.vars = Append(@, <<k, v>>)]

\* Every line that is not indented hands over the value before it.
Handle ==
  LET entry == <<StringAt(section), StringAt(key), StringAt(value)>>
  IN  IF mode = "VALUE"
      THEN /\ task' = workspace_task_get(entry[1], entry[2], entry[3])
           /\ handed' = Append(handed, entry)
      ELSE UNCHANGED <<task, handed>>

\* What is left of a long line, or a new one unless the last had no newline.
Unread ==
  IF rest # <<>> THEN {rest}
  ELSE IF Len(text) = MAX_LINES THEN {}
  ELSE IF text # <<>> /\ text[Len(text)][Len(text[Len(text)])] # NL THEN {}
  ELSE Line

ChunkLen(t) == IF Len(t) < LINE_BUF_SIZE THEN Len(t) ELSE LINE_BUF_SIZE - 1

ReadLine(t) ==
  /\ status = "run"
  /\ line' = fgets(SubSeq(t, 1, ChunkLen(t)))
  /\ rest' = SubSeq(t, ChunkLen(t) + 1, Len(t))
  /\ text' = IF rest = <<>> THEN Append(text, t) ELSE text

\* The end of parse_line: from the given position on the line is value text.
CopyValue(start, end, loc, under) ==
  LET copied == copy_trimmed_to_buf(line', start, end, value, loc, under)
  IN  value' = copied.out /\ value_loc' = copied.loc

\* Mutant: the parser stays in the middle of the value.
KeepMode == UNCHANGED <<mode, save_loc, value_loc>>

StartLine == mode' = "STARTLINE" /\ save_loc' = 0 /\ value_loc' = 0

BlankLine(t) ==
  /\ t[1] = NL
  /\ ReadLine(t)
  /\ Handle
  /\ IF mode # "MULTILINE" THEN StartLine ELSE UNCHANGED <<mode, save_loc, value_loc>>
  /\ UNCHANGED <<section, key, value, status>>

SectionLine(t, under) ==
  LET close == FirstFrom(line', 1, LAMBDA c : c \in {"]", NUL})
  IN  /\ t[1] = "["
      /\ ReadLine(t)
      /\ Handle
      /\ value_loc' = 0
      /\ IF line'[close] = "]"
         THEN /\ section' = copy_trimmed_to_buf(line', 1, close - 1, section, 0, under).out
              /\ mode' = "STARTLINE" /\ save_loc' = 0
         ELSE mode' = "SECTION" /\ save_loc' = 1 /\ UNCHANGED section
      /\ UNCHANGED <<key, value, status>>

\* In the middle of a value the mode stays, and the end of parse_line copies
\* from the old save_loc to the position before the line.
CommentLine(t, under) ==
  /\ t[1] = "#"
  /\ mode = "VALUE" => COMMENT_AFTER_VALUE
  /\ ReadLine(t)
  /\ Handle
  /\ IF mode = "VALUE" THEN CopyValue(save_loc, -1, value_loc, under)
     ELSE UNCHANGED <<value, value_loc>>
  /\ UNCHANGED <<section, key, save_loc, mode, status>>

KeyLine(t, under) ==
  LET equals == FirstFrom(line', 1, LAMBDA c : c \in {"=", NUL})
  IN  /\ t[1] \notin {NL, " ", "[", "#"}
      /\ ReadLine(t)
      /\ Handle
      /\ IF line'[equals] = "="
         THEN /\ key' = copy_trimmed_to_buf(line', 0, equals - 1, key, 0, under).out
              /\ mode' = "VALUE" /\ save_loc' = equals + 1
              /\ CopyValue(equals + 1, ChunkLen(t) - 1, 0, under)
         ELSE mode' = "KEY" /\ save_loc' = 0 /\ value_loc' = 0 /\ UNCHANGED <<key, value>>
      /\ UNCHANGED <<section, status>>

\* An indented line continues the value; nothing but blanks up to the end of the
\* file leaves the parser in the middle.
ContinuedLine(t, under) ==
  LET first == FirstFrom(line', 1, LAMBDA c : ~ is_space(c))
  IN  /\ t[1] = " "
      /\ mode = "VALUE"
      /\ ReadLine(t)
      /\ save_loc' = IF first > 1 THEN first - 1 ELSE 1
      /\ IF line'[first] = NUL THEN mode' = "MULTILINE" /\ UNCHANGED <<value, value_loc>>
         ELSE mode' = "VALUE" /\ CopyValue(save_loc', ChunkLen(t) - 1, value_loc, under)
      /\ UNCHANGED <<section, key, status, task, handed>>

StrayIndent(t) ==
  /\ t[1] = " "
  /\ mode # "VALUE"
  /\ ReadLine(t)
  /\ status' = "INVALID"
  /\ UNCHANGED <<section, key, value, value_loc, save_loc, mode, task, handed>>

\* fgets returns NULL.
EndOfFile ==
  /\ status = "run" /\ rest = <<>>
  /\ Handle
  /\ status' = "OK"
  /\ UNCHANGED <<line, section, key, value, value_loc, save_loc, mode, rest, text>>

Next ==
  \/ \E t \in Unread :
       \/ BlankLine(t) \/ StrayIndent(t)
       \/ \E under \in 0 .. 1 :
            SectionLine(t, under) \/ CommentLine(t, under)
              \/ KeyLine(t, under) \/ ContinuedLine(t, under)
  \/ EndOfFile

Spec == Init /\ [][Next]_vars

-----------------------------------------------------------------------------
\* The reference reading of a file, from its lines alone.

Body(l) == IF l[Len(l)] = NL THEN SubSeq(l, 1, Len(l) - 1) ELSE l

\* A text without the blanks around it.
Trimmed(s) ==
  LET solid == {j \in 1 .. Len(s) : ~ is_space(s[j])}
  IN  IF solid = {} THEN <<>>
      ELSE SubSeq(s, CHOOSE j \in solid : \A k \in solid : j <= k,
                     CHOOSE j \in solid : \A k \in solid : j >= k)

Position(s, c) == {j \in 2 .. Len(s) : s[j] = c /\ \A k \in 2 .. j - 1 : s[k] # c}

IsSection(l)  == l[1] = "[" /\ Position(l, "]") # {}
IsEntry(l)    == l[1] \notin {NL, " ", "[", "#"} /\ Position(l, "=") # {}
IsIndented(l) == l[1] = " "

NameIn(l) == LET j == CHOOSE j \in Position(l, "]") : TRUE IN Trimmed(SubSeq(l, 2, j - 1))
KeyIn(l)  == LET j == CHOOSE j \in Position(l, "=") : TRUE IN Trimmed(SubSeq(l, 1, j - 1))
FirstPart(l) ==
  LET j == CHOOSE j \in Position(l, "=") : TRUE IN Trimmed(SubSeq(Body(l), j + 1, Len(Body(l))))

\* The section of line p: the last header before it.
SectionOf(lines, p) ==
  LET headers == {q \in 1 .. p - 1 : IsSection(lines[q])}
  IN  IF headers = {} THEN <<>>
      ELSE NameIn(lines[CHOOSE q \in headers : \A r \in headers : r <= q])

Joined(before, part) == IF before = <<>> THEN part ELSE before \o <<NL>> \o part

\* The value of the entry on line p and the first n lines behind it: the part on its own
\* line and those on the indented lines directly behind it.
Values(lines, p) ==
  LET values[n \in 0 .. Len(lines) - p] ==
        IF n = 0 THEN FirstPart(lines[p])
        ELSE IF \A r \in p + 1 .. p + n : IsIndented(lines[r])
        THEN Joined(values[n - 1], Trimmed(Body(lines[p + n])))
        ELSE values[n - 1]
  IN  values

ValueOf(lines, p) == Values(lines, p)[Len(lines) - p]

Entry(lines, p) == <<SectionOf(lines, p), KeyIn(lines[p]), ValueOf(lines, p)>>

\* The entries on the first n lines, in order.
EntriesUpTo(lines) ==
  LET entries[n \in 0 .. Len(lines)] ==
        IF n = 0 THEN <<>>
        ELSE IF IsEntry(lines[n]) THEN Append(entries[n - 1], Entry(lines, n)) ELSE entries[n - 1]
  IN  entries

Entries(lines) == EntriesUpTo(lines)[Len(lines)]

\* The last value of a reserved key among the entries of the task, if there is one, and
\* the other keys with their values, in order.
LastOf(entries, k) ==
  LET mine == {j \in 1 .. Len(entries) : entries[j][1] = TaskName /\ entries[j][2] = k}
  IN  {entries[j][3] : j \in {j \in mine : \A i \in mine : i <= j}}

EnvironmentUpTo(entries) ==
  LET environment[n \in 0 .. Len(entries)] ==
        IF n = 0 THEN <<>>
        ELSE IF entries[n][1] = TaskName /\ entries[n][2] \notin {KeyCmd, KeyDir, KeyWait}
        THEN Append(environment[n - 1], <<entries[n][2], entries[n][3]>>)
        ELSE environment[n - 1]
  IN  environment

Environment(entries) == EnvironmentUpTo(entries)[Len(entries)]

\* Text is being collected that the handler has not seen.
Open == status = "run" /\ mode = "VALUE"

-----------------------------------------------------------------------------
\* The positions stay inside the line buffer and the value buffer, and a
\* negative end of a value never happens.
TypeOK ==
  /\ mode \in {"STARTLINE", "SECTION", "KEY", "VALUE", "MULTILINE"}
  /\ status \in {"run", "OK", "INVALID"}
  /\ save_loc \in 0 .. LINE_BUF_SIZE
  /\ value_loc \in 0 .. VALUE_BUF_SIZE - 1

\* ini_parse hands over every entry of the file once, in order, with the section
\* it is in and its whole value: what the handler has seen and the value still
\* being collected are the entries of the lines read.
HandsOverFile ==
  status # "INVALID" =>
    Entries(text) =
      handed \o (IF Open THEN <<<<StringAt(section), StringAt(key), StringAt(value)>>>>
                 ELSE <<>>)

\* parse_line rejects a file exactly when an indented line continues no entry,
\* whatever lines were read before.
RejectsStrayIndent ==
  LET stray == {p \in 1 .. Len(text) :
                  /\ IsIndented(text[p])
                  /\ \A q \in 1 .. p - 1 :
                       IsEntry(text[q]) => \E r \in q + 1 .. p - 1 : ~ IsIndented(text[r])}
  IN  status = "INVALID" <=> stray # {}

\* The task get_task launches is the section of that name: the command, directory
\* and awaited name are the last ones the section gives, and all other keys are
\* its environment.
TaskIsSection ==
  status = "OK" =>
    task = [cmd |-> LastOf(Entries(text), KeyCmd), dir |-> LastOf(Entries(text), KeyDir),
            wait |-> LastOf(Entries(text), KeyWait), vars |-> Environment(Entries(text))]
=============================================================================
