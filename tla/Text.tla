-------------------------------- MODULE Text --------------------------------
(***************************************************************************)
(* The string functions of misc.c.  Each changes a string in place and     *)
(* returns it; here it returns the string that is there afterwards.  A     *)
(* loop is a recursive function of the number of its turns, of which there *)
(* are no more than characters: a turn behind the last one does nothing.   *)
(***************************************************************************)
EXTENDS Bytes, FiniteSets

CONSTANTS
  BufSize,    \* the 4096 bytes of fmtsub()
  Chars,      \* the characters of strings
  Args,       \* the table of variables and values that fmtsub() is given
  Sizes       \* the sizes of buffers

ASSUME TextAssumption ==
  /\ BufSize \in Nat \ {0} /\ Chars \subseteq Nat \ {0}
  /\ Args \in Seq([var : Seq(Nat \ {0}), exp : Seq(Nat \ {0})])
  /\ Sizes \subseteq Nat \ {0}

VARIABLE str     \* what the functions are given

Space == 32
Tab == 9
NewLine == 10
CarriageReturn == 13

\* s without the characters of set at its end, and at its start.
CutRight(s, set) ==
  LET ends == {n \in 0 .. Len(s) : \A i \in n + 1 .. Len(s) : s[i] \in set} IN
    SubSeq(s, 1, CHOOSE n \in ends : \A m \in ends : n <= m)
CutLeft(s, set) ==
  LET starts == {n \in 0 .. Len(s) : \A i \in 1 .. n : s[i] \in set}
      n == CHOOSE n \in starts : \A m \in starts : m <= n IN
    SubSeq(s, n + 1, Len(s))

Chomp(s) == CutRight(s, {NewLine, CarriageReturn})

Trim(s, left, right) ==
  LET t == IF right THEN CutRight(s, {Space, Tab}) ELSE s IN
    IF left THEN CutLeft(t, {Space, Tab}) ELSE t

Rot13(s) ==
  [i \in DOMAIN s |->
     CASE s[i] \in 97 .. 109 \cup 65 .. 77 -> s[i] + 13
       [] s[i] \in 110 .. 122 \cup 78 .. 90 -> s[i] - 13
       [] OTHER -> s[i]]

StrCutPbrk(s, accept) == Until(s, accept)
StrDelChars(s, dels) ==
  LET kept[n \in 0 .. Len(s)] ==
        IF n = 0 THEN << >> ELSE IF s[n] \in dels THEN kept[n - 1] ELSE Append(kept[n - 1], s[n])
  IN  kept[Len(s)]

-----------------------------------------------------------------------------
(* fmtsub()                                                                *)

\* The first variable of the table that the pattern goes on with, 0 if there is none.
Match(args, pattern) ==
  LET Here(var) == var # << >> /\ Len(var) <= Len(pattern) /\ SubSeq(pattern, 1, Len(var)) = var
      hits == {a \in DOMAIN args : Here(args[a].var)} IN
    IF hits = {} THEN 0 ELSE CHOOSE a \in hits : \A b \in hits : a <= b

\* The first n characters of s at most.
Limited(s, n) == SubSeq(s, 1, Lesser(Len(s), n))

\* Mutant of Substitute: a value that does not fit is left out.
SubstituteWhole(t, args) ==
  LET a == Match(args, t.pattern) IN
    IF t.pattern = << >> \/ Len(t.buf) >= BufSize - 1 THEN t
    ELSE IF a = 0 THEN [pattern |-> Tail(t.pattern), buf |-> Append(t.buf, t.pattern[1])]
    ELSE [pattern |-> After(t.pattern, args[a].var),
          buf |-> IF Len(t.buf) + Len(args[a].exp) >= BufSize THEN t.buf ELSE t.buf \o args[a].exp]

\* One turn of the loop.
Substitute(t, args) ==
  LET a == Match(args, t.pattern) IN
    IF t.pattern = << >> \/ Len(t.buf) >= BufSize - 1 THEN t
    ELSE IF a = 0 THEN [pattern |-> Tail(t.pattern), buf |-> Append(t.buf, t.pattern[1])]
    ELSE [pattern |-> After(t.pattern, args[a].var),
          buf |-> t.buf \o Limited(args[a].exp, BufSize - Len(t.buf) - 1)]

FmtBuf(pattern, args) ==
  LET turn[n \in 0 .. Len(pattern)] ==
        IF n = 0 THEN [pattern |-> pattern, buf |-> << >>] ELSE Substitute(turn[n - 1], args)
  IN  turn[Len(pattern)].buf

\* The cells of dest: strncpy() fills size - 1 of them.
Fmtsub(dest, pattern, args) ==
  LET buf == FmtBuf(pattern, args) IN
    IF pattern = << >> THEN [dest EXCEPT ![1] = 0]
    ELSE [i \in DOMAIN dest |->
            IF i = Len(dest) THEN dest[i] ELSE IF i <= Len(buf) THEN buf[i] ELSE 0]

-----------------------------------------------------------------------------
(* split()                                                                 *)

SplitGetSize(buffer, delimeter) ==
  IF buffer = << >> THEN 0 ELSE Cardinality({i \in DOMAIN buffer : buffer[i] = delimeter}) + 1

\* One turn of the loop: an element takes its first character whatever it is.
SplitOff(t, delimeter) ==
  IF t.buffer = << >> THEN t
  ELSE LET element == <<t.buffer[1]>> \o Until(Tail(t.buffer), {delimeter})
           rest == After(t.buffer, element) IN
         [buffer |-> IF rest = << >> THEN << >> ELSE Tail(rest), res |-> Append(t.res, element)]

Split(buffer, delimeter) ==
  LET turn[n \in 0 .. Len(buffer)] ==
        IF n = 0 THEN [buffer |-> buffer, res |-> << >>] ELSE SplitOff(turn[n - 1], delimeter)
  IN  turn[Len(buffer)].res

-----------------------------------------------------------------------------
(* read_lines_from_stdin(): getline() returns a line with its end.         *)

\* One turn of the loop.
ReadLine(t, line) ==
  IF t.remaining <= 0 THEN t
  ELSE [dst |-> t.dst \o Limited(line, t.remaining), remaining |-> t.remaining - Len(line)]

ReadLinesFromStdin(lines, size) ==
  LET turn[n \in 0 .. Len(lines)] ==
        IF n = 0 THEN [dst |-> << >>, remaining |-> size - 1] ELSE ReadLine(turn[n - 1], lines[n])
  IN  Chomp(turn[Len(lines)].dst)

-----------------------------------------------------------------------------
(* The strings the functions are given.                                    *)

TextInit == str = << >>
TextNext == \E c \in Chars : str' = Append(str, c)
TextSpec == TextInit /\ [][TextNext]_str

-----------------------------------------------------------------------------
(* Properties                                                              *)

\* The pattern with every value in its place, in a buffer without an end.
Replace(t, args) ==
  LET a == Match(args, t.pattern) IN
    IF t.pattern = << >> THEN t
    ELSE IF a = 0 THEN [pattern |-> Tail(t.pattern), text |-> Append(t.text, t.pattern[1])]
    ELSE [pattern |-> After(t.pattern, args[a].var), text |-> t.text \o args[a].exp]
Substituted(pattern, args) ==
  LET turn[n \in 0 .. Len(pattern)] ==
        IF n = 0 THEN [pattern |-> pattern, text |-> << >>] ELSE Replace(turn[n - 1], args)
  IN  turn[Len(pattern)].text

String(cells) == Until(cells, {0})

\* dest holds as much of it as there is room for in both buffers; it ends, if that was
\* all, with a zero, for which the last of the size - 1 cells that are written is needed.
SubstitutedRight(pattern, args, dest) ==
  LET full == Substituted(pattern, args)
      got == Fmtsub(dest, pattern, args)
      n == Lesser(Len(full), Lesser(Len(dest) - 1, BufSize - 1)) IN
    /\ Limited(got, n) = Limited(full, n)
    /\ n < Len(dest) - 1 => String(got) = Limited(full, n)
    /\ pattern # << >> => got[Len(dest)] = dest[Len(dest)]

JoinedWith(elements, delimeter) ==
  LET joined[n \in 0 .. Len(elements)] ==
        IF n = 0 THEN << >>
        ELSE IF n = 1 THEN elements[1] ELSE joined[n - 1] \o <<delimeter>> \o elements[n]
  IN  joined[Len(elements)]

\* No element is lost and there is a pointer for each: an empty one takes the delimiter
\* that ends it to the next.
SplitRight(buffer, delimeter) ==
  LET elements == Split(buffer, delimeter) IN
    /\ Len(elements) <= SplitGetSize(buffer, delimeter)
    /\ JoinedWith(elements, delimeter) = buffer \/ Append(JoinedWith(elements, delimeter), delimeter) = buffer
    /\ \A i \in DOMAIN elements : \A j \in 2 .. Len(elements[i]) : elements[i][j] # delimeter

TakeLine(t) ==
  IF t.text = << >> THEN t
  ELSE LET line == Until(t.text, {NewLine})
           whole == IF line = t.text THEN line ELSE Append(line, NewLine) IN
         [text |-> After(t.text, whole), lines |-> Append(t.lines, whole)]
LinesOf(text) ==
  LET turn[n \in 0 .. Len(text)] == IF n = 0 THEN [text |-> text, lines |-> << >>] ELSE TakeLine(turn[n - 1])
  IN  turn[Len(text)].lines

\* The lines are put together as they were, as far as there is room.
LinesRight(text, size) == ReadLinesFromStdin(LinesOf(text), size) = Chomp(Limited(text, size - 1))

\* The other functions: as misc.h lets them be nested.
EditsRight(text) ==
  /\ Rot13(Rot13(text)) = text /\ Rot13(Trim(Chomp(text), TRUE, TRUE)) = Trim(Chomp(Rot13(text)), TRUE, TRUE)
  /\ Trim(Trim(text, TRUE, FALSE), FALSE, TRUE) = Trim(text, TRUE, TRUE)
  /\ \A set \in SUBSET {Space, NewLine} : StrCutPbrk(text, set) = text <=> StrDelChars(text, set) = text

\* misc.c: nothing is lost in a substitution, a split or the reading of lines but what
\* there is no room for.
TextRight ==
  /\ \A size \in Sizes : SubstitutedRight(str, Args, [i \in 1 .. size |-> 1]) /\ LinesRight(str, size)
  /\ \A c \in Chars : SplitRight(str, c)
  /\ EditsRight(str)
=============================================================================
