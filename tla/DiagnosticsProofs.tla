-------------------------- MODULE DiagnosticsProofs --------------------------
(***************************************************************************)
(* Theorems about Diagnostics, for any versions of the file and any edits  *)
(* between the two readings: a diagnostic stays on the line of its         *)
(* finding, an edit below moves nothing, and nolint comments silence what  *)
(* they cover.                                                             *)
(***************************************************************************)
EXTENDS Diagnostics, SequenceTheorems, WellFoundedInduction, TLAPS

-----------------------------------------------------------------------------
(* Least and greatest numbers. *)

\* A set of naturals has a least element.
LEMMA LeastFacts ==
  ASSUME NEW S \in SUBSET Nat, S # {}
  PROVE  \E n \in S : \A m \in S : n <= m
<1> DEFINE Less == {ss \in Nat \X Nat : ss[1] < ss[2]}
<1>1. IsWellFoundedOn(Less, Nat)
  <2>1. OpToRel(<, Nat) = Less
    BY DEF OpToRel
  <2> QED
    BY <2>1, NatLessThanWellFounded
<1>2. \E n \in S : \A m \in S : <<m, n>> \notin Less
  <2> HIDE DEF Less
  <2> QED
    BY <1>1, WFMin
<1>3. PICK n \in S : \A m \in S : <<m, n>> \notin Less
  BY <1>2
<1>4. ASSUME NEW m \in S PROVE n <= m
  <2>1. <<m, n>> \notin Less /\ m \in Nat /\ n \in Nat
    BY <1>3
  <2> QED
    BY <2>1
<1> QED
  BY <1>4

\* A bounded set of naturals has a greatest element.
LEMMA MaxFacts ==
  ASSUME NEW b \in Nat, NEW S \in SUBSET (1 .. b), S # {}
  PROVE  Max(S) \in S /\ \A n \in S : n <= Max(S)
<1> DEFINE T == {k \in Nat : \A n \in S : n <= k}
<1>1. T \in SUBSET Nat /\ b \in T
  OBVIOUS
<1>2. PICK top \in T : \A k \in T : top <= k
  BY <1>1, LeastFacts
<1>3. top \in S
  <2> SUFFICES ASSUME top \notin S PROVE FALSE
    OBVIOUS
  <2>1. \A n \in S : n <= top /\ n # top /\ n \in Nat /\ n >= 1
    BY <1>2
  <2>2. top \in Nat /\ top >= 1
    <3>1. PICK n \in S : TRUE
      OBVIOUS
    <3> QED
      BY <1>2, <2>1, <3>1
  <2>3. top - 1 \in T
    BY <2>1, <2>2
  <2> QED
    BY <1>2, <2>2, <2>3
<1>4. \E n \in S : \A m \in S : n >= m
  BY <1>2, <1>3
<1> QED
  BY <1>4 DEF Max

-----------------------------------------------------------------------------
(* The offsets of lines.  What the recursive function of LineStart computes *)
(* is found by looking at the least line at which it would not.             *)

Starts(text, n, f) ==
  f = [m \in 1 .. n |-> IF m = 1 THEN 0 ELSE f[m - 1] + text.lines[m - 1].length + 1]

\* The lines above line n have the same lengths in both versions.
SameAbove(text, other, n) ==
  \A m \in 1 .. n - 1 : text.lines[m].length = other.lines[m].length

\* There is such a function, so LineStart is a value of one.
LEMMA StartsExist ==
  ASSUME NEW text, NEW n \in Nat
  PROVE  \E f : Starts(text, n, f)
<1> DEFINE Bad == {k \in Nat : ~ \E f : Starts(text, k, f)}
<1> SUFFICES ASSUME Bad # {} PROVE FALSE
  OBVIOUS
<1>1. PICK k \in Bad : \A m \in Bad : k <= m
  <2>1. Bad \in SUBSET Nat
    OBVIOUS
  <2> HIDE DEF Bad
  <2> QED
    BY <2>1, LeastFacts
<1>2. k # 0
  <2>1. Starts(text, 0, [m \in 1 .. 0 |-> 0])
    BY DEF Starts
  <2> QED
    BY <2>1
<1>3. k - 1 \in Nat /\ k - 1 \notin Bad /\ k \in Nat
  BY <1>1, <1>2
<1>4. PICK f : Starts(text, k - 1, f)
  BY <1>3
<1> DEFINE g == [m \in 1 .. k |->
                   IF m = k THEN (IF k = 1 THEN 0 ELSE f[k - 1] + text.lines[k - 1].length + 1)
                   ELSE f[m]]
<1>5. \A m \in 1 .. k : g[m] = IF m = 1 THEN 0 ELSE g[m - 1] + text.lines[m - 1].length + 1
  <2>1. ASSUME NEW m \in 1 .. k
        PROVE  g[m] = IF m = 1 THEN 0 ELSE g[m - 1] + text.lines[m - 1].length + 1
    <3>1. CASE m = k /\ k = 1
      BY <3>1
    <3>2. CASE m = k /\ k # 1
      <4>1. k - 1 \in 1 .. k /\ k - 1 # k
        BY <1>3, <3>2
      <4>2. g[k - 1] = f[k - 1]
        BY <4>1
      <4> QED
        BY <3>2, <4>2
    <3>3. CASE m # k
      <4>1. m \in 1 .. k - 1
        BY <1>3, <3>3
      <4>2. f[m] = IF m = 1 THEN 0 ELSE f[m - 1] + text.lines[m - 1].length + 1
        BY <1>4, <4>1 DEF Starts
      <4>3. m # 1 => m - 1 \in 1 .. k /\ m - 1 # k
        BY <1>3, <4>1
      <4>4. m # 1 => g[m - 1] = f[m - 1]
        BY <4>3
      <4> QED
        BY <3>3, <4>2, <4>4
    <3> QED
      BY <3>1, <3>2, <3>3
  <2> QED
    BY <2>1
<1>6. Starts(text, k, g)
  <2> DEFINE h == [m \in 1 .. k |->
                     IF m = 1 THEN 0 ELSE g[m - 1] + text.lines[m - 1].length + 1]
  <2>1. DOMAIN g = 1 .. k /\ DOMAIN h = 1 .. k /\ \A m \in 1 .. k : g[m] = h[m]
    BY <1>5
  <2>2. g = h
    BY <2>1
  <2> QED
    BY <2>2 DEF Starts
<1> QED
  BY <1>1, <1>6

\* Lines that agree up to line j leave the offset of line j the same.
LEMMA StartsAgree ==
  ASSUME NEW text, NEW other, NEW n \in Nat, NEW k \in Nat, NEW f, NEW g,
         Starts(text, n, f), Starts(other, k, g),
         NEW j \in Nat, 1 <= j, j <= n, j <= k, SameAbove(text, other, j)
  PROVE  f[j] = g[j]
<1> DEFINE Bad == {i \in Nat : 1 <= i /\ i <= j /\ f[i] # g[i]}
<1> SUFFICES ASSUME Bad # {} PROVE FALSE
  OBVIOUS
<1>1. PICK i \in Bad : \A m \in Bad : i <= m
  <2>1. Bad \in SUBSET Nat
    OBVIOUS
  <2> HIDE DEF Bad
  <2> QED
    BY <2>1, LeastFacts
<1>2. i \in 1 .. n /\ i \in 1 .. k
  BY <1>1
<1>3. /\ f[i] = IF i = 1 THEN 0 ELSE f[i - 1] + text.lines[i - 1].length + 1
      /\ g[i] = IF i = 1 THEN 0 ELSE g[i - 1] + other.lines[i - 1].length + 1
  BY <1>2 DEF Starts
<1>4. i # 1
  BY <1>1, <1>3
<1>5. i - 1 \in Nat /\ 1 <= i - 1 /\ i - 1 <= j /\ i - 1 < i /\ i - 1 \in 1 .. j - 1
  BY <1>1, <1>4
<1>6. f[i - 1] = g[i - 1]
  BY <1>1, <1>5
<1>7. text.lines[i - 1].length = other.lines[i - 1].length
  BY <1>5 DEF SameAbove
<1> QED
  BY <1>1, <1>3, <1>4, <1>6, <1>7

\* The value of LineStart is that of such a function.
LEMMA LineStartIs ==
  ASSUME NEW text, NEW n \in Nat
  PROVE  \E f : Starts(text, n, f) /\ LineStart(text, n) = f[n]
BY StartsExist DEF LineStart, Starts

\* A version of the file has lines, each with a length.
LEMMA TextFacts ==
  ASSUME NEW text \in Texts
  PROVE  /\ LineCount(text) \in Nat /\ LineCount(text) > 0
         /\ text.newline \in BOOLEAN
         /\ text.newline \/ text.lines[LineCount(text)].length > 0
         /\ \A n \in 1 .. LineCount(text) :
              /\ text.lines[n] \in Lines
              /\ text.lines[n].length \in Nat
              /\ text.lines[n].uses \subseteq 1 .. text.lines[n].length
              /\ \A c \in text.lines[n].comments :
                   c.more \in Nat /\ n + c.more <= LineCount(text)
<1>1. text.lines \in Seq(Lines) /\ text.lines # <<>> /\ text.newline \in BOOLEAN
      /\ (text.newline \/ Last(text.lines).length > 0)
  BY TextAssumption
<1>2. Len(text.lines) \in Nat /\ Len(text.lines) > 0
  BY <1>1
<1>3. ASSUME NEW n \in 1 .. LineCount(text)
      PROVE  /\ text.lines[n] \in Lines
             /\ text.lines[n].length \in Nat
             /\ text.lines[n].uses \subseteq 1 .. text.lines[n].length
             /\ \A c \in text.lines[n].comments :
                  c.more \in Nat /\ n + c.more <= LineCount(text)
  <2>1. text.lines[n] \in Lines
    BY <1>1, ElementOfSeq DEF LineCount
  <2>2. text.lines[n].length \in Nat
        /\ text.lines[n].comments \subseteq [more : Nat, nolints : SUBSET SUBSET STRING]
    BY <2>1 DEF Lines
  <2> QED
    BY <2>1, <2>2, TextAssumption DEF LineCount
<1> QED
  BY <1>1, <1>2, <1>3 DEF LineCount, Last

\* The first line begins the file, and each other one after the newline of the
\* one before.
LEMMA LineStartFacts ==
  ASSUME NEW text \in Texts
  PROVE  /\ LineStart(text, 1) = 0
         /\ \A n \in 1 .. LineCount(text) :
              LineStart(text, n + 1) = LineStart(text, n) + text.lines[n].length + 1
         /\ \A n \in 1 .. LineCount(text) + 1 : LineStart(text, n) \in Nat
<1> DEFINE last == LineCount(text) + 1
<1>1. LineCount(text) \in Nat /\ last \in Nat /\ last >= 2
  BY TextFacts
<1>2. PICK f : Starts(text, last, f)
  BY <1>1, StartsExist
<1>3. ASSUME NEW n \in 1 .. last PROVE LineStart(text, n) = f[n]
  <2>1. PICK g : Starts(text, n, g) /\ LineStart(text, n) = g[n]
    BY <1>1, LineStartIs
  <2>2. n \in Nat /\ 1 <= n /\ n <= n /\ n <= last
    BY <1>1
  <2>3. SameAbove(text, text, n)
    BY DEF SameAbove
  <2>4. g[n] = f[n]
    BY <1>1, <1>2, <2>1, <2>2, <2>3, StartsAgree
  <2> QED
    BY <2>1, <2>4
<1> HIDE DEF last
<1>4. f[1] = 0
  BY <1>1, <1>2 DEF Starts
<1>5. ASSUME NEW n \in 1 .. LineCount(text)
      PROVE  f[n + 1] = f[n] + text.lines[n].length + 1
  <2>1. n + 1 \in 1 .. last /\ n + 1 # 1 /\ (n + 1) - 1 = n
    BY <1>1 DEF last
  <2> QED
    BY <1>2, <2>1 DEF Starts
<1>6. \A n \in 1 .. last : f[n] \in Nat
  <2> DEFINE Bad == {i \in Nat : i \in 1 .. last /\ f[i] \notin Nat}
  <2> SUFFICES ASSUME Bad # {} PROVE FALSE
    BY <1>1
  <2>1. PICK i \in Bad : \A m \in Bad : i <= m
    <3>1. Bad \in SUBSET Nat
      OBVIOUS
    <3> HIDE DEF Bad
    <3> QED
      BY <3>1, LeastFacts
  <2>2. i # 1
    BY <1>4, <2>1
  <2>3. i - 1 \in 1 .. LineCount(text) /\ i - 1 \in 1 .. last /\ i - 1 < i
        /\ (i - 1) + 1 = i /\ i - 1 \in Nat
    BY <1>1, <2>1, <2>2 DEF last
  <2>4. f[i - 1] \in Nat
    BY <2>1, <2>3
  <2>5. f[i] = f[i - 1] + text.lines[i - 1].length + 1
    BY <1>5, <2>3
  <2>6. text.lines[i - 1].length \in Nat
    BY <2>3, TextFacts
  <2> QED
    BY <2>1, <2>4, <2>5, <2>6
<1>7. ASSUME NEW n \in 1 .. LineCount(text)
      PROVE  LineStart(text, n + 1) = LineStart(text, n) + text.lines[n].length + 1
  <2>1. n \in 1 .. last /\ n + 1 \in 1 .. last
    BY <1>1 DEF last
  <2> QED
    BY <1>3, <1>5, <2>1
<1>8. 1 \in 1 .. last
  BY <1>1
<1> QED
  BY <1>3, <1>4, <1>6, <1>7, <1>8 DEF last

\* Versions that agree above a line have it at the same offset.
LEMMA LineStartAgrees ==
  ASSUME NEW text \in Texts, NEW other \in Texts, NEW n \in Nat, 1 <= n,
         SameAbove(text, other, n)
  PROVE  LineStart(text, n) = LineStart(other, n)
<1>1. PICK f : Starts(text, n, f) /\ LineStart(text, n) = f[n]
  BY LineStartIs
<1>2. PICK g : Starts(other, n, g) /\ LineStart(other, n) = g[n]
  BY LineStartIs
<1>3. n <= n
  OBVIOUS
<1>4. f[n] = g[n]
  BY <1>1, <1>2, <1>3, StartsAgree
<1> QED
  BY <1>1, <1>2, <1>4

\* Lines follow one another.
LEMMA LineStartsGrow ==
  ASSUME NEW text \in Texts, NEW m \in 1 .. LineCount(text) + 1
  PROVE  LineStart(text, m) <= LineStart(text, LineCount(text) + 1)
<1> DEFINE last == LineCount(text) + 1
           Bad == {k \in Nat : /\ last - k \in 1 .. last
                               /\ ~ (LineStart(text, last - k) <= LineStart(text, last))}
<1>1. LineCount(text) \in Nat
  BY TextFacts
<1>2. \A n \in 1 .. last : LineStart(text, n) \in Nat
  BY LineStartFacts
<1>3. Bad = {}
  <2> SUFFICES ASSUME Bad # {} PROVE FALSE
    OBVIOUS
  <2>1. PICK k \in Bad : \A i \in Bad : k <= i
    <3>1. Bad \in SUBSET Nat
      OBVIOUS
    <3> HIDE DEF Bad
    <3> QED
      BY <3>1, LeastFacts
  <2>2. k # 0
    BY <1>1, <1>2, <2>1
  <2>3. k - 1 \in Nat /\ last - k \in 1 .. LineCount(text) /\ k - 1 < k
        /\ last - (k - 1) = (last - k) + 1 /\ last - (k - 1) \in 1 .. last
    BY <1>1, <2>1, <2>2
  <2>4. LineStart(text, last - (k - 1)) <= LineStart(text, last)
    BY <2>1, <2>3
  <2>5. LineStart(text, last - (k - 1)) =
          LineStart(text, last - k) + text.lines[last - k].length + 1
    BY <2>3, LineStartFacts
  <2>6. /\ LineStart(text, last - k) \in Nat /\ LineStart(text, last) \in Nat
        /\ text.lines[last - k].length \in Nat
    BY <1>1, <1>2, <2>3, TextFacts
  <2> QED
    BY <2>1, <2>4, <2>5, <2>6
<1>4. last - m \in Nat /\ last - (last - m) = m /\ m \in 1 .. last
  BY <1>1
<1>5. \A k \in Nat : last - k \in 1 .. last =>
        LineStart(text, last - k) <= LineStart(text, last)
  BY <1>3
<1>6. LineStart(text, last - (last - m)) <= LineStart(text, last)
  <2> HIDE DEF last
  <2> QED
    BY <1>4, <1>5
<1> QED
  BY <1>4, <1>6

-----------------------------------------------------------------------------
(* Positions in the pass's file. *)

\* The file ends with its last line, whose newline may be missing.
LEMMA SizeFacts ==
  ASSUME NEW text \in Texts
  PROVE  LET last == LineCount(text) IN
           /\ Size(text) \in Nat
           /\ EndOf(text, last) <= Size(text) /\ Size(text) <= EndOf(text, last) + 1
           /\ LineStart(text, last) < Size(text)
           /\ \A n \in 1 .. last : LineStart(text, n + 1) - 1 <= Size(text)
<1> DEFINE last == LineCount(text)
<1>1. last \in Nat /\ last > 0 /\ text.lines[last].length \in Nat
      /\ text.newline \in BOOLEAN /\ (text.newline \/ text.lines[last].length > 0)
  BY TextFacts
<1>2. LineStart(text, last + 1) = LineStart(text, last) + text.lines[last].length + 1
      /\ LineStart(text, last) \in Nat /\ LineStart(text, last + 1) \in Nat
  BY <1>1, LineStartFacts
<1>3. Size(text) = LineStart(text, last + 1) - (IF text.newline THEN 0 ELSE 1)
  BY DEF Size
<1>4. ASSUME NEW n \in 1 .. last PROVE LineStart(text, n + 1) - 1 <= Size(text)
  <2>1. n + 1 \in 1 .. last + 1
    BY <1>1
  <2>2. LineStart(text, n + 1) <= LineStart(text, last + 1) /\ LineStart(text, n + 1) \in Nat
    BY <2>1, LineStartsGrow, LineStartFacts
  <2> QED
    BY <1>1, <1>2, <1>3, <2>2
<1> HIDE DEF last
<1>5. Size(text) \in Nat /\ LineStart(text, last) < Size(text)
      /\ EndOf(text, last) <= Size(text) /\ Size(text) <= EndOf(text, last) + 1
  BY <1>1, <1>2, <1>3 DEF EndOf
<1> QED
  BY <1>4, <1>5 DEF last

\* A position on a line, up to its newline, is followed by the end of that line.
LEMMA LineEndFacts ==
  ASSUME NEW text \in Texts, NEW line \in 1 .. LineCount(text), NEW pos \in Nat,
         LineStart(text, line) <= pos
  PROVE  /\ line < LineCount(text) /\ pos <= EndOf(text, line) =>
              LineEnd(text, line, pos) = EndOf(text, line)
         /\ line = LineCount(text) /\ pos <= Size(text) =>
              LineEnd(text, line, pos) = Size(text)
<1>1. LineCount(text) \in Nat /\ text.lines[line].length \in Nat /\ line \in Nat
  BY TextFacts
<1>2. LineStart(text, line + 1) = LineStart(text, line) + text.lines[line].length + 1
      /\ LineStart(text, line) \in Nat
  BY <1>1, LineStartFacts
<1>3. Size(text) \in Nat
  BY SizeFacts
<1>4. ASSUME line < LineCount(text), pos <= EndOf(text, line)
      PROVE  LineEnd(text, line, pos) = EndOf(text, line)
  <2>1. LineStart(text, line + 1) > pos
    BY <1>1, <1>2, <1>4 DEF EndOf
  <2>2. LineEnd(text, line, pos) = LineStart(text, line + 1) - 1
    <3>1. ~ (line >= LineCount(text)) /\ ~ (LineStart(text, line + 1) <= pos)
      BY <1>1, <1>2, <1>4, <2>1
    <3> QED
      BY <1>4, <2>1, <3>1 DEF LineEnd
  <2> QED
    BY <1>1, <1>2, <2>2 DEF EndOf
<1>5. ASSUME line = LineCount(text), pos <= Size(text)
      PROVE  LineEnd(text, line, pos) = Size(text)
  <2>1. ~ (line < LineCount(text)) /\ line >= LineCount(text)
    BY <1>1, <1>5
  <2>2. CASE pos < Size(text)
    BY <1>3, <2>1, <2>2 DEF LineEnd
  <2>3. CASE pos = Size(text)
    BY <1>3, <2>1, <2>3 DEF LineEnd
  <2> QED
    BY <1>3, <1>5, <2>2, <2>3
<1> QED
  BY <1>4, <1>5

\* A diagnostic begins on its line and ends with it; a column on the line is not
\* cut.
LEMMA ViolationPosFacts ==
  ASSUME NEW text \in Texts, NEW line \in 1 .. LineCount(text), NEW column \in Nat
  PROVE  LET pos == ViolationPos(text, line, column)
             end == LineEnd(text, line, pos)
         IN  /\ pos \in 0 .. Size(text) /\ end \in 0 .. Size(text)
             /\ LineStart(text, line) <= pos /\ pos <= end
             /\ line < LineCount(text) => end = EndOf(text, line)
             /\ line = LineCount(text) => end = Size(text)
             /\ column \in 1 .. text.lines[line].length =>
                  pos = LineStart(text, line) + column - 1
<1> DEFINE start == LineStart(text, line)
           end == LineEnd(text, line, start)
           pos == ViolationPos(text, line, column)
<1>1. LineCount(text) \in Nat /\ text.lines[line].length \in Nat /\ line \in Nat
      /\ start \in Nat /\ start <= start /\ EndOf(text, line) = start + text.lines[line].length
      /\ LineStart(text, line + 1) = start + text.lines[line].length + 1
  BY TextFacts, LineStartFacts DEF EndOf
<1>2. Size(text) \in Nat /\ EndOf(text, line) <= Size(text)
      /\ (line = LineCount(text) => start < Size(text))
  <2>1. LineStart(text, line + 1) - 1 <= Size(text) /\ Size(text) \in Nat
    BY SizeFacts
  <2>2. line = LineCount(text) => start < Size(text)
    BY SizeFacts
  <2> QED
    BY <1>1, <2>1, <2>2
<1>3. /\ line < LineCount(text) => end = EndOf(text, line)
      /\ line = LineCount(text) => end = Size(text)
  BY <1>1, <1>2, LineEndFacts
<1>4. line < LineCount(text) \/ line = LineCount(text)
  BY <1>1
<1>5. pos = CASE column <= 1 -> start
              [] column > 1 /\ start + column - 1 > end -> end
              [] OTHER -> start + column - 1
  BY DEF ViolationPos
<1> HIDE DEF start, end, pos
<1>6. end \in Nat /\ start <= end /\ end <= Size(text) /\ EndOf(text, line) <= end
  BY <1>1, <1>2, <1>3, <1>4
<1>7. pos \in Nat /\ start <= pos /\ pos <= end
      /\ (column \in 1 .. text.lines[line].length => pos = start + column - 1)
  <2>1. CASE column <= 1
    <3>1. pos = start
      <4>1. ~ (column > 1)
        BY <2>1
      <4> QED
        BY <1>5, <2>1, <4>1
    <3>2. column \in 1 .. text.lines[line].length => column = 1
      BY <2>1
    <3> QED
      BY <1>1, <1>6, <3>1, <3>2
  <2>2. CASE column > 1 /\ start + column - 1 > end
    BY <1>1, <1>5, <1>6, <2>2
  <2>3. CASE column > 1 /\ ~ (start + column - 1 > end)
    <3>1. pos = start + column - 1
      BY <1>5, <2>3
    <3> QED
      BY <1>1, <1>6, <2>3, <3>1
  <2> QED
    BY <2>1, <2>2, <2>3
<1>8. /\ line < LineCount(text) => LineEnd(text, line, pos) = EndOf(text, line)
      /\ line = LineCount(text) => LineEnd(text, line, pos) = Size(text)
  BY <1>3, <1>7, LineEndFacts DEF start
<1>9. pos <= LineEnd(text, line, pos) /\ LineEnd(text, line, pos) \in 0 .. Size(text)
  BY <1>1, <1>2, <1>3, <1>4, <1>7, <1>8
<1>10. pos \in 0 .. Size(text)
  BY <1>2, <1>6, <1>7
<1> QED
  BY <1>7, <1>8, <1>9, <1>10 DEF pos, start

-----------------------------------------------------------------------------
(* Findings. *)

\* A position after directives is a line and a column again, and without them
\* it is the token's own.
LEMMA PositionFacts ==
  ASSUME NEW text \in Texts, NEW line \in 1 .. LineCount(text), NEW column \in Nat \ {0}
  PROVE  /\ Position(text, line, column).line \in Nat
         /\ Position(text, line, column).column \in Nat
         /\ (\A m \in Directives(text) : m >= line) =>
              Position(text, line, column) = [line |-> line, column |-> column]
<1> DEFINE directives == {n \in 1 .. line - 1 : text.lines[n].sets # None}
           last == Max(directives)
           alt == text.lines[last].sets
           distance == line - (last + 1)
<1>1. LineCount(text) \in Nat /\ line \in Nat /\ line - 1 \in Nat
      /\ directives \in SUBSET (1 .. line - 1)
  BY TextFacts
<1>2. CASE directives = {}
  <2>1. Position(text, line, column) = [line |-> line, column |-> column]
    BY <1>2 DEF Position
  <2> QED
    BY <1>1, <2>1
<1>3. CASE directives # {}
  <2>1. last \in directives
    BY <1>1, <1>3, MaxFacts
  <2>2. last \in 1 .. LineCount(text) /\ last \in Nat /\ distance \in Nat
        /\ text.lines[last].sets # None
    BY <1>1, <2>1
  <2>3. alt \in [line : Nat, column : Nat]
    <3>1. text.lines[last] \in Lines
      BY <2>2, TextFacts
    <3> QED
      BY <2>2, <3>1 DEF Lines
  <2>4. ~ (\A m \in Directives(text) : m >= line)
    <3>1. last \in Directives(text)
      BY <2>2 DEF Directives
    <3> QED
      BY <1>1, <2>1, <3>1
  <2>5. Position(text, line, column) =
          [line |-> alt.line + distance,
           column |-> CASE alt.column = 0 -> 0
                        [] alt.column # 0 /\ distance = 0 -> alt.column + column - 1
                        [] OTHER -> column]
    BY <1>3 DEF Position
  <2>6. alt.line \in Nat /\ alt.column \in Nat
    BY <2>3
  <2> HIDE DEF alt, distance
  <2>7. Position(text, line, column).line = alt.line + distance
    BY <2>5
  <2>8. Position(text, line, column).column \in Nat
    <3>1. CASE alt.column = 0
      BY <2>5, <3>1
    <3>2. CASE alt.column # 0 /\ distance = 0
      BY <2>5, <2>6, <3>2
    <3>3. CASE alt.column # 0 /\ distance # 0
      BY <2>5, <3>3
    <3> QED
      BY <3>1, <3>2, <3>3
  <2> QED
    BY <2>2, <2>4, <2>6, <2>7, <2>8
<1> QED
  BY <1>2, <1>3

\* A finding is determined by its token, which is a use of any on a line.
LEMMA FindingFacts ==
  ASSUME NEW text \in Texts, NEW f \in FindingsIn(text)
  PROVE  LET n == f.token.line
             p == Position(text, n, f.token.column)
         IN  /\ f.token \in Tokens(text)
             /\ n \in 1 .. LineCount(text) /\ f.token.column \in 1 .. text.lines[n].length
             /\ f = [token |-> f.token, line |-> p.line, column |-> p.column,
                     suppressed |-> IsSuppressed(p.line, NolintLines(text))]
             /\ f.line = p.line /\ f.column = p.column
             /\ f.line \in Nat /\ f.column \in Nat
             /\ f.suppressed = IsSuppressed(p.line, NolintLines(text))
             /\ f.suppressed \in BOOLEAN
<1> DEFINE nolint == NolintLines(text)
           Found(t, p) == [token |-> t, line |-> p.line, column |-> p.column,
                           suppressed |-> IsSuppressed(p.line, nolint)]
<1>1. PICK t \in Tokens(text) : f = Found(t, Position(text, t.line, t.column))
  BY DEF FindingsIn
<1>2. PICK n \in 1 .. LineCount(text) : \E c \in text.lines[n].uses :
        t = [line |-> n, column |-> c]
  BY DEF Tokens
<1>3. t.line = n /\ t.column \in text.lines[n].uses
  BY <1>2
<1>4. t.column \in 1 .. text.lines[n].length /\ t.column \in Nat \ {0}
  <2>1. text.lines[n].uses \subseteq 1 .. text.lines[n].length /\ text.lines[n].length \in Nat
    BY TextFacts
  <2> QED
    BY <1>3, <2>1
<1> DEFINE p == Position(text, n, t.column)
<1>5. p.line \in Nat /\ p.column \in Nat
  BY <1>4, PositionFacts
<1>6. IsSuppressed(p.line, nolint) \in BOOLEAN
  BY DEF IsSuppressed
<1>7. f = [token |-> t, line |-> p.line, column |-> p.column,
           suppressed |-> IsSuppressed(p.line, nolint)]
  BY <1>1, <1>3
<1>8. f.token = t /\ f.line = p.line /\ f.column = p.column
      /\ f.suppressed = IsSuppressed(p.line, nolint)
  BY <1>7
<1> HIDE DEF nolint, p
<1> QED
  BY <1>3, <1>4, <1>5, <1>6, <1>7, <1>8 DEF nolint, p

-----------------------------------------------------------------------------
(* The theorems.  The readings are of versions of the file, and what follows *)
(* from them is computed from them.                                          *)

IInv ==
  /\ disk \in Texts
  /\ parsed \in Texts \cup {None} /\ walked \in Texts \cup {None}
  /\ findings = IF walked = None THEN {} ELSE FindingsIn(walked)
  /\ reported # None => /\ parsed # None /\ walked # None
                        /\ reported = Diagnostics(parsed, findings)
  /\ edits \in 0 .. MaxEdits

\* The findings are those of the version walked and the diagnostics those of
\* the version parsed, whatever is on disk by then.
THEOREM Invariance == Spec => []IInv
<1>1. Init => IInv
  BY BoundAssumption DEF Init, IInv
<1>2. IInv /\ [Next]_vars => IInv'
  <2> SUFFICES ASSUME IInv, [Next]_vars PROVE IInv'
    OBVIOUS
  <2>1. CASE Parse
    BY <2>1, NoneAssumption DEF IInv, Parse
  <2>2. CASE Walk
    BY <2>2, NoneAssumption DEF IInv, Walk
  <2>3. CASE Report
    BY <2>3 DEF IInv, Report
  <2>4. CASE Edit
    BY <2>4, BoundAssumption DEF IInv, Edit
  <2>5. CASE UNCHANGED vars
    BY <2>5 DEF IInv, vars
  <2> QED
    BY <2>1, <2>2, <2>3, <2>4, <2>5 DEF Next
<1> QED
  BY <1>1, <1>2, PTL DEF Spec

\* Each diagnostic is of a finding that nothing suppresses, on a line that the
\* pass's file has.
LEMMA DiagnosticFacts ==
  ASSUME IInv, reported # None, NEW d \in reported
  PROVE  LET line == d.finding.line
             pos == ViolationPos(parsed, line, d.finding.column)
         IN  /\ parsed \in Texts /\ walked \in Texts
             /\ d.finding \in FindingsIn(walked) /\ ~ d.finding.suppressed
             /\ line \in 1 .. LineCount(parsed) /\ d.finding.column \in Nat
             /\ d.pos = pos /\ d.end = LineEnd(parsed, line, pos)
<1>1. parsed \in Texts /\ walked \in Texts /\ findings = FindingsIn(walked)
      /\ reported = Diagnostics(parsed, findings)
  BY DEF IInv
<1>2. PICK f \in findings :
        /\ ~ f.suppressed /\ HasLine(parsed, f.line)
        /\ d = LET pos == ViolationPos(parsed, f.line, f.column) IN
                 [finding |-> f, pos |-> pos, end |-> LineEnd(parsed, f.line, pos)]
  BY <1>1 DEF Diagnostics
<1>3. d.finding = f /\ d.pos = ViolationPos(parsed, f.line, f.column)
      /\ d.end = LineEnd(parsed, f.line, ViolationPos(parsed, f.line, f.column))
  BY <1>2
<1>4. f.line \in Nat /\ f.column \in Nat
  BY <1>1, FindingFacts
<1>5. f.line \in 1 .. LineCount(parsed)
  BY <1>1, <1>2, <1>4, TextFacts DEF HasLine
<1> QED
  BY <1>1, <1>2, <1>3, <1>4, <1>5

\* InsideLine: whatever is edited between the two readings, a diagnostic is a
\* range of the pass's file on the line of its finding.
THEOREM StaysInLine == Spec => []InsideLine
<1>1. ASSUME IInv PROVE InsideLine
  <2>1. ASSUME reported # None, NEW d \in reported
        PROVE  LET line == d.finding.line IN
                 /\ d.pos \in 0 .. Size(parsed) /\ d.end \in 0 .. Size(parsed)
                 /\ LineStart(parsed, line) <= d.pos /\ d.pos <= d.end
                 /\ line < LineCount(parsed) => d.end <= EndOf(parsed, line)
    <3> DEFINE line == d.finding.line
    <3>1. /\ parsed \in Texts
          /\ line \in 1 .. LineCount(parsed) /\ d.finding.column \in Nat
          /\ d.pos = ViolationPos(parsed, line, d.finding.column)
          /\ d.end = LineEnd(parsed, line, d.pos)
      BY <1>1, <2>1, DiagnosticFacts
    <3> HIDE DEF line
    <3>2. /\ d.pos \in 0 .. Size(parsed) /\ d.end \in 0 .. Size(parsed)
          /\ LineStart(parsed, line) <= d.pos /\ d.pos <= d.end
          /\ line < LineCount(parsed) => d.end = EndOf(parsed, line)
      BY <3>1, ViolationPosFacts
    <3>3. Size(parsed) \in Nat
      BY <3>1, SizeFacts
    <3> QED
      BY <3>2, <3>3 DEF line
  <2>2. \A text \in {disk, parsed, walked} \ {None} : LineCount(text) > 0
    <3>1. {disk, parsed, walked} \ {None} \subseteq Texts
      BY <1>1 DEF IInv
    <3> QED
      BY <3>1, TextFacts
  <2>3. \A f \in findings :
          /\ f.token \in Tokens(walked)
          /\ f.line \in Nat /\ f.column \in Nat /\ f.suppressed \in BOOLEAN
    <3>1. findings # {} => walked \in Texts /\ findings = FindingsIn(walked)
      BY <1>1 DEF IInv
    <3> QED
      BY <3>1, FindingFacts
  <2>4. edits \in 0 .. MaxEdits
    BY <1>1 DEF IInv
  <2> QED
    BY <2>1, <2>2, <2>3, <2>4 DEF InsideLine, TypeOK
<1> QED
  BY <1>1, Invariance, PTL

\* ReportedAtToken: an edit below a use loses nothing and moves nothing; the use
\* has one diagnostic, from its token to the end of its line.
THEOREM TokensAreReported == Spec => []ReportedAtToken
<1>1. ASSUME IInv, reported # None, NEW f \in findings, ~ f.suppressed,
             LineCount(parsed) >= f.token.line,
             SubSeq(parsed.lines, 1, f.token.line) = SubSeq(walked.lines, 1, f.token.line),
             \A m \in Directives(walked) : m > f.token.line
      PROVE  \E d \in {e \in reported : e.finding.token = f.token} :
               /\ {e \in reported : e.finding.token = f.token} = {d}
               /\ d.pos = LineStart(walked, f.token.line) + f.token.column - 1
               /\ EndOf(parsed, f.token.line) <= d.end
               /\ d.end <= EndOf(parsed, f.token.line) + 1
  <2> DEFINE n == f.token.line
             c == f.token.column
             pos == ViolationPos(parsed, n, c)
             d == [finding |-> f, pos |-> pos, end |-> LineEnd(parsed, n, pos)]
  <2>1. parsed \in Texts /\ walked \in Texts /\ findings = FindingsIn(walked)
        /\ reported = Diagnostics(parsed, findings)
    BY <1>1 DEF IInv
  <2>2. /\ n \in 1 .. LineCount(walked) /\ c \in 1 .. walked.lines[n].length
        /\ f.line = Position(walked, n, c).line /\ f.column = Position(walked, n, c).column
    BY <1>1, <2>1, FindingFacts
  <2>3. LineCount(walked) \in Nat /\ LineCount(parsed) \in Nat /\ n \in Nat /\ n >= 1
        /\ walked.lines[n].length \in Nat /\ c \in Nat \ {0} /\ n \in 1 .. LineCount(parsed)
    BY <1>1, <2>1, <2>2, TextFacts
  <2>4. f.line = n /\ f.column = c
    <3>1. \A m \in Directives(walked) : m >= n
      BY <1>1, <2>3 DEF Directives
    <3>2. Position(walked, n, c) = [line |-> n, column |-> c]
      BY <2>1, <2>2, <2>3, <3>1, PositionFacts
    <3> QED
      BY <2>2, <3>2
  <2>5. \A m \in 1 .. n : parsed.lines[m] = walked.lines[m]
    <3>1. parsed.lines \in Seq(Lines) /\ walked.lines \in Seq(Lines)
      BY <2>1, TextAssumption
    <3>2. 1 \in 1 .. Len(parsed.lines) + 1 /\ n \in 0 .. Len(parsed.lines)
          /\ 1 \in 1 .. Len(walked.lines) + 1 /\ n \in 0 .. Len(walked.lines)
      BY <2>2, <2>3 DEF LineCount
    <3>3. ASSUME NEW m \in 1 .. n PROVE parsed.lines[m] = walked.lines[m]
      <4>1. SubSeq(parsed.lines, 1, n)[m] = parsed.lines[m]
        BY <3>1, <3>2
      <4>2. SubSeq(walked.lines, 1, n)[m] = walked.lines[m]
        BY <3>1, <3>2
      <4> QED
        BY <1>1, <4>1, <4>2
    <3> QED
      BY <3>3
  <2>6. LineStart(parsed, n) = LineStart(walked, n)
        /\ parsed.lines[n].length = walked.lines[n].length
    <3>1. SameAbove(parsed, walked, n)
      BY <2>3, <2>5 DEF SameAbove
    <3> QED
      BY <2>1, <2>3, <2>5, <3>1, LineStartAgrees
  <2>7. d \in reported
    <3>1. HasLine(parsed, f.line) /\ f \in {g \in findings : ~ g.suppressed /\ HasLine(parsed, g.line)}
      BY <1>1, <2>3, <2>4 DEF HasLine
    <3> QED
      BY <2>1, <2>4, <3>1 DEF Diagnostics
  <2>8. ASSUME NEW e \in reported, e.finding.token = f.token PROVE e = d
    <3>1. PICK g \in findings :
            e = [finding |-> g, pos |-> ViolationPos(parsed, g.line, g.column),
                 end |-> LineEnd(parsed, g.line, ViolationPos(parsed, g.line, g.column))]
      BY <2>1 DEF Diagnostics
    <3>2. e.finding = g
      BY <3>1
    <3>3. g = f
      BY <2>1, <2>8, <3>2, FindingFacts
    <3> QED
      BY <2>4, <3>1, <3>3
  <2>9. d.finding = f /\ d.pos = pos /\ d.end = LineEnd(parsed, n, pos)
    OBVIOUS
  <2> HIDE DEF n, c, pos
  <2>10. pos = LineStart(walked, n) + c - 1
         /\ (n < LineCount(parsed) => LineEnd(parsed, n, pos) = EndOf(parsed, n))
         /\ (n = LineCount(parsed) => LineEnd(parsed, n, pos) = Size(parsed))
    BY <2>1, <2>2, <2>3, <2>6, ViolationPosFacts DEF pos
  <2>11. EndOf(parsed, n) <= d.end /\ d.end <= EndOf(parsed, n) + 1
    <3>1. EndOf(parsed, n) \in Nat
      BY <2>1, <2>2, <2>3, <2>6, LineStartFacts DEF EndOf
    <3>2. n = LineCount(parsed) =>
            EndOf(parsed, n) <= Size(parsed) /\ Size(parsed) <= EndOf(parsed, n) + 1
      BY <2>1, SizeFacts
    <3>3. n < LineCount(parsed) \/ n = LineCount(parsed)
      BY <2>3
    <3> QED
      BY <2>9, <2>10, <3>1, <3>2, <3>3
  <2> HIDE DEF d
  <2>12. {e \in reported : e.finding.token = f.token} = {d}
    BY <2>7, <2>8, <2>9
  <2> QED
    BY <2>9, <2>10, <2>11, <2>12 DEF n, c
<1>2. IInv => ReportedAtToken
  BY <1>1 DEF ReportedAtToken
<1> QED
  BY <1>2, Invariance, PTL

\* SilencedByItsComment: without //line directives a use is silent exactly when a
\* comment that names anyguard, all linters or none covers its line or the one
\* above.
THEOREM CommentsSilence == Spec => []SilencedByItsComment
<1>1. ASSUME IInv, walked # None, NEW f \in findings, Directives(walked) = {}
      PROVE  f.suppressed <=>
               \E n \in 1 .. LineCount(walked) : \E c \in walked.lines[n].comments :
                 /\ Matches(c)
                 /\ n <= f.token.line /\ f.token.line <= n + c.more + 1
  <2> DEFINE line == f.token.line
  <2>1. walked \in Texts /\ findings = FindingsIn(walked)
    BY <1>1 DEF IInv
  <2>2. /\ line \in 1 .. LineCount(walked) /\ f.token.column \in 1 .. walked.lines[line].length
        /\ f.suppressed = IsSuppressed(Position(walked, line, f.token.column).line,
                                       NolintLines(walked))
    BY <1>1, <2>1, FindingFacts
  <2>3. \A n \in 1 .. LineCount(walked) : \A column \in Nat \ {0} :
          Position(walked, n, column).line = n
    BY <1>1, <2>1, PositionFacts
  <2>4. LineCount(walked) \in Nat /\ walked.lines[line].length \in Nat
        /\ line \in Nat /\ line > 0 /\ f.token.column \in Nat \ {0}
    BY <2>1, <2>2, TextFacts
  <2>5. ASSUME NEW l \in Nat
        PROVE  l \in NolintLines(walked) <=>
                 \E n \in 1 .. LineCount(walked) : \E c \in walked.lines[n].comments :
                   Matches(c) /\ n <= l /\ l <= n + c.more
    <3>1. ASSUME NEW n \in 1 .. LineCount(walked), NEW c \in walked.lines[n].comments
          PROVE  /\ Position(walked, n, 1).line = n
                 /\ Position(walked, n + c.more, 1).line = n + c.more
                 /\ l \in n .. n + c.more <=> (n <= l /\ l <= n + c.more)
      <4>1. c.more \in Nat /\ n + c.more <= LineCount(walked)
        BY <2>1, TextFacts
      <4>2. n + c.more \in 1 .. LineCount(walked) /\ 1 \in Nat \ {0}
        BY <2>4, <4>1
      <4> QED
        BY <2>3, <4>1, <4>2
    <3>2. l \in NolintLines(walked) <=>
            \E n \in 1 .. LineCount(walked) :
              \E c \in {d \in walked.lines[n].comments : Matches(d)} :
                l \in Position(walked, n, 1).line .. Position(walked, n + c.more, 1).line
      BY DEF NolintLines
    <3> QED
      BY <3>1, <3>2
  <2>6. f.suppressed <=> (line \in NolintLines(walked) \/ line - 1 \in NolintLines(walked))
    BY <2>2, <2>3, <2>4 DEF IsSuppressed
  <2>7. ASSUME NEW n \in 1 .. LineCount(walked), NEW c \in walked.lines[n].comments
        PROVE  (n <= line /\ line <= n + c.more + 1) <=>
                 ((n <= line /\ line <= n + c.more) \/ (n <= line - 1 /\ line - 1 <= n + c.more))
    <3>1. c.more \in Nat
      BY <2>1, TextFacts
    <3> QED
      BY <2>4, <3>1
  <2>8. line - 1 \in Nat
    BY <2>4
  <2> HIDE DEF line
  <2>9. f.suppressed <=>
          \E n \in 1 .. LineCount(walked) : \E c \in walked.lines[n].comments :
            Matches(c) /\ n <= line /\ line <= n + c.more + 1
    BY <2>4, <2>5, <2>6, <2>7, <2>8
  <2> QED
    BY <2>9 DEF line
<1>2. IInv => SilencedByItsComment
  BY <1>1 DEF SilencedByItsComment
<1> QED
  BY <1>2, Invariance, PTL

=============================================================================
