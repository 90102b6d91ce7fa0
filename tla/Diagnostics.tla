----------------------------- MODULE Diagnostics -----------------------------
(***************************************************************************)
(* From a use of any to the place where a pass reports it.  The repo-wide  *)
(* walk gives each finding the line and column of its token and looks for  *)
(* nolint comments (any_usage.go: collectParsedFileFindings,               *)
(* collectNolintLines).  A pass turns line and column back into a position *)
(* of its own token file (analyzer.go: reportViolation, violationPos,      *)
(* lineEnd), which the driver parsed at another time, perhaps from another *)
(* version of the file.                                                    *)
(*                                                                         *)
(* A position is an offset into the file; token.File adds its base.        *)
(***************************************************************************)
EXTENDS Integers, Sequences, SequencesExt, FiniteSetsExt

CONSTANTS
  Texts,    \* the versions of the file
  MaxEdits, \* bound: edits of the file
  None

\* A line has a length, columns where any is used, the nolint comments that
\* begin on it, and perhaps a //line directive, which must fill the line.  A
\* comment spans some more lines, and each nolint in it lists some linters.
Lines == [length : Nat, uses : SUBSET (Nat \ {0}),
          comments : SUBSET [more : Nat, nolints : SUBSET SUBSET STRING],
          sets : [line : Nat, column : Nat] \cup {None}]

ASSUME TextAssumption ==
  \A text \in Texts :
    /\ text.newline \in BOOLEAN
    /\ text.lines \in Seq(Lines) /\ text.lines # <<>>
    /\ text.newline \/ Last(text.lines).length > 0
    /\ \A n \in 1 .. Len(text.lines) :
         LET line == text.lines[n] IN
           /\ line.uses \subseteq 1 .. line.length
           /\ \A c \in line.comments : n + c.more <= Len(text.lines)
           /\ line.sets # None => line.uses = {} /\ line.comments = {}

ASSUME NoneAssumption == None \notin Texts

ASSUME BoundAssumption == MaxEdits \in Nat

VARIABLES
  disk,     \* the file
  parsed,   \* what the driver parsed for the pass
  walked,   \* what the walk of the repository read
  findings, \* what it found in it
  reported, \* the diagnostics of the pass
  edits

vars == <<disk, parsed, walked, findings, reported, edits>>

-----------------------------------------------------------------------------
(* token.File: an offset at the start of each line, none after the last     *)
(* newline                                                                  *)

LineCount(text) == Len(text.lines)

LineStart(text, n) ==
  LET start[m \in 1 .. n] ==
        IF m = 1 THEN 0 ELSE start[m - 1] + text.lines[m - 1].length + 1
  IN  start[n]

Size(text) == LineStart(text, LineCount(text) + 1) - (IF text.newline THEN 0 ELSE 1)

\* FileSet.Position: after a //line directive lines are counted from the line
\* it sets, and columns are known only if it sets one.
Position(text, line, column) ==
  LET directives == {n \in 1 .. line - 1 : text.lines[n].sets # None}
      last == Max(directives)
      alt == text.lines[last].sets
      distance == line - (last + 1)
  IN  IF directives = {} THEN [line |-> line, column |-> column]
      ELSE [line |-> alt.line + distance,
            column |-> CASE alt.column = 0 -> 0
                         [] alt.column # 0 /\ distance = 0 -> alt.column + column - 1
                         [] OTHER -> column]

-----------------------------------------------------------------------------
(* The walk *)

Linter == "anyguard"

\* matchesAnyguardNolint: some nolint lists no linter, all of them, or this.
Matches(comment) ==
  \E list \in comment.nolints : list = {} \/ {"all", Linter} \cap list # {}

\* Variant: only the first line of a comment counts.
NolintLinesByStart(text) ==
  {Position(text, n, 1).line : n \in
     {m \in 1 .. LineCount(text) : \E c \in text.lines[m].comments : Matches(c)}}

\* collectNolintLines
NolintLines(text) ==
  UNION {UNION {Position(text, n, 1).line .. Position(text, n + c.more, 1).line :
                  c \in {d \in text.lines[n].comments : Matches(d)}} :
           n \in 1 .. LineCount(text)}

IsSuppressed(line, nolint) == line > 0 /\ (line \in nolint \/ line - 1 \in nolint)

Tokens(text) ==
  UNION {{[line |-> n, column |-> c] : c \in text.lines[n].uses} : n \in 1 .. LineCount(text)}

\* collectParsedFileFindings, with the token each finding stems from.
FindingsIn(text) ==
  LET nolint == NolintLines(text)
      Found(t, p) == [token |-> t, line |-> p.line, column |-> p.column,
                      suppressed |-> IsSuppressed(p.line, nolint)]
  IN  {Found(t, Position(text, t.line, t.column)) : t \in Tokens(text)}

-----------------------------------------------------------------------------
(* The pass *)

LineEnd(text, line, pos) ==
  CASE line < LineCount(text) /\ LineStart(text, line + 1) > pos ->
         LineStart(text, line + 1) - 1
    [] Size(text) > pos /\ (line >= LineCount(text) \/ LineStart(text, line + 1) <= pos) ->
         Size(text)
    [] OTHER -> pos

HasLine(text, line) == line > 0 /\ line <= LineCount(text)

\* Variant: a column beyond the line is not cut.
ViolationPosUncut(text, line, column) ==
  IF column <= 1 THEN LineStart(text, line) ELSE LineStart(text, line) + column - 1

\* Variant: columns are taken to start at 0.
ViolationPosFromZero(text, line, column) ==
  LET start == LineStart(text, line)
      end == LineEnd(text, line, start)
  IN  IF start + column > end THEN end ELSE start + column

\* violationPos, for a line the file has.
ViolationPos(text, line, column) ==
  LET start == LineStart(text, line)
      end == LineEnd(text, line, start)
  IN  CASE column <= 1 -> start
        [] column > 1 /\ start + column - 1 > end -> end
        [] OTHER -> start + column - 1

\* appendAnalyzerViolations and reportViolation: what is suppressed or has no
\* line in the file is not reported.
Diagnostics(text, found) ==
  {LET pos == ViolationPos(text, f.line, f.column) IN
     [finding |-> f, pos |-> pos, end |-> LineEnd(text, f.line, pos)] :
     f \in {g \in found : ~ g.suppressed /\ HasLine(text, g.line)}}

-----------------------------------------------------------------------------

Init ==
  /\ disk \in Texts
  /\ parsed = None /\ walked = None
  /\ findings = {} /\ reported = None
  /\ edits = 0

\* The driver loads the package of the pass.
Parse ==
  /\ parsed = None /\ parsed' = disk
  /\ UNCHANGED <<disk, walked, findings, reported, edits>>

\* Some pass collects the repository.
Walk ==
  /\ walked = None /\ walked' = disk
  /\ findings' = FindingsIn(disk)
  /\ UNCHANGED <<disk, parsed, reported, edits>>

Report ==
  /\ parsed # None /\ walked # None /\ reported = None
  /\ reported' = Diagnostics(parsed, findings)
  /\ UNCHANGED <<disk, parsed, walked, findings, edits>>

\* Only an edit between the two readings can matter.
Edit ==
  /\ edits < MaxEdits /\ edits' = edits + 1
  /\ parsed = None \/ walked = None
  /\ disk' \in Texts \ {disk}
  /\ UNCHANGED <<parsed, walked, findings, reported>>

Next == Parse \/ Walk \/ Report \/ Edit

Spec == Init /\ [][Next]_vars

-----------------------------------------------------------------------------
(* Properties *)

TypeOK ==
  /\ \A text \in {disk, parsed, walked} \ {None} : LineCount(text) > 0
  /\ \A f \in findings :
       /\ f.token \in Tokens(walked)
       /\ f.line \in Nat /\ f.column \in Nat /\ f.suppressed \in BOOLEAN
  /\ reported # None =>
       \A d \in reported : d.pos \in 0 .. Size(parsed) /\ d.end \in 0 .. Size(parsed)
  /\ edits \in 0 .. MaxEdits

Directives(text) == {n \in 1 .. LineCount(text) : text.lines[n].sets # None}

EndOf(text, line) == LineStart(text, line) + text.lines[line].length

\* Whatever was edited between the two readings, a diagnostic is a range of
\* the pass's own file, on the line of its finding: it begins there, at the
\* newline at the latest, and does not run into the next line.  The variables
\* have their types.
InsideLine ==
  /\ TypeOK
  /\ reported # None =>
       \A d \in reported :
         LET line == d.finding.line IN
           /\ LineStart(parsed, line) <= d.pos /\ d.pos <= d.end
           /\ line < LineCount(parsed) => d.end <= EndOf(parsed, line)

\* Text before the end of a line decides where it is: if both readings agree
\* up to the line of a use that nothing suppresses, and no directive renumbers
\* it, the use has one diagnostic, from its token to the end of its line.  An
\* edit below loses nothing and moves nothing.
ReportedAtToken ==
  reported # None =>
    \A f \in findings :
      LET n == f.token.line
          Above(text) == SubSeq(text.lines, 1, n)
          Own == {d \in reported : d.finding.token = f.token}
      IN  /\ ~ f.suppressed
          /\ LineCount(parsed) >= n /\ Above(parsed) = Above(walked)
          /\ \A m \in Directives(walked) : m > n
          => \E d \in Own :
               /\ Own = {d}
               /\ d.pos = LineStart(walked, n) + f.token.column - 1
               /\ EndOf(parsed, n) <= d.end /\ d.end <= EndOf(parsed, n) + 1

\* In a file without //line directives a use is silenced exactly by a nolint
\* comment that names anyguard, all linters or none, and that covers its line
\* or the line above, on any of the lines the comment spans.
SilencedByItsComment ==
  walked # None =>
    \A f \in findings :
      Directives(walked) = {} =>
        (f.suppressed <=>
           \E n \in 1 .. LineCount(walked) : \E c \in walked.lines[n].comments :
             /\ Matches(c)
             /\ n <= f.token.line /\ f.token.line <= n + c.more + 1)

\* README.md:170: line and column identity are the exact 1-based source
\* coordinates of the matched any token.
ExactCoordinates ==
  \A f \in findings : f.line = f.token.line /\ f.column = f.token.column

=============================================================================
