---------------------------- MODULE MCDiagnostics ----------------------------
(* Small instances of Diagnostics for TLC. *)
EXTENDS Diagnostics

Line(length, uses, comments) ==
  [length |-> length, uses |-> uses, comments |-> comments, sets |-> None]

Directive(line, column) ==
  [length |-> 3, uses |-> {}, comments |-> {}, sets |-> [line |-> line, column |-> column]]

Comment(more, nolints) == [more |-> more, nolints |-> nolints]

\* An empty line, lines with uses, one of them beside a comment for another
\* linter, a comment for this one, one for all that spans a line more, and a directive.
MCLines ==
  {Line(0, {}, {}), Line(3, {1, 3}, {}), Line(2, {1}, {Comment(0, {{"other"}})}),
   Line(2, {}, {Comment(0, {{"anyguard"}})}),
   Line(2, {}, {Comment(1, {{"other"}, {}})}), Directive(2, 0)}

Text(lines, newline) == [lines |-> lines, newline |-> newline]

\* Comments end inside the file, and a line is begun by a character;
\* the longest texts end in a newline.
Whole(text) ==
  /\ text.newline \/ Last(text.lines).length > 0
  /\ \A n \in 1 .. Len(text.lines) : \A c \in text.lines[n].comments :
       n + c.more <= Len(text.lines)

MCTexts ==
  {text \in {Text(lines, newline) : lines \in SeqOf(MCLines, 3) \ {<<>>},
                                    newline \in BOOLEAN} :
     Whole(text) /\ (text.newline \/ Len(text.lines) < 3)}

\* Directives without and with a column, before lines with uses.
MCDirectives ==
  {Text(<<Directive(line, column), Line(3, {1, 3}, {}), Line(2, {1}, {})>>, TRUE) :
     line \in {1, 2, 9}, column \in {0, 1, 5}}

=============================================================================
