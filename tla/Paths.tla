------------------------------- MODULE Paths -------------------------------
(***************************************************************************)
(* Slash-separated paths as path/filepath treats them.  A name is a        *)
(* sequence of characters, a path is absolute or not and a sequence of     *)
(* names; "." is the path without names.                                   *)
(***************************************************************************)
EXTENDS Naturals, Sequences, SequencesExt

Dot == <<".">>
DotDot == <<"..">>
Dots == <<"...">>

Relative(names) == [abs |-> FALSE, names |-> names]
Absolute(names) == [abs |-> TRUE, names |-> names]

\* filepath.Clean: no empty names, no ".", ".." only where nothing is left to
\* go up from.
Clean(path) ==
  LET Step(names, name) ==
        IF name \in {<<>>, Dot} THEN names
        ELSE IF name # DotDot THEN Append(names, name)
        ELSE IF names # <<>> /\ Last(names) # DotDot THEN Front(names)
        ELSE IF path.abs THEN names ELSE Append(names, DotDot)
  IN  FoldLeft(Step, <<>>, path.names)

\* filepath.Rel between absolute paths.
Rel(base, target) ==
  LET shared == Len(LongestCommonPrefix({base, target}))
  IN  [n \in 1 .. Len(base) - shared |-> DotDot] \o SubSeq(target, shared + 1, Len(target))

\* filepath.Abs, and filepath.Join with a directory.
From(dir, path) == Clean(IF path.abs THEN path ELSE Absolute(dir \o path.names))
=============================================================================
