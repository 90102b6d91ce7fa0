---------------------------- MODULE ExcludeGlobs ----------------------------
(***************************************************************************)
(* exclude_globs: compileExcludeGlobs, globRegexExpression and shouldExclude *)
(* in internal/validation/any_usage.go.  A glob is rewritten into a regular *)
(* expression, as a text, by replacements one after the other.             *)
(***************************************************************************)
EXTENDS Paths

Stars == {"*", "?"}

\* The characters of a path, with the slashes.
Spelled(names) ==
  FlattenSeq([n \in 1 .. Len(names) |-> IF n = 1 THEN names[n] ELSE <<"/">> \o names[n]])

\* regexp.QuoteMeta; a quoted character is one symbol of the expression.
QuoteMeta(text) ==
  [n \in 1 .. Len(text) |->
     CASE text[n] = "*" -> "\\*" [] text[n] = "?" -> "\\?" [] OTHER -> text[n]]

\* strings.ReplaceAll of two stars, from the left and without overlap.
ReplacePairs(text, by) ==
  LET from[n \in 1 .. Len(text) + 2] ==
        IF n > Len(text) THEN <<>>
        ELSE IF n < Len(text) /\ text[n] = "\\*" /\ text[n + 1] = "\\*"
          THEN <<by>> \o from[n + 2]
        ELSE <<text[n]>> \o from[n + 1]
  IN  from[1]

\* Variant: single stars are replaced before double ones.
StarsFirst(pattern) ==
  LET stars == ReplaceAll(QuoteMeta(pattern), "\\*", "[^/]*")
      marked == ReplacePairs(stars, "<<ANY>>")
  IN  ReplaceAll(ReplaceAll(marked, "\\?", "[^/]"), "<<ANY>>", ".*")

\* globRegexExpression: the marker keeps double stars from the replacement of
\* single ones.
GlobRegexExpression(pattern) ==
  LET marked == ReplacePairs(QuoteMeta(pattern), "<<ANY>>")
      starred == ReplaceAll(marked, "\\*", "[^/]*")
  IN  ReplaceAll(ReplaceAll(starred, "\\?", "[^/]"), "<<ANY>>", ".*")

\* MatchString of an expression between ^ and $.
MatchString(expr, text) ==
  LET rest[n \in 1 .. Len(expr) + 1, m \in 1 .. Len(text) + 1] ==
        IF n > Len(expr) THEN m > Len(text)
        ELSE LET Char == m <= Len(text)
                 Inner == m <= Len(text) /\ text[m] # "/"
             IN CASE expr[n] = ".*" -> rest[n + 1, m] \/ (Char /\ rest[n, m + 1])
                  [] expr[n] = "[^/]*" -> rest[n + 1, m] \/ (Inner /\ rest[n, m + 1])
                  [] expr[n] = "[^/]" -> Inner /\ rest[n + 1, m + 1]
                  [] OTHER -> Char /\ text[m] = expr[n] /\ rest[n + 1, m + 1]
  IN  rest[1, 1]

\* normalizePath of a path as written: the slash in front stays.
NormalizePath(path) ==
  LET names == Clean(path)
  IN  IF path.abs THEN <<"/">> \o Spelled(names)
      ELSE IF names = <<>> THEN Dot ELSE Spelled(names)

\* A glob is a path whose names may hold stars; the blank one has no name.
NoGlob == Relative(<<>>)

\* compileExcludeGlobs: blank globs are passed over, the others normalised.
CompileExcludeGlobs(globs) ==
  LET used == SelectSeq(globs, LAMBDA glob : glob # NoGlob)
  IN  [n \in 1 .. Len(used) |-> GlobRegexExpression(NormalizePath(used[n]))]

ShouldExclude(rel, matchers) ==
  \E n \in 1 .. Len(matchers) : MatchString(matchers[n], Spelled(rel))

-----------------------------------------------------------------------------
(* The rule for globs: there is a way to cut the path into the pieces of    *)
(* the glob.  A run of stars is a piece, of one star inside a segment and   *)
(* of more stars across them; any other character is a piece of its own.    *)
(* Names that say nothing are no part of the glob, and an absolute glob     *)
(* matches no path below a repository.  ends[n] is where the first n pieces *)
(* may end.                                                                 *)

GlobMatches(glob, rel) ==
  LET pattern == Spelled(SelectSeq(glob.names, LAMBDA name : name \notin {<<>>, Dot}))
      text == Spelled(rel)
      Crosses(n) == \/ n > 1 /\ pattern[n - 1] = "*"
                    \/ n < Len(pattern) /\ pattern[n + 1] = "*"
      Fits(n, piece) ==
        CASE pattern[n] = "*" -> Crosses(n) \/ "/" \notin ToSet(piece)
          [] pattern[n] = "?" -> Len(piece) = 1 /\ piece[1] # "/"
          [] OTHER -> piece = <<pattern[n]>>
      ends[n \in 0 .. Len(pattern)] ==
        IF n = 0 THEN {0}
        ELSE LET starts == ends[n - 1]
             IN  {m \in 0 .. Len(text) :
                    \E k \in starts : k <= m /\ Fits(n, SubSeq(text, k + 1, m))}
  IN  ~ glob.abs /\ Len(text) \in ends[Len(pattern)]
=============================================================================
