---------------------------- MODULE RootSettings ----------------------------
(***************************************************************************)
(* From the roots a user writes to the directories that are walked and the *)
(* files that are kept: plugin/plugin.go, and splitRoots,                  *)
(* normalizeConfiguredRoots and isWithinRoots in                           *)
(* internal/validation/analyzer.go.                                        *)
(*                                                                         *)
(* A text is the sequence of its pieces between commas, each a path or     *)
(* Blank; space around a piece never matters.                              *)
(***************************************************************************)
EXTENDS Paths

CONSTANT Blank

\* normalizeRoots: a list without its blank elements.
NormalizeRoots(texts) == SelectSeq(texts, LAMBDA text : text # <<Blank>>)

\* splitRootCSV
SplitRootCSV(text) == NormalizeRoots([n \in 1 .. Len(text) |-> <<text[n]>>])

\* rootsSetting.UnmarshalJSON: a list of texts, or one text.
UnmarshalRoots(setting) ==
  IF setting.list THEN NormalizeRoots(setting.texts) ELSE SplitRootCSV(setting.texts[1])

\* splitRoots
SplitRoots(text) == SelectSeq(text, LAMBDA piece : piece # Blank)

\* normalizeRootValue: "..." and "./..." are the repository, "/..." at the end
\* of anything else is dropped, and a bare "/..." is the repository as well.
NormalizeRootValue(root) ==
  IF root \in {Relative(<<Dots>>), Relative(<<Dot, Dots>>), Absolute(<<Dots>>)}
    THEN Relative(<<Dot>>)
  ELSE IF root.names # <<>> /\ Last(root.names) = Dots
    THEN [root EXCEPT !.names = Front(root.names)]
  ELSE root

\* normalizeConfiguredRoots, of one root.
NormalizeConfiguredRoot(root, repoRoot) ==
  LET value == NormalizeRootValue(root)
  IN  IF value.abs THEN Rel(repoRoot, Clean(value)) ELSE Clean(value)

NormalizeConfiguredRoots(roots, repoRoot) ==
  [n \in 1 .. Len(roots) |-> NormalizeConfiguredRoot(roots[n], repoRoot)]

\* Variant: a root admits what begins with the same letters.
IsNextToRoots(rel, roots) ==
  \E n \in 1 .. Len(roots) :
    roots[n] = <<>> \/ IsPrefix(FlattenSeq(roots[n]), FlattenSeq(rel))

\* isWithinRoots: the root itself, or below it.
IsWithinRoots(rel, roots) == \E n \in 1 .. Len(roots) : IsPrefix(roots[n], rel)

\* resolveRootPath takes "/..." off what was normalised once already.
ResolveRootPath(repoRoot, root) == From(repoRoot, NormalizeRootValue(Relative(root)))
=============================================================================
