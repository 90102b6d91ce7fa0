------------------------------ MODULE RepoWalk ------------------------------
(***************************************************************************)
(* The repo-wide collection of findings: collectFindingsWithCompiled-      *)
(* ExcludeGlobs and what it calls in internal/validation/any_usage.go, and *)
(* the index by file that newRepoValidationResult builds over it in        *)
(* repo_validation_cache.go.  Roots are walked in the order given, each    *)
(* walk parses the files it keeps, groups them in packages and collects    *)
(* the uses that no package or import declaration shadows.                 *)
(*                                                                         *)
(* Inside a file the uses are given (UsesOf); declarations nested in       *)
(* functions and types belong to the AST walk.                             *)
(***************************************************************************)
EXTENDS Naturals, Sequences, FiniteSets, FiniteSetsExt

CONSTANTS
  RawRoots,  \* roots as configured
  RootOf,    \* [RawRoots -> Dirs \cup Blank], normalizeRootValue and Clean
  Blank,     \* what an empty root normalises to
  Walk,      \* the files of the repository, in the order WalkDir meets them
  Sorted,    \* the same files, in the order of their relative paths
  DirOf,     \* [Files -> Dirs], the directory of a file
  Dirs,      \* directories, "." among them, in a set
  Below,     \* [Dirs -> SUBSET Dirs], a directory and those under it
  UsesOf,    \* [Files -> sequence of uses], by line; a use has a line and owner
  RootLists, \* the root lists to walk
  Excludes,  \* the sets of files exclude_globs may match
  Worlds     \* the repositories to walk

Files == Range(Walk)

\* What a walk meets at a file: "go" parses, "broken" fails to be matched,
\* read or parsed, "skipped" is not a Go file of this build, and "unreadable"
\* makes WalkDir call back with an error.
Status == {"go", "broken", "skipped", "unreadable"}

ASSUME WalkAssumption ==
  /\ Walk \in Seq(Files) /\ IsInjective(Walk)
  /\ Sorted \in Seq(Files) /\ IsInjective(Sorted) /\ Range(Sorted) = Files
  /\ RootOf \in [RawRoots -> Dirs \cup {Blank, "gone"}]
  /\ {Blank, "gone"} \cap Dirs = {} /\ Blank # "gone"
  /\ DirOf \in [Files -> Dirs] /\ Below \in [Dirs -> SUBSET Dirs]
  /\ RootLists \subseteq Seq(RawRoots) /\ Excludes \subseteq SUBSET Files
  /\ Worlds \subseteq [Files -> [status : Status, package : STRING,
                                 declares : BOOLEAN, imports : BOOLEAN]]

\* A file is collected line by line: no two of its uses are at one position,
\* as there would be below a //line directive.
ASSUME UsesAssumption ==
  /\ UsesOf \in [Files -> Seq([line : Nat, owner : STRING])]
  /\ \A f \in Files : \A m, n \in DOMAIN UsesOf[f] :
       UsesOf[f][m].line = UsesOf[f][n].line => m = n

VARIABLES
  world,    \* the files: status, package clause, and whether the package
            \* block or the imports of the file declare any
  excluded, \* the files exclude_globs matches
  given,    \* the roots configured
  root,     \* the index of the root at hand
  todo,     \* what the loop at work has yet to meet: positions in Walk, and
            \* then in Sorted
  kept,     \* the files the walk of the root parsed
  findings, \* what has been collected
  ranges,   \* fileRanges: the positions of the findings of a file
  phase     \* the loop at work

vars == <<world, excluded, given, root, todo, kept, findings, ranges, phase>>

input == <<world, excluded, given>>

Under(dir) == {f \in Files : DirOf[f] \in Below[dir]}

Init ==
  /\ world \in Worlds
  /\ excluded \in Excludes
  /\ given \in RootLists /\ given # <<>>
  /\ root = 1
  /\ todo = {}
  /\ kept = {}
  /\ findings = <<>>
  /\ ranges = <<>>
  /\ phase = "roots"

\* The collection returns its first error and no finding.
Fail ==
  /\ phase' = "failed"
  /\ findings' = <<>>
  /\ UNCHANGED <<input, root, todo, kept, ranges>>

-----------------------------------------------------------------------------
(* resolveRootPath *)

AtRoot == phase = "roots" /\ root <= Len(given)

Root == RootOf[given[root]]

SkipRoot ==
  /\ AtRoot /\ Root = Blank
  /\ root' = root + 1
  /\ UNCHANGED <<input, todo, kept, findings, ranges, phase>>

MissingRoot == AtRoot /\ Root = "gone" /\ Fail

EnterRoot ==
  /\ AtRoot /\ Root \in Dirs
  /\ todo' = {n \in DOMAIN Walk : Walk[n] \in Under(Root)}
  /\ kept' = {}
  /\ phase' = "walk"
  /\ UNCHANGED <<input, root, findings, ranges>>

-----------------------------------------------------------------------------
(* parseRootFile, called back by WalkDir *)

\* Variant: a file that cannot be read or parsed is passed over.
RefusesNothing(f) == FALSE

\* A traversal error ends the walk, and so does a kept file that is broken.
Refuses(f) ==
  \/ world[f].status = "unreadable"
  \/ f \notin excluded /\ world[f].status = "broken"

Keeps(f) == f \notin excluded /\ world[f].status = "go"

RefuseFile ==
  /\ phase = "walk" /\ todo # {} /\ Refuses(Walk[Min(todo)])
  /\ Fail

VisitFile ==
  /\ phase = "walk" /\ todo # {}
  /\ LET f == Walk[Min(todo)] IN
       /\ ~ Refuses(f)
       /\ kept' = IF Keeps(f) THEN kept \cup {f} ELSE kept
  /\ todo' = todo \ {Min(todo)}
  /\ UNCHANGED <<input, root, findings, ranges, phase>>

EndWalk ==
  /\ phase = "walk" /\ todo = {}
  /\ todo' = {n \in DOMAIN Sorted : Sorted[n] \in kept}
  /\ phase' = "collect"
  /\ UNCHANGED <<input, root, kept, findings, ranges>>

-----------------------------------------------------------------------------
(* finalizeParsedPackages, newLexicalAnyResolver, collectParsedFileFindings *)

\* Variant: files are grouped by directory only, external tests included.
SameDirectory(f, g) == DirOf[f] = DirOf[g]

\* parsedPackageKey: the directory and the package clause.
SamePackage(f, g) ==
  DirOf[f] = DirOf[g] /\ world[f].package = world[g].package

\* The package block of any kept file shadows any in all of its package, an
\* import named any only in its own file.
Shadowed(f) ==
  \/ world[f].imports
  \/ \E g \in kept : SamePackage(f, g) /\ world[g].declares

FindingsIn(f) ==
  [n \in 1 .. Len(UsesOf[f]) |->
     [file |-> f, line |-> UsesOf[f][n].line, owner |-> UsesOf[f][n].owner]]

\* The files are met in path order; where packages begin does not matter
\* because everything is sorted in the end.
CollectFile ==
  /\ phase = "collect" /\ todo # {}
  /\ LET f == Sorted[Min(todo)] IN
       findings' = IF Shadowed(f) THEN findings ELSE findings \o FindingsIn(f)
  /\ todo' = todo \ {Min(todo)}
  /\ UNCHANGED <<input, root, kept, ranges, phase>>

EndRoot ==
  /\ phase = "collect" /\ todo = {}
  /\ root' = root + 1
  /\ phase' = "roots"
  /\ UNCHANGED <<input, todo, kept, findings, ranges>>

-----------------------------------------------------------------------------
(* sortCollectedFindings and indexRepoValidationFindingRanges *)

Place(f) == CHOOSE n \in DOMAIN Sorted : Sorted[n] = f

Before(x, y) ==
  \/ Place(x.file) < Place(y.file)
  \/ x.file = y.file /\ x.line < y.line

\* Variant: the findings stay in the order of the roots.
Unsorted(s) == s

\* Element m comes before element n: the findings that Before leaves open are
\* equal, and are kept as they are.
Precedes(s, m, n) ==
  \/ Before(s[m], s[n])
  \/ ~ Before(s[n], s[m]) /\ m < n

InOrder(s) ==
  LET rank == [n \in DOMAIN s |->
                 Cardinality({m \in DOMAIN s : m = n \/ Precedes(s, m, n)})]
  IN  [r \in DOMAIN s |-> s[CHOOSE n \in DOMAIN s : rank[n] = r]]

\* Each run of findings of one file becomes the range of that file, the last
\* run if there are several.
RangesOf(s) ==
  LET Starts(f) == {n \in DOMAIN s : s[n].file = f /\ (n = 1 \/ s[n - 1].file # f)}
      Ends(f) == {n \in DOMAIN s : s[n].file = f /\ (n = Len(s) \/ s[n + 1].file # f)}
  IN  [f \in {s[n].file : n \in DOMAIN s} |->
         [start |-> Max(Starts(f)),
          end |-> Min({n \in Ends(f) : n >= Max(Starts(f))})]]

EndRoots ==
  /\ phase = "roots" /\ root > Len(given)
  /\ findings' = InOrder(findings)
  /\ ranges' = RangesOf(findings')
  /\ phase' = "done"
  /\ UNCHANGED <<input, root, todo, kept>>

Next ==
  \/ SkipRoot \/ MissingRoot \/ EnterRoot
  \/ RefuseFile \/ VisitFile \/ EndWalk
  \/ CollectFile \/ EndRoot \/ EndRoots

Spec == Init /\ [][Next]_vars

-----------------------------------------------------------------------------
(* The reading of the result by the analysis passes, in analyzer.go *)

\* findingsForFile
Slice(f) ==
  IF f \in DOMAIN ranges THEN SubSeq(findings, ranges[f].start, ranges[f].end)
  ELSE <<>>

\* Variant: a root admits the files directly in it only.
IsInRoots(f) == \E n \in 1 .. Len(given) : RootOf[given[n]] = DirOf[f]

\* isWithinRoots over normalizeConfiguredRoots
IsWithinRoots(f) ==
  \E n \in 1 .. Len(given) :
    RootOf[given[n]] \in Dirs /\ f \in Under(RootOf[given[n]])

\* What the pass over a package reports, nolint and allowlist aside.
PassReports(package) ==
  UNION {Range(Slice(f)) : f \in {g \in package : IsWithinRoots(g) /\ g \notin excluded}}

Packages == {{g \in Files : SamePackage(f, g)} : f \in Files}

-----------------------------------------------------------------------------
(* Properties *)

Findings == UNION {Range(FindingsIn(f)) : f \in Files}

TypeOK ==
  /\ world \in Worlds /\ excluded \in Excludes /\ given \in RootLists
  /\ root \in 1 .. Len(given) + 1
  /\ todo \subseteq DOMAIN Walk \cup DOMAIN Sorted /\ kept \subseteq Files
  /\ findings \in Seq(Findings)
  /\ DOMAIN ranges \subseteq Files
  /\ \A f \in DOMAIN ranges : ranges[f] \in [start : Nat, end : Nat]
  /\ phase \in {"roots", "walk", "collect", "done", "failed"}

Covering(f) ==
  {n \in 1 .. Len(given) : RootOf[given[n]] \in Dirs /\ f \in Under(RootOf[given[n]])}

InBuild(f) == world[f].status = "go" /\ f \notin excluded

\* The files of this build, excluded or not, that put any in the package block
\* of f.
Shadowing(f) ==
  {g \in Files : /\ world[g].status = "go" /\ world[g].declares
                 /\ DirOf[g] = DirOf[f] /\ world[g].package = world[f].package}

\* README.md:59, 125, 152-153: any in a file of this build that is not excluded,
\* which neither an import nor a declaration of its package shadows.
Documented(f) == InBuild(f) /\ ~ world[f].imports /\ Shadowing(f) = {}

\* No rule: only excluded files declare any, which the walk does not parse, so
\* that it reports uses which README.md:152-153 keeps silent.
ShadowUnseen(f) ==
  /\ InBuild(f) /\ ~ world[f].imports
  /\ Shadowing(f) # {} /\ Shadowing(f) \subseteq excluded

Occurrences(s, x) == {n \in DOMAIN s : s[n] = x}

\* In any order of the roots and of the walk, each use of a documented file is
\* found, as often as roots cover the file, and no other use is but those
\* ShadowUnseen.  Both exceptions, these and the findings counted once per
\* root, are the code's and not the documentation's: FindingsAsDocumented.
CollectsByTheRule ==
  phase = "done" =>
    \A f \in Files : \A n \in DOMAIN UsesOf[f] :
      Cardinality(Occurrences(findings, FindingsIn(f)[n])) =
        IF Documented(f) \/ ShadowUnseen(f) THEN Cardinality(Covering(f)) ELSE 0

\* What README.md says of findings: one canonical finding for each documented
\* use (README.md:85, 170-171), and none for one that a declaration shadows.
FindingsAsDocumented ==
  phase = "done" =>
    \A f \in Files : \A n \in DOMAIN UsesOf[f] :
      Cardinality(Occurrences(findings, FindingsIn(f)[n])) =
        IF Documented(f) /\ Covering(f) # {} THEN 1 ELSE 0

\* The index by file is exact: the range of a file holds its findings and no
\* other, in the order of their lines, so that a pass misses none and borrows
\* none.
SlicesAreFiles ==
  phase = "done" =>
    \A f \in Files :
      LET own == {n \in DOMAIN findings : findings[n].file = f} IN
        /\ own = IF f \in DOMAIN ranges THEN ranges[f].start .. ranges[f].end ELSE {}
        /\ \A m, n \in own : m <= n => findings[m].line <= findings[n].line

\* The collection fails, and then with no finding, exactly when a root does
\* not exist or a root covers a file that stops the walk: a file that cannot
\* be read or parsed is never passed over, unless it is excluded.  The
\* variables have their types.
WalkFailsClosed ==
  LET Stops == \E n \in 1 .. Len(given) :
        \/ RootOf[given[n]] = "gone"
        \/ /\ RootOf[given[n]] \in Dirs
           /\ \E f \in Under(RootOf[given[n]]) :
                \/ world[f].status = "unreadable"
                \/ world[f].status = "broken" /\ f \notin excluded
  IN  /\ TypeOK
      /\ phase = "done" => ~ Stops
      /\ phase = "failed" => Stops /\ findings = <<>>

\* The package-local diagnostics of all passes add up to the repo-wide audit:
\* every finding collected passes the filters of the pass over its package.
PassesReportAll ==
  phase = "done" => UNION {PassReports(p) : p \in Packages} = Range(findings)

=============================================================================
