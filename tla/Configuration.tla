---------------------------- MODULE Configuration ----------------------------
(***************************************************************************)
(* From what a user configures to what the passes keep and the walk of the *)
(* repository visits.  The plugin (plugin/plugin.go) or the command line   *)
(* sets the flags of the analyzer (NewAnalyzer in analyzer.go); each pass  *)
(* then resolves its roots, its repository, its allowlist and its build    *)
(* tags on its own (analyzerConfig.run), filters its files, and loads the  *)
(* walk of the repository (any_usage.go) it looks its findings up in.      *)
(*                                                                         *)
(* Which pass walks and which uses the cache is the matter of              *)
(* AnalyzerPasses, what the walk finds in a file that of RepoWalk; the     *)
(* allowlist is taken to load.                                             *)
(***************************************************************************)
EXTENDS RootSettings, BuildTags, ExcludeGlobs, FiniteSets

CONSTANTS
  Absent,      \* a setting or a flag that is not given
  None,
  Disk,        \* the files there are, as the names of their paths
  Links,       \* directories that are symbolic links
  ModuleDirs,  \* directories with a go.mod
  Generated,   \* files the go command generated, outside of the repository
  TagOf,       \* [Disk -> tag or None], the build tag a file asks for
  DefaultAllowlist,
  Inputs       \* the configurations to go through

\* An input has the front end (plugin or command line), the settings it is
\* given (allowlist, roots, repoRoot), the working directory, GOFLAGS as text
\* and as the flags meant, the tags the driver builds with, the exclude_globs
\* of the allowlist, and the passes the driver runs in turn: their files, which
\* have a name and a token file as all that go/parser returns, those that can
\* no longer be read, and whether they are those of a test main package.

ASSUME DiskAssumption ==
  /\ Generated \subseteq Disk /\ DOMAIN TagOf = Disk
  /\ \A input \in Inputs : \A n \in 1 .. Len(input.passes) :
       ToSet(input.passes[n].files) \subseteq Disk

VARIABLES
  input,
  flags,   \* of the analyzer: allowlist, roots, repoRoot
  stage,
  results  \* of the passes so far

vars == <<input, flags, stage, results>>

DefaultRoots == <<Relative(<<Dot, Dots>>)>>

\* NewAnalyzer
Init ==
  /\ input \in Inputs
  /\ flags = [allowlist |-> DefaultAllowlist, roots |-> DefaultRoots, repoRoot |-> Absent]
  /\ stage = "settings"
  /\ results = <<>>

\* analyzer.Flags.Set, for the settings that are there.
Set(allowlist, roots, repoRoot) ==
  /\ flags' = [allowlist |-> IF allowlist = Absent THEN flags.allowlist ELSE allowlist,
               roots |-> IF roots = Absent THEN flags.roots ELSE roots,
               repoRoot |-> IF repoRoot = Absent THEN flags.repoRoot ELSE repoRoot]
  /\ stage' = "passes"
  /\ UNCHANGED <<input, results>>

\* New: the settings do not decode.
RefuseSettings ==
  /\ stage = "settings" /\ input.frontend = "plugin"
  /\ input.roots = Malformed
  /\ stage' = "refused"
  /\ UNCHANGED <<input, flags, results>>

PluginRoots(setting) == IF setting = Absent THEN <<>> ELSE UnmarshalRoots(setting)

\* Variant: the flag is set to the roots also when there are none.
BuildBlank ==
  /\ stage = "settings" /\ input.frontend = "plugin"
  /\ input.roots # Malformed
  /\ Set(input.allowlist, FlattenSeq(PluginRoots(input.roots)), input.repoRoot)

\* BuildAnalyzers: the roots are joined with commas, and no root at all leaves
\* the flag alone.
BuildAnalyzers ==
  /\ stage = "settings" /\ input.frontend = "plugin"
  /\ input.roots # Malformed
  /\ LET roots == PluginRoots(input.roots)
     IN  Set(input.allowlist, IF roots = <<>> THEN Absent ELSE FlattenSeq(roots), input.repoRoot)

\* singlechecker.Main parses the command line.
ParseFlags ==
  /\ stage = "settings" /\ input.frontend = "command"
  /\ Set(input.allowlist, input.roots, input.repoRoot)

-----------------------------------------------------------------------------
(* What a pass resolves *)

InBuild(file, tags) == TagOf[file] = None \/ Contains(tags, TagOf[file])

\* The files the driver parses for a pass.
FilesOf(pass) == SelectSeq(pass.files, LAMBDA file : InBuild(file, input.driver))

\* findGoModRoot: the nearest directory with a go.mod, from here upwards.
FindGoModRoot(dir) ==
  LET above == {root \in ModuleDirs : IsPrefix(root, dir)}
  IN  IF above = {} THEN None
      ELSE CHOOSE root \in above : \A other \in above : IsPrefix(other, root)

\* Variant: the working directory comes first.
RepoRootOfShell(pass) ==
  IF flags.repoRoot # Absent THEN From(input.cwd, flags.repoRoot)
  ELSE IF FindGoModRoot(input.cwd) # None THEN FindGoModRoot(input.cwd)
  ELSE input.cwd

\* resolveRepoRoot: the flag, or the module of the first file, or the module of
\* the working directory, or that directory.
ResolveRepoRoot(pass) ==
  LET files == FilesOf(pass)
      module == IF files = <<>> THEN None ELSE FindGoModRoot(Front(files[1]))
  IN  IF flags.repoRoot # Absent THEN From(input.cwd, flags.repoRoot)
      ELSE IF module # None THEN module
      ELSE IF FindGoModRoot(input.cwd) # None THEN FindGoModRoot(input.cwd)
      ELSE input.cwd

\* relativePath has an answer.
IsInside(repoRoot, file) ==
  LET rel == Rel(repoRoot, file) IN rel = <<>> \/ rel[1] # DotDot

\* A file from elsewhere, unless go test generated it as the main package of a
\* test.
Misplaced(pass, repoRoot, file) ==
  ~ IsInside(repoRoot, file) /\ ~ (pass.testMain /\ file \in Generated)

\* shouldCollectAnalyzerPath
ShouldCollect(repoRoot, roots, matchers, file) ==
  /\ IsInside(repoRoot, file)
  /\ IsWithinRoots(Rel(repoRoot, file), roots)
  /\ ~ ShouldExclude(Rel(repoRoot, file), matchers)

-----------------------------------------------------------------------------
(* The walk *)

IsDir(dir) == \E file \in Disk : IsStrictPrefix(dir, file)

\* WalkDir below a root; it follows no link, the root itself included.
WalkDir(root) ==
  {file \in Disk : /\ IsStrictPrefix(root, file)
                   /\ \A link \in Links : ~ (IsPrefix(root, link) /\ IsPrefix(link, file))}

\* parseRootFile; a file the go command generates lies in its cache under a
\* name that does not end in .go.
Walked(repoRoot, roots, matchers, tags) ==
  {file \in UNION {WalkDir(ResolveRootPath(repoRoot, roots[n])) : n \in 1 .. Len(roots)} :
     /\ file \notin Generated
     /\ ~ ShouldExclude(Rel(repoRoot, file), matchers)
     /\ InBuild(file, tags)}

-----------------------------------------------------------------------------
(* analyzerConfig.run *)

Pass == input.passes[Len(results) + 1]

Roots == SplitRoots(flags.roots)
RepoRoot == ResolveRepoRoot(Pass)
ConfiguredRoots == NormalizeConfiguredRoots(Roots, RepoRoot)

InTurn == stage = "passes" /\ Len(results) < Len(input.passes)

Fail(error) ==
  /\ results' = Append(results, [error |-> error])
  /\ UNCHANGED <<input, flags, stage>>

NoRoots ==
  /\ InTurn /\ Roots = <<>>
  /\ Fail("no roots")

Matchers == CompileExcludeGlobs(input.globs)

Collects(file) == ShouldCollect(RepoRoot, ConfiguredRoots, Matchers, file)

\* collectAnalyzerFile: what is wrong with a file, if anything.
Refusal(file) ==
  IF Misplaced(Pass, RepoRoot, file) THEN "misplaced"
  ELSE IF Collects(file) /\ file \in Pass.unreadable THEN "unreadable"
  ELSE None

Refused == SelectSeq(FilesOf(Pass), LAMBDA file : Refusal(file) # None)

\* The first file with something wrong ends the pass.
RefuseFile ==
  /\ InTurn /\ Roots # <<>> /\ Refused # <<>>
  /\ Fail(Refusal(Refused[1]))

AnyMissing ==
  \E n \in 1 .. Len(ConfiguredRoots) :
    ~ IsDir(ResolveRootPath(RepoRoot, ConfiguredRoots[n]))

MissingRoot ==
  /\ InTurn /\ Roots # <<>> /\ Refused = <<>>
  /\ AnyMissing
  /\ Fail("missing root")

RunPass ==
  /\ InTurn /\ Roots # <<>> /\ Refused = <<>> /\ ~ AnyMissing
  /\ LET tags == BuildTagsFromGOFLAGS(input.goflags.text)
     IN  results' = Append(results,
           [error |-> None,
            repoRoot |-> RepoRoot,
            allowlist |-> From(RepoRoot, flags.allowlist),
            roots |-> ConfiguredRoots,
            tags |-> tags,
            kept |-> {file \in ToSet(FilesOf(Pass)) : Collects(file)},
            walked |-> Walked(RepoRoot, ConfiguredRoots, Matchers, tags)])
  /\ UNCHANGED <<input, flags, stage>>

Next ==
  \/ RefuseSettings \/ BuildAnalyzers \/ ParseFlags
  \/ NoRoots \/ RefuseFile \/ MissingRoot \/ RunPass

Spec == Init /\ [][Next]_vars

-----------------------------------------------------------------------------
(* Properties *)

Finished == {n \in 1 .. Len(results) : results[n].error = None}

\* Every root a setting names, whichever way it is written.
Named(setting) ==
  IF setting \in {Absent, Malformed} THEN <<>>
  ELSE SelectSeq(FlattenSeq(setting.texts), LAMBDA piece : piece # Blank)

\* A list that names no root, but has an element with a comma in it: it is kept
\* because it is not blank, and sets the flag to nothing but commas.
OnlyCommas(setting) ==
  /\ setting \notin {Absent, Malformed} /\ Named(setting) = <<>>
  /\ setting.list /\ \E n \in 1 .. Len(setting.texts) : Len(setting.texts[n]) > 1

\* The roots a pass works with are those the plugin's setting names, in any
\* notation, and the default if it names none; settings that cannot be decoded
\* run no pass.  A list OnlyCommas, roots: [","], is the one setting that leaves
\* the plugin without a root: every pass then ends with an error, and none
\* passes in silence.
RootsReachPasses ==
  input.frontend = "plugin" =>
    /\ input.roots = Malformed => results = <<>>
    /\ \A n \in 1 .. Len(results) :
         /\ results[n].error = "no roots" <=> OnlyCommas(input.roots)
         /\ n \in Finished =>
              results[n].roots = NormalizeConfiguredRoots(
                IF Named(input.roots) = <<>> THEN DefaultRoots ELSE Named(input.roots),
                results[n].repoRoot)

\* Roots below the repository that are written with one "/..." at most.
Plain(roots) ==
  \A n \in 1 .. Len(roots) : ToSet(roots[n]) \cap {DotDot, Dots} = {}

Flag(n) == input.goflags.flags[n]

\* The tags meant: those of the last -tags in GOFLAGS.
TagsMeant ==
  LET tagsFlags == {n \in DOMAIN input.goflags.flags : Flag(n).name \in {"-tags", "--tags"}}
  IN  IF tagsFlags = {} THEN {} ELSE ToSet(Flag(Max(tagsFlags)).tags)

\* A pass and the walk select the same files of a package, by different code
\* from the same configuration: a file that is kept and not walked has no
\* findings and passes in silence, one that is walked and not kept is never
\* reported.  The driver must build with the tags of GOFLAGS, and no link may
\* lead to the files.
KeepsWhatIsWalked ==
  \A n \in Finished :
    LET files == ToSet(SelectSeq(input.passes[n].files, LAMBDA f : InBuild(f, input.driver)))
    IN  /\ Plain(results[n].roots)
        /\ ToSet(input.driver) = TagsMeant
        /\ \A link \in Links, f \in files : ~ IsPrefix(link, f)
        => results[n].kept = files \cap results[n].walked

\* Without a repo-root every pass that keeps files takes the nearest module
\* above each of them for the repository, so that all passes over a module use
\* one allowlist and one walk, wherever the tool is started.
OneRepositoryPerModule ==
  flags.repoRoot = Absent =>
    \A m, n \in Finished :
      \A f \in results[m].kept, g \in results[n].kept :
        FindGoModRoot(Front(f)) = FindGoModRoot(Front(g)) /\ FindGoModRoot(Front(f)) # None =>
          /\ results[m].repoRoot = FindGoModRoot(Front(f))
          /\ results[n].repoRoot = results[m].repoRoot
          /\ results[n].allowlist = results[m].allowlist

\* The walk is built with the tags meant, in each notation the go command
\* takes, and no tag twice.
TagsAsMeant ==
  \A n \in Finished :
    /\ ToSet(results[n].tags) = TagsMeant
    /\ Len(results[n].tags) = Cardinality(TagsMeant)

\* A file is kept out of the passes and of the walk exactly if a glob matches
\* its path by the rule: the regular expressions written from the globs, as the
\* configuration spells them, mean what the globs do.
ExcludesByTheRule ==
  \A n \in Finished :
    LET Matched(f) == \E m \in 1 .. Len(input.globs) :
          /\ input.globs[m] # NoGlob
          /\ GlobMatches(input.globs[m], Rel(results[n].repoRoot, f))
    IN  /\ \A f \in results[n].walked \cup results[n].kept : ~ Matched(f)
        /\ \A f \in ToSet(input.passes[n].files) :
             /\ InBuild(f, input.driver) /\ IsInside(results[n].repoRoot, f)
             /\ IsWithinRoots(Rel(results[n].repoRoot, f), results[n].roots)
             /\ f \notin results[n].kept
             => Matched(f)

=============================================================================
