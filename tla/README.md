# A verification development of anyguard

`anyguard` is a `go/analysis` analyzer that reports `any` in a fixed list of
AST slots. Every pass (one package) needs findings of the whole repository,
because allowlist selectors are resolved against them, so all passes of a
process share caches of a repo-wide walk. This directory models that program in
TLA+, checks it with TLC and proves its central parts with TLAPS. Paths below
are relative to the repository's root; `any_usage.go`, `analyzer.go` and
`repo_validation_cache.go` are in `internal/validation/`.

`PROJECT.json` lists components, runs, mutants, findings, hazards and theorems,
and maps every definition that models code to its lines.

## 1. Inventory

| Component | State it keeps | Operations | What makes it hard | What makes it correct |
| --- | --- | --- | --- | --- |
| Process caches (`repo_validation_cache.go`: `processCache`, three instances) | a `sync.Map` of entries that live as long as the process, a `singleflight.Group` | `load` | passes race on goroutines; the map is read outside the flight; `collect` may fail or panic | a key is collected once; all callers get one outcome, errors included; nobody waits for ever |
| Analyzer passes (`analyzer.go`: `run`; `loadRepoValidationConfig`, `collectRepoValidationConfig`, `loadRepoValidationResult`) | per pass: its files, configuration, verdict; shared: the caches | load configuration (which loads the allowlist), resolve files, load the result, filter, report | nested loads of three caches; the tree and the allowlist may be edited while the process runs; several configurations in one process | passes agree with one another and with the whole-repository audit; a result is used with its own allowlist |
| Allowlist validation and resolution (`any_usage.go`: `validateAllowlist`, `resolveAllowlistIndex`, `violationsFromFindings`) | entries normalised in place, seen selectors, legacy matches, resolved identities | one iteration per entry or finding | legacy and exact selectors overlap; errors stop halfway | an accepted entry is one exception for one finding; the rest is reported |
| Repository walk and finding index (`any_usage.go`: `collectFindings...`, `walkParsedFiles`, `finalizeParsedPackages`; `newRepoValidationResult`) | files parsed, packages grouped, findings, ranges by file | resolve roots, walk, parse, group, collect, sort, index | overlapping roots, walk order against path order, a broken file among many, external test packages | what is collected follows the documented rule; a pass finds all its findings in the index; failure is closed |
| Lexical `any` resolution (`any_usage.go`: `lexicalAnyResolver`, `anyUsageCollector`) | a stack of scopes with one flag each, the owner, the usages | `inspect*` handlers, `openScope`, `closeScope`, `declare*`, `visit*Slot` | a dozen handlers open, declare and close by hand, each in its own order | the flags decide as the scopes of the Go specification do |
| Diagnostic positions (`analyzer.go`: `reportViolation`, `violationPos`, `lineEnd`) | none | map line and column to a position of the pass's file | the file of the pass may be another version; `//line` | a diagnostic is inside the file, on its finding |
| Nolint directives (`any_usage.go`: `collectNolintLines`, `parseNolintDirective`) | a set of lines | match comments, decide suppression | comments of several lines, lists of linters | only the directives of this linter suppress |
| Roots, repository and files of a pass (`analyzer.go`: `splitRoots`, `resolveRepoRoot`, `normalizeConfiguredRoots`, `collectAnalyzerFile`; `any_usage.go`: `resolveRootPath`) | the flags of the analyzer | split, detect the repository, normalise, choose files | roots in many notations; passes and walk choose files by different code; a repository is found per pass | what a pass keeps is what the walk visited; passes over a module agree |
| Exclude globs (`any_usage.go`: `compileExcludeGlobs`, `globRegexExpression`) | compiled expressions | compile, match | `**`, separators, order of replacements | a glob matches by its rule |
| Build context and `GOFLAGS` (`any_usage.go`) | build tags | split quoted flags, parse tags, match files | quoting, two notations of tags | the files of this build are walked |
| Plugin settings (`plugin/plugin.go`) | decoded settings | decode, set analyzer flags | blank roots, one text or a list | settings reach the passes |
| Command line and public analyzer (`cmd/anyguard/main.go`, `anyguard.go`) | none | wrap `NewAnalyzer` | none | |
| Benchmark harness (`internal/benchtest`) | none of the tool | load packages, run the analyzer | none | |
| Release workflow (`scripts/ci/prepare-github-release.sh`, `.github/workflows/release.yml`) | tags and releases on the host, the changelog, the commit, runs | validate a pull request, queue a run, prepare, tag, query, publish | concurrent merges, runs that are cancelled, reruns after a failure halfway, two records of a release (tag, GitHub release) | a version is tagged once, at a commit that announces it, and published |
| Custom linter build (`scripts/ci/build-custom-gcl.sh`, `custom-gcl-fingerprint.sh`, `run-golangci-plugin-smoke.sh`) | the binary and its fingerprint file | look, compare, fingerprint, snapshot, build with retries, move, label, use | killed halfway; sources edited during the build; two scripts at once | a binary that passes for fresh was built from these sources |

How they interact: the driver calls `run` for each package, in any order and
concurrently. `run` loads the configuration from one process cache, whose
collection loads the allowlist from a second; the configuration is the key of a
third, whose collection walks the repository (walk, lexical resolution, nolint),
resolves the allowlist and indexes the findings. The pass takes the ranges of
its own files from that result, drops what is suppressed or allowed, and reports
the rest at positions of its own file set. `ValidateAnyUsageFromFile`, the
audit, runs the same walk and resolution without caches.

## 2. Modules

| Module | Models | Stands on |
| --- | --- | --- |
| `OnceMemo` | what a cache promises: a key is decided once, everyone who asks is told that | |
| `ProcessCache` | `processCache.load`, one action per access to map or group | implements `OnceMemo` |
| `AnalyzerPasses` | `analyzerConfig.run` over the three caches | an instance of `ProcessCache` |
| `AllowlistIndex` | validation, resolution and filtering, one action per iteration | |
| `RepoWalk` | roots, walk, packages, sort, ranges, file filter | |
| `LexicalAny` | the syntax walk with its scope stack | |
| `Diagnostics` | positions and nolint lines from the walk to the report | |
| `Paths` | `path/filepath` on sequences of names | |
| `RootSettings` | roots, from the setting to what is walked and kept | `Paths` |
| `BuildTags` | the tags of `GOFLAGS` | |
| `ExcludeGlobs` | globs as expressions, and the rule they stand for | `Paths` |
| `Configuration` | flags, passes and the walk they must agree with | `RootSettings`, `BuildTags`, `ExcludeGlobs` |
| `ReleaseRegister` | what the releases promise: tags set once, releases after their tags | |
| `ReleaseWorkflow` | pull requests, runs of `release.yml` and its script | implements `ReleaseRegister` |
| `CustomLinterBuild` | the smoke script and the build script at work at once | |
| `ProcessCacheProofs`, `AnalyzerPassesProofs`, `AllowlistIndexProofs`, `RepoWalkProofs`, `LexicalAnyProofs`, `DiagnosticsProofs`, `ReleaseWorkflowProofs`, `CustomLinterBuildProofs` | theorems | the modules they name; `AnalyzerPassesProofs` an instance of `ProcessCacheProofs` |
| `MC...` | small instances for TLC | the module they name |

**ProcessCache.** `pc` is the line of `load` a goroutine is at: `lookup` (the
lock-free read), `enter` (`group.Do`), `recheck` (the read inside the flight),
`collect`, `store`, `finish` (the end of `doCall`), or `waiting`. `entries` is
the map, `inflight` the group's table of calls, `want` and `got` the key and the
outcome in hand; `collects` and `panics` count, for the properties only.
singleflight itself is outside the repository and modelled as used: `Lead` and
`Join` are atomic under its mutex, `Finish` removes the call and wakes its
waiters, and a panic reaches them too. Keys are values; the joined strings of
`singleflightKey` are their images under `FlightOf`, an injection
(`FlightAssumption`), since no field of a key can hold a NUL. The reset that
tests call is left out.

**AnalyzerPasses.** A pass has three call frames, one per cache, because loads
nest: while the configuration frame is at `collect`, the allowlist frame runs,
and the result frame after both. All frames are callers of one `ProcessCache`
whose keys are tagged with their cache. `allowlist` and `tree` are the files on
disk, which `Edit` changes at any time; `seen` is what a walk has read so far,
file by file, so an edit may fall between two files of one walk. A version of a
file is broken or has one finding, and versions differ in the finding's
identity. `setup`, chosen at the start, says what the process is asked to do:
which files and which configuration each pass has.

**AllowlistIndex.** `phase` and `i` are the loop and its index. An entry is a
key (path, owner and category, in some spelling) with a line and a column; what
normalisation makes of a key is `KeyOf`, and `None` when a field, the
description or a known category is missing. `Named` is what the code looks up,
`Names`, used by properties only, is what an entry means.

**RepoWalk.** Directories and files are given with two orders, that of
`filepath.WalkDir` and that of relative paths, because the code relies on both
and they differ (`p/a` is walked before `p-x/c` and sorts after it). `world`
says what the walk meets at each file; the uses of `any` in a file are given,
since finding them is the subject of `LexicalAny`. `root` is the loop over roots,
and `todo` what is left of the loop inside it: first the files to walk
(`VisitFile`), then the kept files to collect (`CollectFile`). Those are met in
path order and not package by package, which makes no difference after the sort.
Sorting and indexing are part of the last step, `EndRoots`, as they are in
`newRepoValidationResult`. The line of a use stands for its line and column;
`UsesAssumption` says that no two uses of a file share a position, which only a
`//line` directive can break.

**LexicalAny.** A file is a tree of nodes in source order, each with the role it
plays for its parent; the only identifier is `any`. `Grow` is the parser: it
adds nodes in any way the roles allow, each where the source order has it: below
the newest node or below one around that, in the role of its last child or a
later one (`Follows`; `IsTree` says the same of a finished tree). `Plan` gives for each kind of node the
steps of its handler in order (open a scope, visit a role, visit it as a slot,
declare the names of a role, close), and `todo` is the Go stack: the calls in
progress, innermost last, each with its node, its owner and the steps it has yet
to take, a step that loops over children once for each. A call whose last step
is a visit returns before the child is entered, as no call looks at anything
after it. The properties compare what is recorded with
`Reportable`, which is defined on positions of the tree, from the scope rules of
the Go specification and the table of slots in `README.md`, and shares nothing
with the walk but the tree. Statements without bearing on scopes or slots
(return, send, label, go, defer) are the kind `parts`, and categories, which
follow from the slot, are left out.

**Diagnostics.** One file, which the walk (`walked`) and the driver (`parsed`)
read at different times, in either order, with edits between (`Edit`). Lines
have a length, columns where `any` is used, nolint comments and perhaps a
`//line` directive. `LineStart`, `Size` and `Position` are `go/token`'s, from its
documentation; `Position` follows directives, as `fset.Position` does, while
`ViolationPos` and `LineEnd` do not. A finding keeps the token it stems from for
the properties. The words of a nolint comment are abstracted to the linters each
of its directives lists; the allowlist is left to `AllowlistIndex`.

**Configuration.** The composition of the pure modules. `flags` are those of the
analyzer, set by the plugin (`BuildAnalyzers`) or the command line
(`ParseFlags`); then the passes of the input run in turn, and `results` holds
what each worked out: error, repository, allowlist, roots, tags, the files it
keeps and those its walk visits. Names are sequences of letters, so that `a` and
`ab` share a prefix without being the same directory; a setting is text split at
commas. `OnlyCommas` names the one setting that leaves the plugin without roots. `Disk`, `Links` and `ModuleDirs` are the file system, `Generated` what
`go test` and cgo put into the build cache. A `GOFLAGS` comes as text and as the
flags that text was written for, and the properties look at the latter only.
`GlobMatches`, the rule for globs, cuts a path into pieces and shares nothing
with the expression the code builds. How passes share walks is left to
`AnalyzerPasses`, where the files of a configuration are an input.

**ReleaseWorkflow.** `main` is the list of commits, each with what matters to
the script: title, top heading of the changelog, whether its section has notes.
`run` holds the step of the workflow each commit's run is at. `Validate` is the
script in mode `validate-pr`, `Prepare` in mode `publish`; `PushTag`,
`CheckRelease` and `PublishRelease` are the later steps of the job. A run that
`Prepare` skips is done, and one that the script ends with `fail` is `refused`.
Around them are GitHub and people: `Queued` and `Start` are the concurrency group
(one running, one pending, a newer pending run cancels the older), `StepFails`
ends a step before its effect, `ReplyLost` after it, `Rerun` and `RerunAnyway`
run a job again, `PushByHand` pushes a tag. The version that was released before
is commit 1. `ReleaseRegister` sees tags and releases only.

**CustomLinterBuild.** Sources are versions numbered as they appear, `binary` is
the version the linter was built from and `label` the one its fingerprint names.
`pc` is where a script is; a smoke script that finds the binary stale becomes a
build and then uses what it built. The move is two steps (between file systems
`mv` is a copy that leaves a torn file when killed), and so is the redirection
that writes the fingerprint (truncated, then written). `Kill` ends a script at
any step, `Edit` and `Revert` change the sources at any time. `troubles` records
for the properties what has happened: a revert, an edit between fingerprint and
snapshot (`slip`), a kill while installing, two builds at once (`overlap`).

## 3. Runs

| Run | What it asks | Bounds, and why they are enough |
| --- | --- | --- |
| `cache` | `CollectOnce`, `AnswerIsEntry`, `WaiterHasLeader`, `EntriesAppendOnly`, `LoadTerminates`, and `ImplementsMemo` (refinement of `OnceMemo`) | 3 callers, 2 keys, a success and an error, one panic per key: three callers are a leader, a waiter and one who missed earlier and enters after the flight ended, which is the race the second lookup is for; calls repeat without bound |
| `passes` | `OneVerdict`, `OneAllowlist`, `OwnResult`, `PassesAgreeWithAudit`, `PassesEnd` | six processes of two passes: one configuration; two that order the same roots differently, with an edit; the same over disjoint files, with panics; two whose roots differ and cover the same files; two with different allowlists; and one pass with a file outside the repository. Where the configurations differ and the allowlist is one, both passes lead a configuration, and either may lead or wait in the allowlist cache from inside that flight, and then in the result cache. Two files in every combination of versions, allowlists that are empty or name one finding, or are malformed. One edit suffices for two passes to read different versions, and it may fall anywhere in a walk |
| `allowlist` | `OneFindingPerEntry`, `ReportsTheRest`, `VerdictByTheRules` | all lists of up to 2 entries (two keys in two spellings and a key with something missing; no, a right, or half a position) against all lists of up to 3 findings; repeated findings included; all rules relate at most two entries or two findings of one entry; the theorems have no bound |
| `repo_walk` | `CollectsByTheRule`, `SlicesAreFiles`, `WalkFailsClosed`, `PassesReportAll` | up to two of five roots (one blank, one missing, two that overlap), three files in two directories whose two orders differ, each parsed, broken, skipped or unreadable, in its package or an external test package, with or without shadowing |
| `lexical` | `RecordsByScope`, `ScopesBalance`, `OwnerIsTopLevel` | all trees of 6 to 10 nodes over thirteen families of kinds, of which those about headers, clauses and ranges begin with their statement: enough for a declaration in each role, with a use before it, in its block and after its block |
| `diagnostics` | `InsideLine`, `ReportedAtToken`, `SilencedByItsComment` | all files of up to 3 lines of six kinds (empty, with one or two uses, comments for this linter, another, or all, over one line or two, a `//line` directive), with and without final newline, and any other such file after one edit: the last line, lines that vanish, and shorter lines are all met |
| `configuration` | `RootsReachPasses`, `KeepsWhatIsWalked`, `OneRepositoryPerModule`, `TagsAsMeant`, `ExcludesByTheRule` | one text of up to two of eleven pieces; lists of up to two texts of one piece, of one text of up to two, and of one text of up to two beside `a`, for the plugin; the texts for the command line too; all from three directories with three settings of `repo-root`; up to two flags of `GOFLAGS` in four notations; globs of one segment of up to 3 characters, or of 2 or 3 shorter ones, with a slash in front too. Six passes: a package with a tagged file, one with a similar name, one of a nested module, a test main, one with a file from elsewhere, one whose file can no longer be read; and the module seen through a link. All rules relate at most two roots, two flags or two neighbouring characters |
| `release` | `TagsAnnounce`, `GreenIsPublished`, `RefusedForCause`, `ImplementsRegister` (refinement of `ReleaseRegister`), `AcceptedIsPublished` | two pull requests in 19 combinations of titles, headings and notes (the same version twice with one date or two, two versions, a reverted release, a title alone, malformed ones), with up to two mishaps (`MaxMishaps`: failures, lost answers, needless reruns, tags pushed by hand; two for the two plain pairs, one for the others); validation as often as there are events before the merge; three pull requests without mishaps, so that a pending run is cancelled. Reruns of what failed or was cancelled have no bound |
| `linter_build` | `LabelNeverAhead`, `LabelIsBinary`, `RunsCurrent`, `EventuallyFresh` | a smoke script and a build script that are called without bound, two edits, any number of reverts, one kill; nothing is claimed of builds that overlapped, so no edit is explored after they have (`Serial`) |
| `lexical_slots`, `documented_walk`, `line_directives` | `ReportsEverySlot`, `FindingsAsDocumented`, `ExactCoordinates`: what the documentation says, without exception. One file, one repository, and the files of `diagnostics` | violated; see section 5 |

Each module with state has one type invariant. Where it is worth a run of its
own or a theorem it is `TypeOK` (`cache`, `allowlist`); elsewhere it is the first
conjunct of an invariant that needs it (`OwnResult`, `WalkFailsClosed`,
`ScopesBalance`, `InsideLine`, `TagsAnnounce`, `RunsCurrent`). `Configuration`
has none, as its properties determine what `results` may hold. For every
property `PROJECT.json` names a mutant, a plausible bug in one definition
(defined next to it as a variant), that makes TLC refute the property, so none of
them holds by form alone. Deadlock is checked in the cache and in the passes.
The other models may really stop: they are sequential programs that end, or
everything is merged and published, or no more edits are explored, and their
configurations say so.

`PassesAgreeWithAudit` speaks of processes without edits; with edits the passes
only agree with each other, which is `OneVerdict`. `OneVerdict` is about passes
that neither panicked nor failed on their own files: after a panic a later pass
collects again, by design.

**Fairness.** `ProcessCache!FairSpec` has weak fairness of the internal steps of
each caller and of the end of its collection: Go's scheduler runs every runnable
goroutine and a walk of a finite tree ends. A call of `load` is never assumed.
`AnalyzerPasses!FairSpec` has weak fairness of each pass as a whole, since it is
one goroutine. Nothing fair is assumed of `Edit`. `ReleaseWorkflow!FairSpec` has
weak fairness of the steps of a run, strong fairness of starting a pending run
(the group is free again and again) and weak fairness of `Rerun`: that somebody
reruns what failed or was cancelled is an assumption on people, the one the
workflow's comments on reruns make, and mishaps are bounded. Nothing fair is
assumed of pull requests. So `AcceptedIsPublished` says that a release can be
had by rerunning; it does not say that a release whose pending run was cancelled
is made without somebody who does. `CustomLinterBuild!FairSpec` has weak fairness of the
steps of a script, strong fairness of a successful build (three attempts may all
fail, but not for ever), and weak fairness of calling the smoke script, as every
CI run does.

## 4. Proofs

`ProcessCacheProofs` (for any number of callers, keys and outcomes), from
`FlightAssumption`, `OutcomeAssumption` and `BoundAssumption`:

- `Invariance`: `IInv` is inductive. `AnswerIsEntry` and `CollectOnce` are not
  inductive by themselves. They need that a leader that looked again and missed
  is alone with its key until it has stored: a flight in the group is led by
  exactly the caller registered (`Leads`, `Led`), a leader that collects or
  stores has no entry yet (`Open`), what a caller carries agrees with the entry
  (`Carries`), and collections that did not panic are under way or stored
  (`Counted`).
- `TypeCorrect`, `CollectedOnce`, `AnswersAreEntries`, `WaitersHaveLeaders`,
  `AppendOnly`: the safety properties of the run `cache`.
- `CacheIsMemo`: every behaviour of the cache is one of `OnceMemo`, under the
  mapping `decided <- entries`, `asked <- want` and `answer` the outcome of
  callers that are done. Each step is a step of the memo or a stutter; `Finish`
  is its `Answer` or `Fail` of the leader and all waiters at once.

`AnalyzerPassesProofs` (for any passes, configurations, allowlists, files and
edits), from `PassAssumption`, `NoneAssumption` and `BoundAssumption`:

- `Invariance`: `IInv` is inductive. Its first conjunct is the invariant of
  `ProcessCacheProofs`, with the call frames as callers and the tagged keys as
  keys: all steps of a frame are steps of the cache, so that conjunct is kept by
  the lemmas of that module. The rest ties the caches to the passes: a frame
  asks for the key of its pass and is in a cache only at the stage of `run` that
  calls it (`Asks`); an entry has an outcome its key may have, where a
  configuration fits the one reading of its allowlist (`Stored`); a pass past its
  configuration holds the one in the cache, its walk reads files under its own
  roots, and how it ended is what the caches hold (`Along`).
- `CachesAreProcessCache`: the passes implement `ProcessCache`, step by step, and
  hence (`CollectedOnce`) nothing is read, built or walked twice, panics apart.
- `ResultsAreOwn`, `AllowlistsAreOne`, `VerdictsAgree`: `OwnResult` (with type
  correctness), `OneAllowlist` and `OneVerdict`. Edits make no difference to
  them: entries are never replaced, so passes that ended look at the same ones.
- `PassesReportTheAudit`: `PassesAgreeWithAudit`. It needs a second invariant,
  `Unedited`: as long as nothing was edited the caches hold, and walks under way
  have read, what the files make of their keys.

`AllowlistIndexProofs` (for allowlists and findings of any length), from
`KeyAssumption`, `PositionAssumption` and `InputAssumption`:

- `Invariance`: the loop invariant. `Indexed` says that `legacyMatches` holds of
  the findings seen none, the only one or several for a key; `Chosen`, that
  a resolved identity is the only one its entry names and no earlier entry's.
- `TypeCorrect`, `EntriesAreFindings`, `TheRestIsReported`: type correctness,
  `OneFindingPerEntry` and `ReportsTheRest`.
- `VerdictsByTheRules`: `VerdictByTheRules`. It needs a second invariant, `JInv`,
  about the entries passed so far: a key is taken to have several findings
  only if there are two (`Multiple`), of one identity or not, what was looked up is what the
  findings say (`Looked`), and no entry the loop has passed breaks a rule
  (`Passed`), so that the entry at which it stops is the first that does.

`RepoWalkProofs` (for any repository, roots, excludes and uses), from
`WalkAssumption` and `UsesAssumption`:

- `Invariance`: `IInv` is inductive. Nothing stopped the roots before the one at
  hand (`Unstopped`); a walk has kept, of the files it met, those it should
  (`Met`), and hands them all to the loop that collects (`Gathered`). `Counted`
  is the argument for the rule: each use of a collectable file (`Collectable`: one the walk
  parses and finds no shadow for) was collected once for every root before that
  covers it, and once more if its file was met
  under the root at hand. It rests on a fact about packages: the files that may
  shadow a kept file are in its directory, so a root that covers it covers them.
  `CollectableFacts` says which files those are in the words of the rule.
- `FailsClosed` (with type correctness), `CollectedByTheRule`, `SlicesExact`,
  `PassesReportTheWalk`: the four properties of the run `repo_walk`. The third
  needs that the sort permutes the findings and puts them in order
  (`InOrderFacts`, from ranks that are a bijection), and that in an ordered list
  the findings of a file are neighbours (`RangesFacts`). The last follows from
  the second and third.

`LexicalAnyProofs` (for files of any size and shape), from `ShapeAssumption`:

- `Invariance`: `IInv` is inductive. The parser makes trees (`IsTree`). A call in
  progress has steps left, and of the steps of its node just those after the ones
  taken (`Sound`); it is owned by the declaration at the top that its node is in
  (`Owns`). With so many scopes open, the calls have as many more to close than
  to open (`Balanced`).
- That a scope closed was open is not part of the invariant but follows from it:
  the plans of all kinds of nodes match each `Open` with a later `Close` of its
  own (`PlanFacts`), so the steps that have yet to open map one to one to pending
  steps that close, and the step at hand, being the first, is not among those.
  The same matching shows that a new call makes no difference to the balance.
- `ScopesBalanced` (with type correctness) and `OwnersAreTopLevel`: `ScopesBalance`
  and `OwnerIsTopLevel`.
- `ResolvingHolds`: a second invariant, `RInv`, is inductive. It says how far the
  walk has come: the calls in progress are for nodes around one another and each
  has left just the steps after the one that led to the next (`Walking`, by way
  of `Trail`), and what the stack and the records hold is what follows from that
  (`Resolving`). `Held` puts back the visit a call returned from before its child
  was entered, so that nothing is said twice for the two cases. The stack is the
  scopes opened and not yet closed, outermost first, and a flag is set exactly if
  a declaration that belongs to its scope has been passed (`Flagged`). An `any`
  in a supported slot has been recorded or is still below a visit to come
  (`Coming`), and is never recorded twice (`Logged`).
- `RecordsByTheScopes`: `RecordsByScope`, from `RInv` and `IInv`. Trees are numbered
  in source order, subtree by subtree and within a node role by role, so that what
  has been passed when the walk reaches a node can be told from numbers and roles.
  `FlagsResolve` is the heart of it: at an identifier the walk has reached, some
  flag is set exactly if the identifier is in the `Scope` of a declaration inside
  a function or type. It takes the roles that declare one by one: names of a
  header (receiver, type parameters, parameters, results) reach as far as
  `HeaderScope` says, names of a block from their statement or specification to
  the end of the block. `GlobalFacts` does the same for the package and its
  imports, which the walk looks up before it starts. The tables of plans enter
  only through what they say of a kind and a role (`Row` and the lemmas after it).

`DiagnosticsProofs` (for any versions of a file, of any length, and any number of
edits), from `TextAssumption`, `NoneAssumption` and `BoundAssumption`:

- `Invariance`: findings are computed from the version walked and diagnostics
  from those and the version parsed, whatever is on disk by then. The invariant is
  simple; the theorems are about what is computed.
- What the recursive function `LineStart` computes is known only by its equation,
  as induction is out of reach. The facts used (lines follow one another, lines
  that agree up to one have it at the same offset) are proved by looking at the
  least line at which they would fail (`LeastFacts`).
- `StaysInLine`, `TokensAreReported`, `CommentsSilence`: `InsideLine`,
  `ReportedAtToken` and `SilencedByItsComment`.

`CustomLinterBuildProofs` (for any number of scripts, edits, reverts and kills),
from `RunnerAssumption`, `FileAssumption` and `BoundAssumption`:

- `Invariance`: `IInv` is inductive. The properties look at the files only,
  but what a script will yet write to them is in its hands, so the invariant
  follows it there. A build past its fingerprint is alone (`Alone`); the label
  it will replace, its fingerprint, its snapshot and the sources are in order of
  age (`Forward`, `InOrder`); what a smoke script has seen holds all sources
  from one on, among them whatever it or another script is about to install
  (`Watches`); and where nothing parts them, snapshot, binary and label are the
  same version as the fingerprint in hand (`Paired`). The first three are
  claimed as long as builds did not overlap and sources only went forward, the
  last one without the second condition but without kills and slips.
- `LabelsStayBehind`, `LabelsAreBinaries`, `SmokesRunCurrent`: the safety
  properties of the run `linter_build`.

`ReleaseWorkflowProofs` (for any pull requests, tags, headings and mishaps), from
`HeadingAssumption`, `ChangeAssumption` and `BoundAssumption`:

- `Invariance`: `IInv` is inductive. `main` only grows and what a commit announces
  does not change, so what a run has in hand stays true: a run past `Prepare`
  works on the version of its commit (`OnTag`), past the push its tag is on that
  commit, and before it a tag there was pushed by hand (`TagInHand`). Tags are on
  commits and releases on the commits of their tags (`Pointed`). That there is
  a commit for every merge follows from a count of the pull requests merged
  (`OneCommitEach`).
- `TagsAreAnnounced`, `GreenMeansPublished`, `RefusalsHaveCause`: the safety
  properties of the run `release`, the first with type correctness.
- `WorkflowIsRegister`: every behaviour of the workflow is one of
  `ReleaseRegister`. `PushTag` and `PushByHand` set a tag, `PublishRelease`
  releases it, also when the reply is lost; every other step is a stutter.

Only model-checked: liveness (`LoadTerminates`, `PassesEnd`,
`AcceptedIsPublished`, `EventuallyFresh`), which is out of the prover's reach; and
the five properties of `Configuration`. It has no order of steps to speak of: what
it does is to compute, and its properties say what cleaning and joining paths,
splitting flags and matching globs yield for every input. `Paths`, `BuildTags` and
`ExcludeGlobs` compute that by folds and recursive functions over sequences, so a
proof is by induction over the input, which the provers cannot instantiate. The
runs that end in a violation are examples, not claims about all files.

## 5. Findings

1. `lexical_slots`: a function declared without a body makes the walk
   dereference a nil block and panic, and nothing at all is reported.
2. `lexical_slots`: the case lists of a type switch are not walked, so the `any` of
   `case []any:` is missed. `README.md:151` keeps silent only an `any` that is
   itself a member of the list; this one is the `Elt` of an array type.
   `RecordsByScope`, which is about scopes, excepts these lists by name
   (`Unwalked`).
3. `documented_walk`: a package-level `any` declared in an excluded file is not
   known to the walk, which then reports the uses of that `any` elsewhere in the
   package, where `README.md:152` keeps shadowed declarations silent.
   `CollectsByTheRule` excepts them by name (`ShadowUnseen`).
4. `documented_walk`: overlapping roots collect a use once per root, so that one
   canonical identity (`README.md:85`) is two findings. `CollectsByTheRule` counts
   them so. A legacy selector that names such a use is refused as ambiguous though
   its triple resolves to one identity (`README.md:112`, `120`);
   `VerdictByTheRules` excepts such entries by name (`CountedTwice`).
5. `line_directives`: below a `//line` directive a finding carries the line and
   column the directive sets, or column 0, not those of its token; the pass looks
   that line up in the real file and reports elsewhere or not at all.

Some behaviours that no line of the documentation speaks against show in the
properties as exceptions, without a run of their own:

- the plugin setting `roots: [","]` names no root but is not blank to
  `normalizeRoots`, so the flag is set to a comma and every pass ends with an
  error (`RootsReachPasses` says that it is the only such setting, `OnlyCommas`);
- a root that is a symbolic link, or lies above the repository, or ends in two
  wildcards, and a driver with other tags than `GOFLAGS`, make passes and walk
  differ (`KeepsWhatIsWalked` excludes them by name);
- two builds of the linter at once can label the binary of one with the
  fingerprint of the other, and going back to old sources during a build can make
  a label vouch for another binary (`LabelNeverAhead` excludes both by name);
- a script killed in the middle of a move between file systems can leave a torn
  binary with a matching label, which no later run replaces as long as it is
  executable (`EventuallyFresh` excludes it by name);
- a hand-pushed tag makes the run of its version refuse, unless it is at the
  run's own commit (`AcceptedIsPublished` excludes it by name).

## 6. Not modelled, and why

Decoding of YAML and JSON, the text of messages, the shape of the changelog and
the benchmark harness have no state or order worth a model. Imports without a
name whose package is called `any` depend on code the program does not read.
`GOOS`, `GOARCH` and `CGO_ENABLED` are handed to `go/build` as they are, and a
build constraint is one tag. Files of a pass have a name and a token file, as
all that `go/parser` returns do, so the two early returns of `collectAnalyzerFile`
for those without are left out. A pull request has its last title and commits
only: what was validated before an edit has no bearing on what is merged after.
An edit of the sources falls between two steps of the build, and the versions that
`build-custom-gcl.sh` reads from `.custom-gcl.yml` before it takes the fingerprint
(lines 11-21) and after the copy (83-90) are taken to be those of the fingerprint
and of the copy. Windows separators and volume names are left out of
`Paths`. The text of nolint directives is abstracted to the linters it lists.
Other workflows of `.github` (tests, linting) run commands in order and keep
nothing.

## 7. Plan

Written so far, in this order: the caches with their abstract memo and proofs,
the passes composed over them, the allowlist, the walk, the syntax walk, the
positions of diagnostics, the release workflow with its abstract register, the
build of the custom linter with its proofs, the configuration, the proofs of the
passes, of the release workflow, of the walk, of the syntax walk and of the
diagnostics, and last that the syntax walk resolves names by the scope rules. No component but the benchmark harness is left.

Every safety property of a passing run but those of `Configuration` is proved for
all values of the constants. What remains would need other tools: liveness, and
induction over paths, flags and globs.
