--------------------------- MODULE AnalyzerPasses ---------------------------
(***************************************************************************)
(* analyzerConfig.run of internal/validation/analyzer.go: the passes of    *)
(* one tool process, each on a goroutine of its own, over the three nested *)
(* process caches of repo_validation_cache.go.  Loading a configuration    *)
(* collects by loading the allowlist; the configuration it yields is the   *)
(* key under which the repository is walked once and its result shared.    *)
(* Meanwhile the working tree and the allowlist file may be edited.        *)
(*                                                                         *)
(* The caches are one ProcessCache whose callers are the call frames of    *)
(* the passes and whose keys are tagged with the cache they belong to.     *)
(***************************************************************************)
EXTENDS Naturals, Sequences, SequencesExt, FiniteSets

CONSTANTS
  Passes,     \* analysis passes, one per package variant, at most
  Configs,    \* flags and repository root a pass resolves to
  Roots,      \* lists of roots, normalised and sorted
  RootsOf,    \* [Configs -> Roots]
  Covers,     \* [Roots -> SUBSET Files], the files under them
  ListOf,     \* [Configs -> Lists], the allowlist path
  Lists,      \* allowlist files
  Files,      \* sequence of the Go files, in the order WalkDir meets them
  Contents,   \* what an allowlist file may hold: sets of identities, ...
  Malformed,  \* ... or text that loadAnyAllowlist rejects
  Setups,     \* the processes to run: the files and the configuration of
              \* each pass, the passes with a file outside their repository
              \* root, and bounds: edits, and whether a walk may panic
  MaxPanics,  \* bound: collections that panic, per key
  Panic, None

\* A version of a file is broken or has one finding, and identities of
\* different versions differ in position.
Versions == {"old", "new", "broken"}

FileSet == ToSet(Files)

Finding(f, v) == IF v = "broken" THEN {} ELSE {<<f, v>>}

Identities == UNION {Finding(f, v) : f \in FileSet, v \in Versions}

ASSUME PassAssumption ==
  /\ \A setup \in Setups : \E P \in SUBSET Passes :
       setup \in [files : [P -> SUBSET FileSet], config : [P -> Configs],
                 escaping : SUBSET P, edits : Nat, panics : BOOLEAN]
  /\ RootsOf \in [Configs -> Roots] /\ Covers \in [Roots -> SUBSET FileSet]
  /\ ListOf \in [Configs -> Lists]
  /\ Contents \subseteq SUBSET Identities

(* Keys.  A configuration is cached under the flags as given, a result      *)
(* under the sorted roots and the fingerprint of the allowlist: flags that  *)
(* order the same roots differently are two configurations and one result.  *)

ListKey(l) == [cache |-> "allowlist", list |-> l]

ConfigKey(c) == [cache |-> "config", config |-> c]

\* Variant: the allowlist path instead of the fingerprint of its bytes.
ResultKeyByPath(config) ==
  [cache |-> "result", roots |-> config.roots, allowlist |-> {}]

ResultKey(config) ==
  [cache |-> "result", roots |-> config.roots, allowlist |-> config.allowlist]

Loaded == [roots : Roots, allowlist : Contents]

Keys ==
  {ListKey(l) : l \in Lists} \cup {ConfigKey(c) : c \in Configs}
    \cup {ResultKey(config) : config \in Loaded}

Results == [findings : SUBSET Identities, allowed : Contents]

Values == [allowlist : Contents] \cup Loaded \cup Results

Failure(reason) == [error |-> reason]

Errors == {Failure("malformed"), Failure("unparsable"), Failure("unresolved")}

Frames == Passes \X {"allowlist", "config", "result"}

ASSUME NoneAssumption ==
  /\ {None, Panic} \cap (Values \cup Errors) = {} /\ Panic # None
  /\ None \notin Frames \cup Keys
  /\ Malformed \notin Contents

ASSUME BoundAssumption == MaxPanics \in Nat

VARIABLES
  entries, inflight, pc, want, got, collects, panics,  \* the caches
  setup,     \* the passes of this process
  stage,     \* where each pass is in run
  config,    \* validationConfig of each pass
  seen,      \* what the walk of each pass has read: [FileSet -> Versions]
  verdict,   \* how each pass ended: its report, or an error
  allowlist, \* the contents of the allowlist files
  tree,      \* the versions of the Go files
  edits      \* edits so far

cacheVars == <<entries, inflight, pc, want, got, collects, panics>>
passVars == <<stage, config, seen, verdict>>
worldVars == <<setup, allowlist, tree, edits>>
vars == <<cacheVars, passVars, worldVars>>

Cache == INSTANCE ProcessCache WITH
           Callers <- Frames, Flights <- Keys, FlightOf <- [k \in Keys |-> k]

Running == DOMAIN setup.config
ConfigOf(p) == setup.config[p]
FilesOf(p) == setup.files[p]

\* The allowlist files some pass names; no other matters.
NamedLists == {ListOf[ConfigOf(p)] : p \in Running}

Init ==
  /\ setup \in Setups
  /\ Cache!Init
  /\ stage = [p \in Running |-> "start"]
  /\ config = [p \in Running |-> None]
  /\ seen = [p \in Running |-> <<>>]
  /\ verdict = [p \in Running |-> None]
  /\ allowlist \in [NamedLists -> Contents \cup {Malformed}]
  /\ tree \in [FileSet -> Versions]
  /\ edits = 0

Enter(p, s) == stage' = [stage EXCEPT ![p] = s]

End(p, v) == Enter(p, "ended") /\ verdict' = [verdict EXCEPT ![p] = v]

Report(ids) == [report |-> ids]

-----------------------------------------------------------------------------
(* The stages of run *)

LoadConfig(p) ==
  /\ stage[p] = "start" /\ Enter(p, "config")
  /\ Cache!Load(<<p, "config">>, ConfigKey(ConfigOf(p)))
  /\ UNCHANGED <<config, seen, verdict, worldVars>>

\* Variant: a configuration reads the allowlist file itself.
LoadAllowlistUncached(p) ==
  LET data == allowlist[ListOf[ConfigOf(p)]] IN
  /\ Cache!Collect(<<p, "config">>,
       IF data = Malformed THEN Failure("malformed")
       ELSE [roots |-> RootsOf[ConfigOf(p)], allowlist |-> data])
  /\ UNCHANGED <<passVars, worldVars>>

\* collectRepoValidationConfig begins by loading the allowlist ...
LoadAllowlist(p) ==
  /\ Cache!At(<<p, "config">>, "collect")
  /\ Cache!Load(<<p, "allowlist">>, ListKey(ListOf[ConfigOf(p)]))
  /\ UNCHANGED <<passVars, worldVars>>

\* ... whose collection reads and decodes the file, ...
ReadAllowlist(p) ==
  LET data == allowlist[ListOf[ConfigOf(p)]] IN
  /\ Cache!Collect(<<p, "allowlist">>,
                   IF data = Malformed THEN Failure("malformed")
                   ELSE [allowlist |-> data])
  /\ UNCHANGED <<passVars, worldVars>>

\* ... and ends with its error or with the configuration built from it.
BuildConfig(p) ==
  LET loaded == got[<<p, "allowlist">>] IN
  /\ Cache!At(<<p, "allowlist">>, "done")
  /\ Cache!Collect(<<p, "config">>,
       IF loaded \in Errors THEN loaded
       ELSE [roots |-> RootsOf[ConfigOf(p)], allowlist |-> loaded.allowlist])
  /\ UNCHANGED <<passVars, worldVars>>

\* The allowlist frame is popped with the collection that called it.
DropAllowlist(p) ==
  /\ ~ Cache!At(<<p, "config">>, "collect")
  /\ Cache!Return(<<p, "allowlist">>)
  /\ UNCHANGED <<passVars, worldVars>>

\* run takes the configuration, or ends with the error of loading it.
GetConfig(p) ==
  LET loaded == got[<<p, "config">>] IN
  /\ stage[p] = "config"
  /\ Cache!Return(<<p, "config">>)
  /\ IF loaded \in Errors
     THEN End(p, loaded) /\ UNCHANGED config
     ELSE /\ Enter(p, "files")
          /\ config' = [config EXCEPT ![p] = loaded]
          /\ UNCHANGED verdict
  /\ UNCHANGED <<seen, worldVars>>

\* collectAnalyzerFiles refuses a file outside the repository root.
RejectFiles(p) ==
  /\ stage[p] = "files" /\ p \in setup.escaping
  /\ End(p, Failure("escaping"))
  /\ UNCHANGED <<cacheVars, config, seen, worldVars>>

LoadResult(p) ==
  /\ stage[p] = "files" /\ p \notin setup.escaping /\ Enter(p, "result")
  /\ Cache!Load(<<p, "result">>, ResultKey(config[p]))
  /\ UNCHANGED <<config, seen, verdict, worldVars>>

\* The files the walk has yet to read, by their place in WalkDir order.
ToWalk(p) ==
  {n \in DOMAIN Files : Files[n] \in Covers[config[p].roots] /\ Files[n] \notin DOMAIN seen[p]}

\* The walk reads and parses one file; a parse error ends it.
WalkFile(p) ==
  /\ Cache!At(<<p, "result">>, "collect")
  /\ \E n \in ToWalk(p) :
       LET f == Files[n] IN
       /\ \A m \in ToWalk(p) : n <= m
       /\ IF tree[f] = "broken"
          THEN /\ Cache!Collect(<<p, "result">>, Failure("unparsable"))
               /\ UNCHANGED seen
          ELSE /\ seen' = [seen EXCEPT ![p] =
                             [g \in DOMAIN @ \cup {f} |->
                                IF g = f THEN tree[f] ELSE @[g]]]
               /\ UNCHANGED cacheVars
  /\ UNCHANGED <<stage, config, verdict, worldVars>>

\* Variant: selectors that match no finding are ignored.
ResolveLeniently(findings, allowed) == [findings |-> findings, allowed |-> allowed]

\* resolveAllowlistIndex: every selector must match a collected finding.
Resolve(findings, allowed) ==
  IF allowed \subseteq findings
  THEN [findings |-> findings, allowed |-> allowed]
  ELSE Failure("unresolved")

BuildResult(p) ==
  LET findings == UNION {Finding(f, seen[p][f]) : f \in DOMAIN seen[p]} IN
  /\ Cache!At(<<p, "result">>, "collect")
  /\ ToWalk(p) = {}
  /\ Cache!Collect(<<p, "result">>, Resolve(findings, config[p].allowlist))
  /\ UNCHANGED <<passVars, worldVars>>

\* Variant: a pass reports what its roots cover, not what its package holds.
ReportableAnywhere(p, result) == result.findings \ result.allowed

\* collectCachedAnalyzerViolations: findings in the files of this package.
Reportable(p, result) ==
  {i \in result.findings \ result.allowed :
     i[1] \in FilesOf(p) \cap Covers[config[p].roots]}

GetResult(p) ==
  LET result == got[<<p, "result">>] IN
  /\ stage[p] = "result"
  /\ Cache!Return(<<p, "result">>)
  /\ End(p, CASE result = Panic -> Failure("panic")
              [] result \in Errors -> result
              [] OTHER -> Report(Reportable(p, result)))
  /\ UNCHANGED <<config, seen, worldVars>>

CacheStep(p) ==
  /\ \E f \in {p} \X {"allowlist", "config", "result"} : Cache!Internal(f)
  /\ UNCHANGED <<passVars, worldVars>>

\* The AST walk may panic while a result is collected.
WalkPanics(p) ==
  /\ setup.panics
  /\ Cache!CollectPanics(<<p, "result">>)
  /\ UNCHANGED <<passVars, worldVars>>

Pass(p) ==
  \/ LoadConfig(p) \/ LoadAllowlist(p) \/ ReadAllowlist(p) \/ BuildConfig(p)
  \/ DropAllowlist(p) \/ GetConfig(p) \/ RejectFiles(p) \/ LoadResult(p)
  \/ WalkFile(p) \/ BuildResult(p) \/ WalkPanics(p) \/ GetResult(p)
  \/ CacheStep(p)

\* Somebody edits a file while the process runs.
Edit ==
  /\ edits < setup.edits /\ edits' = edits + 1
  /\ \/ /\ \E l \in NamedLists, d \in Contents \cup {Malformed} :
             allowlist' = [allowlist EXCEPT ![l] = d]
        /\ UNCHANGED tree
     \/ /\ \E f \in FileSet, v \in Versions : tree' = [tree EXCEPT ![f] = v]
        /\ UNCHANGED allowlist
  /\ UNCHANGED <<cacheVars, passVars, setup>>

Ended == \A p \in Running : stage[p] = "ended"

\* The process has nothing left to do.
Exit == Ended /\ UNCHANGED vars

Next == Edit \/ Exit \/ \E p \in Running : Pass(p)

Spec == Init /\ [][Next]_vars

\* Every goroutine that can run does; nobody need edit anything.
FairSpec == Spec /\ \A p \in Passes : WF_vars(p \in Running /\ Pass(p))

-----------------------------------------------------------------------------
(* Properties *)

\* How a pass may end.
Endings == [report : SUBSET Identities] \cup Errors
          \cup {Failure("escaping"), Failure("panic")}

TypeOK ==
  /\ Cache!TypeOK
  /\ stage \in [Running -> {"start", "config", "files", "result", "ended"}]
  /\ config \in [Running -> Loaded \cup {None}]
  /\ seen \in [Running -> UNION {[F -> Versions \ {"broken"}] : F \in SUBSET FileSet}]
  /\ verdict \in [Running -> Endings \cup {None}]
  /\ allowlist \in [NamedLists -> Contents \cup {Malformed}]
  /\ tree \in [FileSet -> Versions]
  /\ edits \in 0 .. setup.edits

Reported(p) == DOMAIN verdict[p] = {"report"}

\* A pass that neither panicked nor failed on its own files ended as the
\* caches decided.
Decided(p) ==
  /\ stage[p] = "ended"
  /\ Reported(p) \/ verdict[p] \in Errors

InFilesOf(ids, p) == {i \in ids : i[1] \in FilesOf(p)}

SameSetup(p, q) ==
  /\ RootsOf[ConfigOf(p)] = RootsOf[ConfigOf(q)]
  /\ ListOf[ConfigOf(p)] = ListOf[ConfigOf(q)]

\* Passes with the same roots, in any order, and the same allowlist path end
\* with one verdict, whatever was edited between them: all fail with the same
\* error, so that a stale selector fails closed in every later package, or all
\* report, and then packages that share a file (a package and its test
\* variant) agree on it.
OneVerdict ==
  \A p, q \in Running :
    SameSetup(p, q) /\ Decided(p) /\ Decided(q) =>
      /\ Reported(p) = Reported(q)
      /\ ~ Reported(p) => verdict[p] = verdict[q]
      /\ Reported(p) => InFilesOf(verdict[p].report, q) =
                          InFilesOf(verdict[q].report, p)

\* An allowlist file is read once per process: configurations that name the
\* same file hold the same allowlist, or the same error, even if the file was
\* edited between their loads.
OneAllowlist ==
  \A c, d \in Configs :
    LET one == entries[ConfigKey(c)]
        other == entries[ConfigKey(d)]
    IN  ListOf[c] = ListOf[d] /\ one # None /\ other # None =>
          \/ one \in Errors /\ one = other
          \/ one \in Loaded /\ other \in Loaded /\ one.allowlist = other.allowlist

\* The result a pass filters was resolved against the allowlist the pass
\* loaded, and collected under the roots of the pass: the fingerprint in the
\* key keeps results of different allowlists for the same roots apart.  The
\* variables have their types.
OwnResult ==
  /\ TypeOK
  /\ \A p \in Running :
       stage[p] = "ended" /\ Reported(p) =>
         LET result == entries[ResultKey(config[p])] IN
           /\ result.allowed = config[p].allowlist
           /\ {i[1] : i \in result.findings} = Covers[config[p].roots]

\* ValidateAnyUsageFromFile on the files as they are: the command-line audit.
Audit(c) ==
  LET data == allowlist[ListOf[c]]
      findings == UNION {Finding(f, tree[f]) : f \in Covers[RootsOf[c]]}
  IN  CASE data = Malformed -> Failure("malformed")
        [] data # Malformed /\ \E f \in Covers[RootsOf[c]] : tree[f] = "broken" ->
             Failure("unparsable")
        [] OTHER -> IF data \subseteq findings THEN Report(findings \ data)
                    ELSE Failure("unresolved")

\* When nothing was edited, every pass ends as the audit of its configuration
\* does, and the passes whose packages hold the files it covers report exactly
\* the violations of the audit between them.
PassesAgreeWithAudit ==
  edits = 0 =>
    \A c \in {ConfigOf(p) : p \in Running} :
      LET Done == {p \in Running : ConfigOf(p) = c /\ Decided(p)}
          covered == UNION {FilesOf(p) : p \in Done}
      IN  /\ \A p \in Done : ~ Reported(p) => verdict[p] = Audit(c)
          /\ \A p \in Done : Reported(p) => DOMAIN Audit(c) = {"report"}
          /\ Done # {} /\ (\A p \in Done : Reported(p)) =>
               UNION {verdict[p].report : p \in Done} =
                 {i \in Audit(c).report : i[1] \in covered}

\* Every pass of the process ends: no pass waits for ever on a flight, nor
\* the nested loads on each other.
PassesEnd == <>Ended

=============================================================================
