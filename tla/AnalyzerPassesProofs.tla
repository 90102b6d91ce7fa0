------------------------ MODULE AnalyzerPassesProofs ------------------------
(***************************************************************************)
(* Theorems about AnalyzerPasses, for any passes, configurations, files    *)
(* and edits: the three caches behave as ProcessCache, so that what        *)
(* ProcessCacheProofs proves of one cache holds of them, and the passes of *)
(* a process agree with each other and with the audit.                     *)
(***************************************************************************)
EXTENDS AnalyzerPasses, TLAPS

CacheProofs == INSTANCE ProcessCacheProofs WITH
                 Callers <- Frames, Flights <- Keys, FlightOf <- [k \in Keys |-> k]

-----------------------------------------------------------------------------
(* The invariant.                                                           *)

\* The key a frame asks its cache for.
KeyOf(f) ==
  CASE f[2] = "allowlist" -> ListKey(ListOf[ConfigOf(f[1])])
    [] f[2] = "config" -> ConfigKey(ConfigOf(f[1]))
    [] f[2] = "result" -> ResultKey(config[f[1]])

\* A frame in a cache belongs to a pass of the process, asks for the key of its
\* pass, and is there at the stage of run that calls the cache.
Asks ==
  \A f \in Frames : pc[f] # "idle" =>
    /\ f[1] \in Running /\ want[f] = KeyOf(f)
    /\ f[2] # "allowlist" => stage[f[1]] = f[2]

\* Only the walk panics.
PanicsWalking == \A f \in Frames : got[f] = Panic => f[2] = "result"

\* What the caches hold for a configuration when they keep these entries: a
\* function of the allowlist that they hold for its path.
Configured(kept, c) ==
  LET loaded == kept[ListKey(ListOf[c])]
  IN  IF loaded \in Errors THEN loaded
      ELSE [roots |-> RootsOf[c], allowlist |-> loaded.allowlist]

\* The outcomes a key may have next to these entries.
Fits(kept, k, o) ==
  /\ \A l \in Lists : k = ListKey(l) =>
       o \in {Failure("malformed")} \cup [allowlist : Contents]
  /\ \A c \in Configs : k = ConfigKey(c) =>
       kept[ListKey(ListOf[c])] # None /\ o = Configured(kept, c)
  /\ \A c \in Loaded : k = ResultKey(c) =>
       \/ o \in Errors
       \/ /\ o \in Results /\ o.allowed = c.allowlist
          /\ {i[1] : i \in o.findings} = Covers[c.roots]

Stored ==
  /\ \A k \in Keys : entries[k] # None => Fits(entries, k, entries[k])
  /\ \A f \in Frames : pc[f] = "store" => Fits(entries, want[f], got[f])

\* A pass past its configuration holds the one in the cache.
Configures(p) ==
  /\ stage[p] \in {"files", "result"} =>
       config[p] \in Loaded /\ config[p] = entries[ConfigKey(ConfigOf(p))]
  /\ stage[p] \in {"start", "config"} => config[p] = None

\* A walk reads files under its roots.
Walks(p) ==
  DOMAIN seen[p] # {} => config[p] \in Loaded /\ DOMAIN seen[p] \subseteq Covers[config[p].roots]

\* How pass p ended is what the caches hold for its configuration, unless it
\* panicked or refused its own files.
EndedBy(p) ==
  LET loaded == entries[ConfigKey(ConfigOf(p))]
      result == entries[ResultKey(config[p])]
  IN  \/ verdict[p] \in {Failure("escaping"), Failure("panic")}
      \/ loaded \in Errors /\ verdict[p] = loaded
      \/ /\ loaded \in Loaded /\ config[p] = loaded /\ result # None
         /\ verdict[p] = IF result \in Errors THEN result
                         ELSE Report(Reportable(p, result))

Along(p) == Configures(p) /\ Walks(p) /\ (stage[p] = "ended" => EndedBy(p))

IInv ==
  /\ CacheProofs!IInv /\ setup \in Setups /\ TypeOK
  /\ Asks /\ PanicsWalking /\ Stored /\ \A p \in Running : Along(p)

-----------------------------------------------------------------------------
(* The invariant of a process without edits. *)

\* What the files, as they are, make of an allowlist and of a walk.
ListNow(lists, l) ==
  IF lists[l] = Malformed THEN Failure("malformed") ELSE [allowlist |-> lists[l]]

FindingsNow(files, covers) == UNION {Finding(f, files[f]) : f \in covers}

ResultNow(files, c) ==
  IF \E f \in Covers[c.roots] : files[f] = "broken" THEN Failure("unparsable")
  ELSE Resolve(FindingsNow(files, Covers[c.roots]), c.allowlist)

FitsNow(lists, files, k, o) ==
  /\ \A l \in DOMAIN lists : k = ListKey(l) => o = ListNow(lists, l)
  /\ \A c \in Loaded : k = ResultKey(c) => o = ResultNow(files, c)

\* Nothing was edited: the caches hold, and the walks have read, the files as
\* they are.
Unedited ==
  edits = 0 =>
    /\ \A k \in Keys : entries[k] # None => FitsNow(allowlist, tree, k, entries[k])
    /\ \A f \in Frames : pc[f] = "store" => FitsNow(allowlist, tree, want[f], got[f])
    /\ \A p \in Running : \A f \in DOMAIN seen[p] : seen[p][f] = tree[f]

-----------------------------------------------------------------------------
(* Lemmas about the data. *)

\* The keys of the caches are what ProcessCache assumes of keys.
LEMMA CacheAssumptions ==
  /\ CacheProofs!FlightAssumption
  /\ CacheProofs!OutcomeAssumption
  /\ CacheProofs!BoundAssumption
<1>1. CacheProofs!FlightAssumption
  <2>1. [k \in Keys |-> k] \in [Keys -> Keys]
    OBVIOUS
  <2>2. \A k \in Keys : [j \in Keys |-> j][k] = k
    OBVIOUS
  <2> QED
    BY <2>1, <2>2 DEF CacheProofs!FlightAssumption
<1>2. CacheProofs!OutcomeAssumption
  BY NoneAssumption DEF CacheProofs!OutcomeAssumption, CacheProofs!Outcomes
<1>3. CacheProofs!BoundAssumption
  BY BoundAssumption DEF CacheProofs!BoundAssumption
<1> QED
  BY <1>1, <1>2, <1>3

\* An outcome is of one kind only.
LEMMA OutcomeKinds ==
  /\ \A o \in [allowlist : Contents] : DOMAIN o = {"allowlist"}
  /\ \A o \in Loaded : DOMAIN o = {"roots", "allowlist"}
  /\ \A o \in Results : DOMAIN o = {"findings", "allowed"}
  /\ \A o \in Errors : DOMAIN o = {"error"}
  /\ \A o \in [allowlist : Contents] \cup Loaded \cup Results : o \notin Errors
BY DEF Loaded, Results, Errors, Failure

\* Keys of different caches differ, and so do different keys of one.
LEMMA KeyFacts ==
  /\ \A l \in Lists : ListKey(l) \in Keys /\ ListKey(l).cache = "allowlist"
  /\ \A c \in Configs : ConfigKey(c) \in Keys /\ ConfigKey(c).cache = "config"
  /\ \A c \in Loaded : ResultKey(c) \in Keys /\ ResultKey(c).cache = "result"
  /\ \A l, m \in Lists : ListKey(l) = ListKey(m) => l = m
  /\ \A c, d \in Configs : ConfigKey(c) = ConfigKey(d) => c = d
  /\ \A c, d \in Loaded : ResultKey(c) = ResultKey(d) => c = d
<1>1. /\ \A l \in Lists : ListKey(l) \in Keys /\ ListKey(l).cache = "allowlist"
      /\ \A c \in Configs : ConfigKey(c) \in Keys /\ ConfigKey(c).cache = "config"
      /\ \A c \in Loaded : ResultKey(c) \in Keys /\ ResultKey(c).cache = "result"
  BY DEF Keys, ListKey, ConfigKey, ResultKey
<1>2. /\ \A l, m \in Lists : ListKey(l) = ListKey(m) => l = m
      /\ \A c, d \in Configs : ConfigKey(c) = ConfigKey(d) => c = d
  BY DEF ListKey, ConfigKey
<1>3. \A c, d \in Loaded : ResultKey(c) = ResultKey(d) => c = d
  BY DEF ResultKey, Loaded
<1> QED
  BY <1>1, <1>2, <1>3

\* The passes of a process.
LEMMA RunningFacts ==
  ASSUME setup \in Setups
  PROVE  /\ Running \subseteq Passes
         /\ \A p \in Running : /\ ConfigOf(p) \in Configs /\ FilesOf(p) \subseteq FileSet
                               /\ ListOf[ConfigOf(p)] \in Lists
                               /\ RootsOf[ConfigOf(p)] \in Roots
                               /\ \A kind \in {"allowlist", "config", "result"} : <<p, kind>> \in Frames
BY PassAssumption DEF Running, ConfigOf, FilesOf, Frames

-----------------------------------------------------------------------------
(* Lemmas about the caches: they are one ProcessCache, and what its steps     *)
(* leave alone.                                                             *)

\* The instance of the model and the instance of the theorems are one cache.
LEMMA SameOperators ==
  /\ \A c \in Frames, k \in Keys : Cache!Load(c, k) <=> CacheProofs!Load(c, k)
  /\ \A c \in Frames : Cache!Internal(c) <=> CacheProofs!Internal(c)
  /\ \A c \in Frames, o \in Values \cup Errors : Cache!Collect(c, o) <=> CacheProofs!Collect(c, o)
  /\ \A c \in Frames : Cache!CollectPanics(c) <=> CacheProofs!CollectPanics(c)
  /\ \A c \in Frames : Cache!Return(c) <=> CacheProofs!Return(c)
<1>1. \A c \in Frames, k \in Keys : Cache!Load(c, k) <=> CacheProofs!Load(c, k)
  BY DEF Cache!Load, CacheProofs!Load, Cache!At, CacheProofs!At, Cache!Goto,
         CacheProofs!Goto
<1>2. \A c \in Frames : Cache!Internal(c) <=> CacheProofs!Internal(c)
  BY DEF Cache!Internal, CacheProofs!Internal, Cache!LookupHit, CacheProofs!LookupHit,
         Cache!LookupMiss, CacheProofs!LookupMiss, Cache!Lead, CacheProofs!Lead,
         Cache!Join, CacheProofs!Join, Cache!RecheckHit, CacheProofs!RecheckHit,
         Cache!RecheckMiss, CacheProofs!RecheckMiss, Cache!Store, CacheProofs!Store,
         Cache!Finish, CacheProofs!Finish, Cache!Waiters, CacheProofs!Waiters,
         Cache!Flight, CacheProofs!Flight, Cache!Take, CacheProofs!Take,
         Cache!At, CacheProofs!At, Cache!Goto, CacheProofs!Goto
<1>3. /\ \A c \in Frames, o \in Values \cup Errors : Cache!Collect(c, o) <=> CacheProofs!Collect(c, o)
      /\ \A c \in Frames : Cache!CollectPanics(c) <=> CacheProofs!CollectPanics(c)
      /\ \A c \in Frames : Cache!Return(c) <=> CacheProofs!Return(c)
  BY DEF Cache!Collect, CacheProofs!Collect, Cache!CollectPanics,
         CacheProofs!CollectPanics,
         Cache!Return, CacheProofs!Return, Cache!Take, CacheProofs!Take,
         Cache!At, CacheProofs!At, Cache!Goto, CacheProofs!Goto
<1> QED
  BY <1>1, <1>2, <1>3

\* The caches start as one ProcessCache, ...
LEMMA CacheInit == Init => CacheProofs!Init
BY DEF Init, Cache!Init, CacheProofs!Init

\* ... and a call of load, by the frame it is for, keeps the invariant of
\* ProcessCache and leaves the other frames alone.
LEMMA LoadEffect ==
  ASSUME CacheProofs!IInv, NEW f \in Frames, NEW k \in Keys, Cache!Load(f, k)
  PROVE  /\ CacheProofs!IInv' /\ CacheProofs!Next
         /\ pc[f] = "idle" /\ pc'[f] = "lookup" /\ want'[f] = k
         /\ \A g \in Frames : g # f => pc'[g] = pc[g] /\ want'[g] = want[g]
         /\ UNCHANGED <<entries, got>>
<1>1. CacheProofs!Load(f, k)
  BY SameOperators
<1>2. CacheProofs!IInv' /\ CacheProofs!Next
  BY <1>1, CacheAssumptions, CacheProofs!LoadStep DEF CacheProofs!Next
<1>3. pc \in [Frames -> CacheProofs!Places] /\ want \in [Frames -> Keys \cup {None}]
  BY DEF CacheProofs!IInv, CacheProofs!TypeOK
<1> QED
  BY <1>1, <1>2, <1>3 DEF CacheProofs!Load, CacheProofs!At, CacheProofs!Goto

\* A collection that ends keeps it, ...
LEMMA CollectEffect ==
  ASSUME CacheProofs!IInv, NEW f \in Frames, NEW o \in Values \cup Errors, Cache!Collect(f, o)
  PROVE  /\ CacheProofs!IInv' /\ CacheProofs!Next
         /\ pc[f] = "collect" /\ pc'[f] = "store" /\ got'[f] = o
         /\ \A g \in Frames : g # f => pc'[g] = pc[g] /\ got'[g] = got[g]
         /\ UNCHANGED <<entries, want>>
<1>1. CacheProofs!Collect(f, o) /\ o \in CacheProofs!Outcomes
  BY SameOperators DEF CacheProofs!Outcomes
<1>2. CacheProofs!IInv' /\ CacheProofs!Next
  BY <1>1, CacheAssumptions, CacheProofs!CollectStep
     DEF CacheProofs!Next, CacheProofs!CollectEnds
<1>3. pc \in [Frames -> CacheProofs!Places] /\ got \in [Frames -> CacheProofs!Outcomes \cup {Panic, None}]
  BY DEF CacheProofs!IInv, CacheProofs!TypeOK
<1> QED
  BY <1>1, <1>2, <1>3
     DEF CacheProofs!Collect, CacheProofs!At, CacheProofs!Goto, CacheProofs!Take

\* ... and so does one that panics, ...
LEMMA PanicEffect ==
  ASSUME CacheProofs!IInv, NEW f \in Frames, Cache!CollectPanics(f)
  PROVE  /\ CacheProofs!IInv' /\ CacheProofs!Next
         /\ pc[f] = "collect" /\ pc'[f] = "finish" /\ got'[f] = Panic
         /\ \A g \in Frames : g # f => pc'[g] = pc[g] /\ got'[g] = got[g]
         /\ UNCHANGED <<entries, want>>
<1>1. CacheProofs!CollectPanics(f)
  BY SameOperators
<1>2. CacheProofs!IInv' /\ CacheProofs!Next
  BY <1>1, CacheAssumptions, CacheProofs!CollectPanicsStep
     DEF CacheProofs!Next, CacheProofs!CollectEnds
<1>3. pc \in [Frames -> CacheProofs!Places] /\ got \in [Frames -> CacheProofs!Outcomes \cup {Panic, None}]
  BY DEF CacheProofs!IInv, CacheProofs!TypeOK
<1> QED
  BY <1>1, <1>2, <1>3
     DEF CacheProofs!CollectPanics, CacheProofs!At, CacheProofs!Goto, CacheProofs!Take

\* ... the return of load, with the entry of its key or a panic, ...
LEMMA ReturnEffect ==
  ASSUME CacheProofs!IInv, NEW f \in Frames, Cache!Return(f)
  PROVE  /\ CacheProofs!IInv' /\ CacheProofs!Next
         /\ pc[f] = "done" /\ pc'[f] = "idle" /\ want'[f] = None /\ got'[f] = None
         /\ got[f] = Panic \/ (got[f] \in Values \cup Errors /\ got[f] = entries[want[f]])
         /\ want[f] \in Keys
         /\ \A g \in Frames : g # f => pc'[g] = pc[g] /\ got'[g] = got[g] /\ want'[g] = want[g]
         /\ UNCHANGED entries
<1>1. CacheProofs!Return(f)
  BY SameOperators
<1>2. CacheProofs!IInv' /\ CacheProofs!Next
  BY <1>1, CacheAssumptions, CacheProofs!ReturnStep DEF CacheProofs!Next
<1>3. /\ pc \in [Frames -> CacheProofs!Places] /\ want \in [Frames -> Keys \cup {None}]
      /\ got \in [Frames -> CacheProofs!Outcomes \cup {Panic, None}]
  BY DEF CacheProofs!IInv, CacheProofs!TypeOK
<1>4. want[f] \in Keys
  BY <1>1, <1>3
     DEF CacheProofs!Return, CacheProofs!At, CacheProofs!IInv, CacheProofs!Wants
<1>5. got[f] = Panic \/ (got[f] \in Values \cup Errors /\ got[f] = entries[want[f]])
  <2>1. CacheProofs!At(f, "done") /\ CacheProofs!Carries
    BY <1>1 DEF CacheProofs!Return, CacheProofs!IInv
  <2> QED
    BY <2>1 DEF CacheProofs!Carries, CacheProofs!Outcomes
<1> QED
  BY <1>1, <1>2, <1>3, <1>4, <1>5
     DEF CacheProofs!Return, CacheProofs!At, CacheProofs!Goto, CacheProofs!Take

\* ... and the steps in between, which only store what was collected.
LEMMA InternalEffect ==
  ASSUME CacheProofs!IInv, NEW f \in Frames, Cache!Internal(f)
  PROVE  /\ CacheProofs!IInv' /\ CacheProofs!Next
         /\ UNCHANGED want
         /\ \A g \in Frames :
              /\ pc'[g] = "idle" <=> pc[g] = "idle"
              /\ pc'[g] = "store" => pc[g] = "store"
              /\ \/ got'[g] = got[g]
                 \/ got'[g] \in Values \cup Errors /\ pc'[g] # "store"
                 \/ got'[g] = got[f] /\ want[g] = want[f] /\ pc'[g] # "store" /\ want[f] \in Keys
         /\ \/ UNCHANGED entries
            \/ /\ pc[f] = "store" /\ want[f] \in Keys /\ entries[want[f]] = None
               /\ entries' = [entries EXCEPT ![want[f]] = got[f]]
<1>1. CacheProofs!Internal(f)
  BY SameOperators
<1>2. CacheProofs!IInv' /\ CacheProofs!Next
  BY <1>1, CacheAssumptions, CacheProofs!NextStep DEF CacheProofs!Next
<1>3. /\ pc \in [Frames -> CacheProofs!Places] /\ want \in [Frames -> Keys \cup {None}]
      /\ got \in [Frames -> CacheProofs!Outcomes \cup {Panic, None}]
      /\ entries \in [Keys -> CacheProofs!Outcomes \cup {None}]
      /\ \A g \in Frames : want[g] # None <=> pc[g] # "idle"
  BY DEF CacheProofs!IInv, CacheProofs!TypeOK, CacheProofs!Wants, CacheProofs!At
<1>4. CASE \/ CacheProofs!LookupHit(f) \/ CacheProofs!LookupMiss(f) \/ CacheProofs!Lead(f)
           \/ CacheProofs!Join(f) \/ CacheProofs!RecheckHit(f) \/ CacheProofs!RecheckMiss(f)
  <2> DEFINE Moves(x) == pc[f] # "idle" /\ pc' = [pc EXCEPT ![f] = x]
  <2>1. /\ UNCHANGED <<want, entries>>
        /\ \E x \in {"done", "enter", "recheck", "waiting", "finish", "collect"} : Moves(x)
        /\ \/ UNCHANGED got
           \/ entries[want[f]] # None /\ got' = [got EXCEPT ![f] = entries[want[f]]]
    BY <1>4 DEF CacheProofs!LookupHit, CacheProofs!LookupMiss, CacheProofs!Lead,
       CacheProofs!Join, CacheProofs!RecheckHit, CacheProofs!RecheckMiss,
       CacheProofs!At, CacheProofs!Goto, CacheProofs!Take
  <2>2. PICK x \in {"done", "enter", "recheck", "waiting", "finish", "collect"} : Moves(x)
    BY <2>1
  <2>3. want[f] \in Keys /\ pc'[f] # "store"
    BY <1>3, <2>2
  <2>4. \A g \in Frames : /\ pc'[g] = "idle" <=> pc[g] = "idle"
                          /\ pc'[g] = "store" => pc[g] = "store"
    BY <1>3, <2>2
  <2>5. \A g \in Frames : got'[g] = got[g] \/ (got'[g] \in Values \cup Errors /\ pc'[g] # "store")
    BY <1>3, <2>1, <2>3 DEF CacheProofs!Outcomes
  <2> QED
    BY <1>2, <2>1, <2>4, <2>5
<1>5. CASE CacheProofs!Store(f)
  <2>1. /\ pc[f] = "store" /\ UNCHANGED <<want, got>>
        /\ pc' = [pc EXCEPT ![f] = "finish"]
        /\ entries' = [entries EXCEPT ![want[f]] = got[f]]
    BY <1>5 DEF CacheProofs!Store, CacheProofs!At, CacheProofs!Goto
  <2>2. want[f] \in Keys /\ entries[want[f]] = None
    BY <1>3, <2>1 DEF CacheProofs!IInv, CacheProofs!Open
  <2>3. \A g \in Frames : /\ pc'[g] = "idle" <=> pc[g] = "idle"
                          /\ pc'[g] = "store" => pc[g] = "store"
    BY <1>3, <2>1
  <2> QED
    BY <1>2, <2>1, <2>2, <2>3
<1>6. CASE CacheProofs!Finish(f)
  <2>1. /\ pc[f] = "finish" /\ UNCHANGED <<want, entries>> /\ want[f] \in Keys
        /\ \A g \in Frames :
             \/ pc'[g] = pc[g] /\ got'[g] = got[g]
             \/ /\ pc[g] \in {"waiting", "finish"} /\ pc'[g] = "done" /\ got'[g] = got[f]
                /\ CacheProofs!Flight(g) = CacheProofs!Flight(f)
    BY <1>3, <1>6 DEF CacheProofs!Finish, CacheProofs!Waiters, CacheProofs!At
  <2>2. \A g \in Frames : pc[g] # "idle" /\ CacheProofs!Flight(g) = CacheProofs!Flight(f) =>
          want[g] = want[f]
    BY <1>3, <2>1 DEF CacheProofs!Flight
  <2> QED
    BY <1>2, <2>1, <2>2
<1> QED
  BY <1>1, <1>4, <1>5, <1>6 DEF CacheProofs!Internal

-----------------------------------------------------------------------------
(* Lemmas about what one part of a step leaves alone.                       *)

\* A frame is one of the three of its pass.
LEMMA FrameFacts ==
  /\ \A p : /\ KeyOf(<<p, "allowlist">>) = ListKey(ListOf[ConfigOf(p)])
            /\ KeyOf(<<p, "config">>) = ConfigKey(ConfigOf(p))
            /\ KeyOf(<<p, "result">>) = ResultKey(config[p])
  /\ \A f \in Frames : /\ f[1] \in Passes /\ f[2] \in {"allowlist", "config", "result"}
                       /\ f = <<f[1], f[2]>>
  /\ \A p \in Passes : \A kind \in {"allowlist", "config", "result"} :
       <<p, kind>> \in Frames /\ <<p, kind>>[1] = p /\ <<p, kind>>[2] = kind
BY DEF Frames, KeyOf

\* The frames of a pass, and the keys they ask for.
LEMMA PassFacts ==
  ASSUME IInv, NEW p \in Running
  PROVE  /\ \A kind \in {"allowlist", "config", "result"} :
              <<p, kind>> \in Frames /\ <<p, kind>>[1] = p /\ <<p, kind>>[2] = kind
         /\ KeyOf(<<p, "allowlist">>) = ListKey(ListOf[ConfigOf(p)])
         /\ KeyOf(<<p, "config">>) = ConfigKey(ConfigOf(p))
         /\ KeyOf(<<p, "result">>) = ResultKey(config[p])
         /\ ConfigOf(p) \in Configs /\ ConfigKey(ConfigOf(p)) \in Keys
         /\ ListOf[ConfigOf(p)] \in Lists /\ ListKey(ListOf[ConfigOf(p)]) \in Keys
         /\ ListOf[ConfigOf(p)] \in NamedLists /\ RootsOf[ConfigOf(p)] \in Roots
<1>1. setup \in Setups
  BY DEF IInv
<1>2. /\ p \in Passes /\ ConfigOf(p) \in Configs
      /\ ListOf[ConfigOf(p)] \in Lists /\ RootsOf[ConfigOf(p)] \in Roots
  BY <1>1, RunningFacts
<1>3. ConfigKey(ConfigOf(p)) \in Keys /\ ListKey(ListOf[ConfigOf(p)]) \in Keys
  BY <1>2, KeyFacts
<1>4. ListOf[ConfigOf(p)] \in NamedLists
  BY DEF NamedLists
<1> QED
  BY <1>2, <1>3, <1>4, FrameFacts

\* The cache drops no entry.
Grows == \A k \in Keys : entries[k] # None => entries'[k] = entries[k]

\* The parts of IInv that ProcessCache has already.
LEMMA SameTypes ==
  (CacheProofs!TypeOK <=> Cache!TypeOK) /\ (CacheProofs!TypeOK' <=> Cache!TypeOK')
BY DEF CacheProofs!TypeOK, Cache!TypeOK, CacheProofs!Outcomes, Cache!Outcomes,
       CacheProofs!Places, Cache!Places, CacheProofs!Leading, Cache!Leading

\* The types of what a step may use.
LEMMA Types ==
  ASSUME IInv
  PROVE  /\ entries \in [Keys -> Values \cup Errors \cup {None}]
         /\ stage \in [Running -> {"start", "config", "files", "result", "ended"}]
         /\ config \in [Running -> Loaded \cup {None}]
         /\ seen \in [Running -> UNION {[F -> Versions \ {"broken"}] : F \in SUBSET FileSet}]
         /\ verdict \in [Running -> Endings \cup {None}]
         /\ None \notin Values \cup Errors /\ Panic \notin Values \cup Errors
         /\ Running \subseteq Passes
BY RunningFacts, NoneAssumption DEF IInv, TypeOK, Cache!TypeOK, Cache!Outcomes

\* An ended pass stays as it ended.
LEMMA EndStays ==
  ASSUME IInv, Grows, UNCHANGED setup, NEW p \in Running, EndedBy(p),
         config'[p] = config[p], verdict'[p] = verdict[p]
  PROVE  EndedBy(p)'
<1>1. ConfigOf(p) \in Configs /\ ConfigKey(ConfigOf(p)) \in Keys
  BY RunningFacts, KeyFacts DEF IInv
<1>2. ConfigOf(p)' = ConfigOf(p) /\ \A result : Reportable(p, result)' = Reportable(p, result)
  BY DEF ConfigOf, FilesOf, Reportable
<1>3. None \notin Values \cup Errors /\ Loaded \subseteq Values
  BY NoneAssumption DEF Values
<1>4. CASE verdict[p] \in {Failure("escaping"), Failure("panic")}
  BY <1>4 DEF EndedBy, Failure
<1>5. CASE entries[ConfigKey(ConfigOf(p))] \in Errors /\ verdict[p] = entries[ConfigKey(ConfigOf(p))]
  <2>1. entries'[ConfigKey(ConfigOf(p))] = entries[ConfigKey(ConfigOf(p))]
    BY <1>1, <1>3, <1>5 DEF Grows
  <2> QED
    BY <1>2, <1>5, <2>1 DEF EndedBy, ConfigKey, Errors, Failure
<1>6. CASE /\ entries[ConfigKey(ConfigOf(p))] \in Loaded
           /\ config[p] = entries[ConfigKey(ConfigOf(p))]
           /\ entries[ResultKey(config[p])] # None
           /\ verdict[p] = IF entries[ResultKey(config[p])] \in Errors THEN entries[ResultKey(config[p])]
                           ELSE Report(Reportable(p, entries[ResultKey(config[p])]))
  <2>1. entries'[ConfigKey(ConfigOf(p))] = entries[ConfigKey(ConfigOf(p))]
    BY <1>1, <1>3, <1>6 DEF Grows
  <2>2. entries'[ResultKey(config[p])] = entries[ResultKey(config[p])]
    BY <1>6, KeyFacts DEF Grows
  <2> QED
    BY <1>2, <1>6, <2>1, <2>2 DEF EndedBy
<1> QED
  BY <1>4, <1>5, <1>6 DEF EndedBy

\* So does a pass that a step leaves alone, ...
LEMMA PassStays ==
  ASSUME IInv, Grows, UNCHANGED setup, NEW p \in Running,
         stage'[p] = stage[p], config'[p] = config[p], seen'[p] = seen[p], verdict'[p] = verdict[p]
  PROVE  Along(p)'
<1>1. ConfigOf(p)' = ConfigOf(p) /\ ConfigKey(ConfigOf(p)) \in Keys
  BY RunningFacts, KeyFacts DEF IInv, ConfigOf
<1>2. Along(p)
  BY DEF IInv
<1>3. Configures(p)'
  <2>1. None \notin Loaded
    BY NoneAssumption DEF Values
  <2>2. config[p] \in Loaded /\ config[p] = entries[ConfigKey(ConfigOf(p))] =>
          config[p] = entries'[ConfigKey(ConfigOf(p))]
    BY <1>1, <2>1 DEF Grows
  <2> QED
    BY <1>1, <1>2, <2>2 DEF Along, Configures, ConfigKey
<1>4. Walks(p)'
  BY <1>2 DEF Along, Walks
<1>5. stage[p] = "ended" => EndedBy(p)'
  BY <1>2, EndStays DEF Along
<1> QED
  BY <1>3, <1>4, <1>5 DEF Along

\* ... so that a step has to be looked at for its own pass, ...
LEMMA PassesStay ==
  ASSUME IInv, Grows, UNCHANGED setup, NEW p \in Running, Along(p)',
         \A q \in Running \ {p} : /\ stage'[q] = stage[q] /\ config'[q] = config[q]
                                  /\ seen'[q] = seen[q] /\ verdict'[q] = verdict[q]
  PROVE  (\A q \in Running : Along(q))'
<1>1. Running' = Running
  BY DEF Running
<1>2. \A q \in Running : Along(q)'
  BY PassStays
<1> QED
  BY <1>1, <1>2

\* ... and a step of the caches only for what it does to the frames.
LEMMA CacheOnly ==
  ASSUME IInv, CacheProofs!IInv', Grows, UNCHANGED <<passVars, worldVars>>
  PROVE  setup' \in Setups /\ TypeOK' /\ (\A p \in Running : Along(p))'
<1>1. Running' = Running /\ \A p \in Running : ConfigOf(p)' = ConfigOf(p)
  BY DEF worldVars, Running, ConfigOf
<1>2. setup' \in Setups /\ TypeOK'
  BY <1>1, SameTypes DEF IInv, TypeOK, passVars, worldVars, CacheProofs!IInv, NamedLists
<1>3. \A p \in Running : Along(p)'
  BY PassStays DEF passVars, worldVars
<1> QED
  BY <1>1, <1>2, <1>3

\* What fits the entries fits them when they grow.
LEMMA FitsGrows ==
  ASSUME PassAssumption, Grows, NEW k, NEW o, Fits(entries, k, o)
  PROVE  Fits(entries', k, o)
<1>1. \A c \in Configs : entries[ListKey(ListOf[c])] # None =>
        entries'[ListKey(ListOf[c])] = entries[ListKey(ListOf[c])]
  BY KeyFacts, PassAssumption DEF Grows
<1>2. \A c \in Configs : entries[ListKey(ListOf[c])] # None =>
        Configured(entries', c) = Configured(entries, c)
  BY <1>1 DEF Configured
<1> QED
  BY <1>1, <1>2 DEF Fits

\* What is stored, and what is about to be, stays fit.
LEMMA StoredStays ==
  ASSUME Stored, Grows,
         \A k \in Keys : entries'[k] = entries[k] \/ Fits(entries, k, entries'[k]),
         \A f \in Frames : pc'[f] = "store" =>
           \/ pc[f] = "store" /\ want'[f] = want[f] /\ got'[f] = got[f]
           \/ Fits(entries, want'[f], got'[f])
  PROVE  Stored'
<1>1. \A k \in Keys : entries'[k] # None => Fits(entries', k, entries'[k])
  BY FitsGrows, PassAssumption DEF Stored
<1>2. \A f \in Frames : pc'[f] = "store" => Fits(entries', want'[f], got'[f])
  BY FitsGrows, PassAssumption DEF Stored
<1> QED
  BY <1>1, <1>2 DEF Stored

\* A frame that asks for a key keeps asking while its pass is where it was.
LEMMA AsksStays ==
  ASSUME IInv, UNCHANGED <<stage, config, setup>>,
         \A f \in Frames : pc'[f] # "idle" =>
           \/ pc[f] # "idle" /\ want'[f] = want[f]
           \/ f[1] \in Running /\ f[2] = "allowlist" /\ want'[f] = KeyOf(f)
  PROVE  Asks'
<1>1. Running' = Running /\ \A f : ConfigOf(f[1])' = ConfigOf(f[1])
  BY DEF Running, ConfigOf
<1>2. \A f \in Frames : KeyOf(f)' = KeyOf(f)
  BY <1>1 DEF KeyOf, ListKey, ConfigKey, ResultKey
<1> QED
  BY <1>1, <1>2 DEF IInv, Asks

\* A pass that moves on leaves only its allowlist frame in a cache, and the
\* frame it moved on for.
LEMMA AsksMoves ==
  ASSUME IInv, UNCHANGED setup, NEW p \in Running, NEW s, stage' = [stage EXCEPT ![p] = s],
         \A q \in Running \ {p} : config'[q] = config[q],
         \A g \in Frames : pc'[g] # "idle" =>
           \/ pc[g] # "idle" /\ want'[g] = want[g] /\ (g[1] = p => g[2] = "allowlist")
           \/ g[1] = p /\ g[2] = s /\ want'[g] = KeyOf(g) /\ config'[p] = config[p]
  PROVE  Asks'
<1>1. Running' = Running /\ \A q : ConfigOf(q)' = ConfigOf(q)
  BY DEF Running, ConfigOf
<1>2. ASSUME NEW g \in Frames, pc'[g] # "idle"
      PROVE  (/\ g[1] \in Running /\ want[g] = KeyOf(g)
              /\ g[2] # "allowlist" => stage[g[1]] = g[2])'
  <2>1. CASE pc[g] # "idle" /\ want'[g] = want[g] /\ (g[1] = p => g[2] = "allowlist")
    <3>1. /\ g[1] \in Running /\ want'[g] = KeyOf(g)
          /\ g[2] # "allowlist" => stage[g[1]] = g[2]
      BY <2>1 DEF IInv, Asks
    <3>2. KeyOf(g)' = KeyOf(g)
      BY <1>1, <2>1, <3>1 DEF KeyOf, ListKey, ConfigKey, ResultKey
    <3> QED
      BY <1>1, <2>1, <3>1, <3>2, Types
  <2>2. CASE g[1] = p /\ g[2] = s /\ want'[g] = KeyOf(g) /\ config'[p] = config[p]
    <3>1. KeyOf(g)' = KeyOf(g)
      BY <1>1, <2>2 DEF KeyOf, ListKey, ConfigKey, ResultKey
    <3> QED
      BY <1>1, <2>2, <3>1, Types
  <2> QED
    BY <1>2, <2>1, <2>2
<1> QED
  BY <1>2 DEF Asks

-----------------------------------------------------------------------------
(* Every step of a pass keeps the invariant, and is a step of the caches or *)
(* none of theirs.                                                          *)

CacheNext == CacheProofs!Next \/ UNCHANGED cacheVars

\* The first load of run keeps the invariant.
LEMMA LoadConfigStep ==
  ASSUME IInv, NEW p \in Running, LoadConfig(p)
  PROVE  IInv' /\ CacheNext
<1> DEFINE f == <<p, "config">>
<1>1. /\ f \in Frames /\ f[1] = p /\ f[2] = "config"
      /\ KeyOf(f) = ConfigKey(ConfigOf(p))
      /\ ConfigKey(ConfigOf(p)) \in Keys
  BY PassFacts
<1> HIDE DEF f
<1>2. /\ CacheProofs!IInv' /\ CacheProofs!Next /\ pc[f] = "idle" /\ want'[f] = KeyOf(f)
      /\ \A g \in Frames : g # f => pc'[g] = pc[g] /\ want'[g] = want[g]
      /\ UNCHANGED <<entries, got>> /\ pc'[f] = "lookup"
  BY <1>1, LoadEffect DEF IInv, LoadConfig, f
<1>3. /\ stage[p] = "start" /\ stage' = [stage EXCEPT ![p] = "config"]
      /\ UNCHANGED <<config, seen, verdict, setup, allowlist, tree, edits>>
  BY DEF LoadConfig, Enter, worldVars
<1>4. Running' = Running /\ (\A q : ConfigOf(q)' = ConfigOf(q)) /\ Grows
  BY <1>2, <1>3 DEF Running, ConfigOf, Grows
<1>5. setup' \in Setups /\ TypeOK'
  BY <1>2, <1>3, <1>4, SameTypes DEF IInv, TypeOK, CacheProofs!IInv, NamedLists
<1>6. Asks'
  <2>1. \A g \in Frames : pc[g] # "idle" => (g[1] = p => g[2] = "allowlist")
    BY <1>3, FrameFacts DEF IInv, Asks
  <2>2. \A g \in Frames : pc'[g] # "idle" =>
          \/ pc[g] # "idle" /\ want'[g] = want[g] /\ (g[1] = p => g[2] = "allowlist")
          \/ g[1] = p /\ g[2] = "config" /\ want'[g] = KeyOf(g) /\ config'[p] = config[p]
    BY <1>1, <1>2, <1>3, <2>1
  <2> QED
    BY <1>3, <2>2, AsksMoves
<1>7. PanicsWalking'
  BY <1>2 DEF IInv, PanicsWalking
<1>8. Stored'
  BY <1>2, <1>4, StoredStays DEF IInv
<1>9. (\A q \in Running : Along(q))'
  <2>1. Along(p)'
    <3>1. Along(p) /\ stage'[p] = "config"
      BY <1>3, Types DEF IInv
    <3> QED
      BY <1>3, <3>1 DEF Along, Configures, Walks
  <2> QED
    BY <1>3, <1>4, <2>1, PassesStay, Types
<1> QED
  BY <1>2, <1>5, <1>6, <1>7, <1>8, <1>9 DEF IInv, CacheNext

\* So does its return, with the configuration in the cache or its error.
LEMMA GetConfigStep ==
  ASSUME IInv, NEW p \in Running, GetConfig(p)
  PROVE  IInv' /\ CacheNext
<1> DEFINE f == <<p, "config">>
           loaded == got[f]
<1>1. /\ f \in Frames /\ f[1] = p /\ f[2] = "config"
      /\ KeyOf(f) = ConfigKey(ConfigOf(p))
      /\ ConfigKey(ConfigOf(p)) \in Keys /\ ConfigOf(p) \in Configs
  BY PassFacts
<1> HIDE DEF f
<1>2. /\ CacheProofs!IInv' /\ CacheProofs!Next /\ pc[f] = "done" /\ pc'[f] = "idle"
      /\ got'[f] = None
      /\ loaded = Panic \/ (loaded \in Values \cup Errors /\ loaded = entries[want[f]])
      /\ \A g \in Frames : g # f => pc'[g] = pc[g] /\ got'[g] = got[g] /\ want'[g] = want[g]
      /\ UNCHANGED entries
  BY <1>1, ReturnEffect DEF IInv, GetConfig, f
<1>3. loaded \in Values \cup Errors /\ loaded = entries[ConfigKey(ConfigOf(p))]
  BY <1>1, <1>2 DEF IInv, PanicsWalking, Asks
<1>4. loaded \in Errors \/ loaded \in Loaded
  <2>1. /\ entries[ListKey(ListOf[ConfigOf(p)])] # None
        /\ loaded = Configured(entries, ConfigOf(p))
    BY <1>1, <1>3, NoneAssumption DEF IInv, Stored, Fits
  <2>2. /\ ListOf[ConfigOf(p)] \in Lists /\ ListKey(ListOf[ConfigOf(p)]) \in Keys
        /\ RootsOf[ConfigOf(p)] \in Roots
    BY PassFacts
  <2>3. entries[ListKey(ListOf[ConfigOf(p)])] \in Errors \cup [allowlist : Contents]
    BY <2>1, <2>2 DEF IInv, Stored, Fits, Errors
  <2> QED
    BY <2>1, <2>2, <2>3 DEF Configured, Loaded
<1>5. /\ stage[p] = "config" /\ UNCHANGED <<seen, setup, allowlist, tree, edits>>
      /\ IF loaded \in Errors
         THEN /\ stage' = [stage EXCEPT ![p] = "ended"] /\ verdict' = [verdict EXCEPT ![p] = loaded]
              /\ UNCHANGED config
         ELSE /\ stage' = [stage EXCEPT ![p] = "files"] /\ config' = [config EXCEPT ![p] = loaded]
              /\ UNCHANGED verdict
  BY DEF GetConfig, End, Enter, worldVars, f
<1> HIDE DEF loaded
<1>6. Running' = Running /\ (\A q : ConfigOf(q)' = ConfigOf(q)) /\ Grows
  BY <1>2, <1>5 DEF Running, ConfigOf, Grows
<1>7. setup' \in Setups /\ TypeOK'
  <2>1. setup' \in Setups /\ Cache!TypeOK'
    BY <1>2, <1>5, SameTypes DEF IInv, CacheProofs!IInv
  <2>2. /\ stage' \in [Running -> {"start", "config", "files", "result", "ended"}]
        /\ config' \in [Running -> Loaded \cup {None}]
        /\ verdict' \in [Running -> Endings \cup {None}]
    BY <1>4, <1>5, Types DEF Endings
  <2>3. NamedLists' = NamedLists
    BY <1>6 DEF NamedLists
  <2> QED
    BY <1>5, <1>6, <2>1, <2>2, <2>3 DEF IInv, TypeOK
<1>8. Asks'
  <2>1. \A g \in Frames : pc'[g] # "idle" =>
          pc[g] # "idle" /\ want'[g] = want[g] /\ (g[1] = p => g[2] = "allowlist")
    <3>1. \A g \in Frames : g[1] = p /\ g[2] = "config" => g = f
      BY FrameFacts DEF f
    <3> QED
      BY <1>2, <1>5, <3>1, FrameFacts DEF IInv, Asks
  <2> QED
    BY <1>5, <2>1, AsksMoves, Types
<1>9. PanicsWalking'
  BY <1>1, <1>2, NoneAssumption DEF IInv, PanicsWalking
<1>10. Stored'
  BY <1>1, <1>2, <1>6, StoredStays DEF IInv
<1>11. (\A q \in Running : Along(q))'
  <2>1. Along(p)'
    <3>1. Along(p) /\ config[p] = None /\ DOMAIN seen[p] = {}
      BY <1>5, NoneAssumption DEF IInv, Along, Configures, Walks, Values
    <3>2. CASE loaded \in Errors
      BY <1>2, <1>3, <1>5, <1>6, <3>1, <3>2, Types
         DEF Along, Configures, Walks, EndedBy, ConfigKey
    <3>3. CASE loaded \notin Errors
      BY <1>2, <1>3, <1>4, <1>5, <1>6, <3>1, <3>3, Types
         DEF Along, Configures, Walks, ConfigKey
    <3> QED
      BY <3>2, <3>3
  <2> QED
    BY <1>5, <1>6, <2>1, PassesStay, Types
<1> QED
  BY <1>2, <1>7, <1>8, <1>9, <1>10, <1>11 DEF IInv, CacheNext

\* A pass that refuses its own files touches no cache.
LEMMA RejectFilesStep ==
  ASSUME IInv, NEW p \in Running, RejectFiles(p)
  PROVE  IInv' /\ CacheNext
<1>1. /\ stage[p] = "files" /\ stage' = [stage EXCEPT ![p] = "ended"]
      /\ verdict' = [verdict EXCEPT ![p] = Failure("escaping")]
      /\ UNCHANGED <<entries, inflight, pc, want, got, collects, panics>>
      /\ UNCHANGED <<config, seen, setup, allowlist, tree, edits>>
  BY DEF RejectFiles, End, Enter, worldVars, cacheVars
<1>2. CacheProofs!IInv' /\ CacheNext
  BY <1>1, CacheAssumptions, CacheProofs!NextStep
     DEF IInv, CacheNext, cacheVars, CacheProofs!vars
<1>3. Running' = Running /\ (\A q : ConfigOf(q)' = ConfigOf(q)) /\ Grows
  BY <1>1 DEF Running, ConfigOf, Grows
<1>4. setup' \in Setups /\ TypeOK'
  BY <1>1, <1>2, <1>3, SameTypes DEF IInv, TypeOK, CacheProofs!IInv, NamedLists, Endings
<1>5. Asks'
  <2>1. \A g \in Frames : pc[g] # "idle" => (g[1] = p => g[2] = "allowlist")
    BY <1>1, FrameFacts DEF IInv, Asks
  <2> QED
    BY <1>1, <2>1, AsksMoves
<1>6. PanicsWalking' /\ Stored'
  BY <1>1, <1>3, StoredStays DEF IInv, PanicsWalking
<1>7. (\A q \in Running : Along(q))'
  <2>1. Along(p)'
    <3>1. Along(p) /\ stage'[p] = "ended" /\ verdict'[p] = Failure("escaping")
      BY <1>1, Types DEF IInv
    <3> QED
      BY <1>1, <3>1 DEF Along, Configures, Walks, EndedBy, Failure
  <2> QED
    BY <1>1, <1>3, <2>1, PassesStay, Types
<1> QED
  BY <1>2, <1>4, <1>5, <1>6, <1>7 DEF IInv

\* The load of the result asks for the key of the configuration in hand.
LEMMA LoadResultStep ==
  ASSUME IInv, NEW p \in Running, LoadResult(p)
  PROVE  IInv' /\ CacheNext
<1> DEFINE f == <<p, "result">>
<1>1. /\ stage[p] = "files" /\ stage' = [stage EXCEPT ![p] = "result"]
      /\ UNCHANGED <<config, seen, verdict, setup, allowlist, tree, edits>>
  BY DEF LoadResult, Enter, worldVars
<1>2. /\ f \in Frames /\ f[1] = p /\ f[2] = "result" /\ KeyOf(f) = ResultKey(config[p])
      /\ ResultKey(config[p]) \in Keys /\ config[p] \in Loaded
  BY <1>1, PassFacts, KeyFacts DEF IInv, Along, Configures
<1> HIDE DEF f
<1>3. /\ CacheProofs!IInv' /\ CacheProofs!Next /\ pc[f] = "idle" /\ want'[f] = KeyOf(f)
      /\ \A g \in Frames : g # f => pc'[g] = pc[g] /\ want'[g] = want[g]
      /\ UNCHANGED <<entries, got>> /\ pc'[f] = "lookup"
  BY <1>2, LoadEffect DEF IInv, LoadResult, f
<1>4. Running' = Running /\ (\A q : ConfigOf(q)' = ConfigOf(q)) /\ Grows
  BY <1>1, <1>3 DEF Running, ConfigOf, Grows
<1>5. setup' \in Setups /\ TypeOK'
  BY <1>1, <1>3, <1>4, SameTypes DEF IInv, TypeOK, CacheProofs!IInv, NamedLists
<1>6. Asks'
  <2>1. \A g \in Frames : pc[g] # "idle" => (g[1] = p => g[2] = "allowlist")
    BY <1>1, FrameFacts DEF IInv, Asks
  <2>2. \A g \in Frames : pc'[g] # "idle" =>
          \/ pc[g] # "idle" /\ want'[g] = want[g] /\ (g[1] = p => g[2] = "allowlist")
          \/ g[1] = p /\ g[2] = "result" /\ want'[g] = KeyOf(g) /\ config'[p] = config[p]
    BY <1>1, <1>2, <1>3, <2>1
  <2> QED
    BY <1>1, <2>2, AsksMoves
<1>7. PanicsWalking' /\ Stored'
  BY <1>3, <1>4, StoredStays DEF IInv, PanicsWalking
<1>8. (\A q \in Running : Along(q))'
  <2>1. Along(p)'
    <3>1. Along(p) /\ stage'[p] = "result"
      BY <1>1, Types DEF IInv
    <3> QED
      BY <1>1, <1>3, <1>4, <3>1 DEF Along, Configures, Walks, ConfigKey
  <2> QED
    BY <1>1, <1>4, <2>1, PassesStay, Types
<1> QED
  BY <1>3, <1>5, <1>6, <1>7, <1>8 DEF IInv, CacheNext

\* Its return ends the pass with what the cache holds for that key, or with
\* the panic.
LEMMA GetResultStep ==
  ASSUME IInv, NEW p \in Running, GetResult(p)
  PROVE  IInv' /\ CacheNext
<1> DEFINE f == <<p, "result">>
           result == got[f]
           ending == CASE result = Panic -> Failure("panic")
                       [] result \in Errors -> result
                       [] OTHER -> Report(Reportable(p, result))
<1>1. /\ stage[p] = "result" /\ stage' = [stage EXCEPT ![p] = "ended"]
      /\ verdict' = [verdict EXCEPT ![p] = ending]
      /\ UNCHANGED <<config, seen, setup, allowlist, tree, edits>>
  BY DEF GetResult, End, Enter, worldVars
<1>2. /\ f \in Frames /\ f[1] = p /\ f[2] = "result" /\ KeyOf(f) = ResultKey(config[p])
      /\ ResultKey(config[p]) \in Keys /\ config[p] \in Loaded
      /\ config[p] = entries[ConfigKey(ConfigOf(p))]
  BY <1>1, PassFacts, KeyFacts DEF IInv, Along, Configures
<1> HIDE DEF f
<1>3. /\ CacheProofs!IInv' /\ CacheProofs!Next /\ pc[f] = "done" /\ pc'[f] = "idle"
      /\ got'[f] = None
      /\ result = Panic \/ (result \in Values \cup Errors /\ result = entries[want[f]])
      /\ \A g \in Frames : g # f => pc'[g] = pc[g] /\ got'[g] = got[g] /\ want'[g] = want[g]
      /\ UNCHANGED entries
  BY <1>2, ReturnEffect DEF IInv, GetResult, f
<1>4. result = Panic \/ (result \in Values \cup Errors /\ result = entries[ResultKey(config[p])])
  BY <1>2, <1>3 DEF IInv, Asks
<1>5. result # Panic /\ result \notin Errors => result \in Results
  BY <1>2, <1>4, NoneAssumption DEF IInv, Stored, Fits
<1>6. \/ ending = Failure("panic")
      \/ /\ result # Panic /\ result = entries[ResultKey(config[p])] /\ result # None
         /\ ending = IF result \in Errors THEN result ELSE Report(Reportable(p, result))
  BY <1>4, NoneAssumption
<1>7. ending \in Endings
  <2>1. result \in Results => Reportable(p, result) \subseteq Identities
    BY DEF Reportable, Results
  <2> QED
    BY <1>5, <1>6, <2>1 DEF Endings, Report
<1> HIDE DEF result, ending
<1>8. Running' = Running /\ (\A q : ConfigOf(q)' = ConfigOf(q)) /\ Grows
  BY <1>1, <1>3 DEF Running, ConfigOf, Grows
<1>9. setup' \in Setups /\ TypeOK'
  BY <1>1, <1>3, <1>7, <1>8, SameTypes DEF IInv, TypeOK, CacheProofs!IInv, NamedLists
<1>10. Asks'
  <2>1. \A g \in Frames : pc'[g] # "idle" =>
          pc[g] # "idle" /\ want'[g] = want[g] /\ (g[1] = p => g[2] = "allowlist")
    <3>1. \A g \in Frames : g[1] = p /\ g[2] = "result" => g = f
      BY FrameFacts DEF f
    <3> QED
      BY <1>1, <1>3, <3>1, FrameFacts DEF IInv, Asks
  <2> QED
    BY <1>1, <2>1, AsksMoves
<1>11. PanicsWalking'
  BY <1>2, <1>3 DEF IInv, PanicsWalking
<1>12. Stored'
  BY <1>2, <1>3, <1>8, StoredStays DEF IInv
<1>13. (\A q \in Running : Along(q))'
  <2>1. Along(p)'
    <3>1. Along(p) /\ stage'[p] = "ended" /\ verdict'[p] = ending /\ config'[p] = config[p] /\ seen' = seen
      BY <1>1, Types DEF IInv
    <3>2. EndedBy(p)'
      <4>1. \A o : Reportable(p, o)' = Reportable(p, o)
        BY <1>1 DEF Reportable, FilesOf
      <4> QED
        BY <1>2, <1>3, <1>6, <1>8, <3>1, <4>1 DEF EndedBy
    <3> QED
      BY <3>1, <3>2 DEF Along, Configures, Walks
  <2> QED
    BY <1>1, <1>8, <2>1, PassesStay, Types
<1> QED
  BY <1>3, <1>9, <1>10, <1>11, <1>12, <1>13 DEF IInv, CacheNext

\* The load inside the collection of a configuration keeps the invariant.
LEMMA LoadAllowlistStep ==
  ASSUME IInv, NEW p \in Running, LoadAllowlist(p)
  PROVE  IInv' /\ CacheNext
<1> DEFINE f == <<p, "allowlist">>
<1>1. /\ f \in Frames /\ f[1] = p /\ f[2] = "allowlist"
      /\ KeyOf(f) = ListKey(ListOf[ConfigOf(p)])
      /\ ListKey(ListOf[ConfigOf(p)]) \in Keys
  BY PassFacts
<1> HIDE DEF f
<1>2. /\ CacheProofs!IInv' /\ CacheProofs!Next /\ pc[f] = "idle" /\ want'[f] = KeyOf(f)
      /\ \A g \in Frames : g # f => pc'[g] = pc[g] /\ want'[g] = want[g]
      /\ UNCHANGED <<entries, got>> /\ pc'[f] = "lookup"
  BY <1>1, LoadEffect DEF IInv, LoadAllowlist, f
<1>3. UNCHANGED <<passVars, worldVars>> /\ Grows
  BY <1>2 DEF LoadAllowlist, Grows
<1>4. Asks'
  BY <1>1, <1>2, <1>3, AsksStays DEF passVars, worldVars
<1>5. PanicsWalking' /\ Stored'
  BY <1>2, <1>3, StoredStays DEF IInv, PanicsWalking
<1> QED
  BY <1>2, <1>3, <1>4, <1>5, CacheOnly DEF IInv, CacheNext

\* So does popping its frame.
LEMMA DropAllowlistStep ==
  ASSUME IInv, NEW p \in Running, DropAllowlist(p)
  PROVE  IInv' /\ CacheNext
<1> DEFINE f == <<p, "allowlist">>
<1>1. f \in Frames
  BY PassFacts
<1> HIDE DEF f
<1>2. /\ CacheProofs!IInv' /\ CacheProofs!Next /\ pc'[f] = "idle" /\ got'[f] = None
      /\ \A g \in Frames : g # f => pc'[g] = pc[g] /\ got'[g] = got[g] /\ want'[g] = want[g]
      /\ UNCHANGED entries
  BY <1>1, ReturnEffect DEF IInv, DropAllowlist, f
<1>3. UNCHANGED <<passVars, worldVars>> /\ Grows
  BY <1>2 DEF DropAllowlist, Grows
<1>4. Asks'
  BY <1>2, <1>3, AsksStays DEF passVars, worldVars
<1>5. PanicsWalking' /\ Stored'
  BY <1>2, <1>3, NoneAssumption, StoredStays DEF IInv, PanicsWalking
<1> QED
  BY <1>2, <1>3, <1>4, <1>5, CacheOnly DEF IInv, CacheNext

\* A collection that ends with an outcome that fits its key keeps the invariant.
LEMMA CollectFits ==
  ASSUME IInv, NEW f \in Frames, NEW o \in Values \cup Errors,
         pc[f] = "collect" => Fits(entries, want[f], o),
         Cache!Collect(f, o), UNCHANGED <<passVars, worldVars>>
  PROVE  IInv' /\ CacheNext
<1>1. /\ CacheProofs!IInv' /\ CacheProofs!Next
      /\ pc[f] = "collect" /\ pc'[f] = "store" /\ got'[f] = o
      /\ \A g \in Frames : g # f => pc'[g] = pc[g] /\ got'[g] = got[g]
      /\ UNCHANGED <<entries, want>>
  BY CollectEffect DEF IInv
<1>2. Grows
  BY <1>1 DEF Grows
<1>3. Asks'
  BY <1>1, AsksStays DEF passVars, worldVars
<1>4. PanicsWalking'
  BY <1>1, NoneAssumption DEF IInv, PanicsWalking
<1>5. Stored'
  BY <1>1, <1>2, StoredStays DEF IInv
<1> QED
  BY <1>1, <1>2, <1>3, <1>4, <1>5, CacheOnly DEF IInv, CacheNext

\* What is read from the allowlist file fits the key of the file.
LEMMA ReadAllowlistStep ==
  ASSUME IInv, NEW p \in Running, ReadAllowlist(p)
  PROVE  IInv' /\ CacheNext
<1> DEFINE f == <<p, "allowlist">>
           data == allowlist[ListOf[ConfigOf(p)]]
           o == IF data = Malformed THEN Failure("malformed") ELSE [allowlist |-> data]
<1>1. /\ f \in Frames /\ KeyOf(f) = ListKey(ListOf[ConfigOf(p)])
      /\ ListOf[ConfigOf(p)] \in NamedLists
  BY PassFacts
<1>2. o \in {Failure("malformed")} \cup [allowlist : Contents]
  BY <1>1 DEF IInv, TypeOK
<1>3. o \in Values \cup Errors
  BY <1>2 DEF Values, Errors
<1>4. pc[f] = "collect" => Fits(entries, want[f], o)
  BY <1>1, <1>2 DEF IInv, Asks, Fits, ListKey, ConfigKey, ResultKey
<1>5. Cache!Collect(f, o) /\ UNCHANGED <<passVars, worldVars>>
  BY DEF ReadAllowlist
<1> HIDE DEF f, o
<1> QED
  BY <1>1, <1>3, <1>4, <1>5, CollectFits

\* The configuration a pass builds is a function of what the cache holds for
\* its allowlist.
LEMMA BuildConfigOutcome ==
  ASSUME IInv, NEW p \in Running, BuildConfig(p)
  PROVE  LET loaded == got[<<p, "allowlist">>]
             c == ConfigOf(p)
             o == IF loaded \in Errors THEN loaded
                  ELSE [roots |-> RootsOf[c], allowlist |-> loaded.allowlist]
         IN  /\ o \in Values \cup Errors
             /\ entries[ListKey(ListOf[c])] # None /\ o = Configured(entries, c)
<1> DEFINE g == <<p, "allowlist">>
           c == ConfigOf(p)
<1>1. /\ g \in Frames /\ c \in Configs /\ RootsOf[c] \in Roots
      /\ ListOf[c] \in Lists /\ ListKey(ListOf[c]) \in Keys /\ g[2] = "allowlist"
      /\ KeyOf(g) = ListKey(ListOf[c])
  BY PassFacts
<1>2. pc[g] = "done"
  BY DEF BuildConfig, Cache!At
<1> HIDE DEF g, c
<1>3. got[g] \in Values \cup Errors /\ got[g] = entries[ListKey(ListOf[c])]
  <2>1. got[g] # Panic /\ want[g] = ListKey(ListOf[c])
    BY <1>1, <1>2 DEF IInv, PanicsWalking, Asks
  <2>2. got[g] = Panic \/ (got[g] \in CacheProofs!Outcomes /\ got[g] = entries[want[g]])
    BY <1>1, <1>2 DEF IInv, CacheProofs!IInv, CacheProofs!Carries, CacheProofs!At
  <2> QED
    BY <2>1, <2>2 DEF CacheProofs!Outcomes
<1>4. got[g] \in Errors \cup [allowlist : Contents]
  BY <1>1, <1>3, NoneAssumption DEF IInv, Stored, Fits, Errors
<1>5. (IF got[g] \in Errors THEN got[g] ELSE [roots |-> RootsOf[c], allowlist |-> got[g].allowlist])
        \in Values \cup Errors
  BY <1>1, <1>4 DEF Values, Loaded
<1> QED
  BY <1>3, <1>5, NoneAssumption DEF Configured, g, c

\* The configuration built from it fits the key of the configuration.
LEMMA BuildConfigStep ==
  ASSUME IInv, NEW p \in Running, BuildConfig(p)
  PROVE  IInv' /\ CacheNext
<1> DEFINE f == <<p, "config">>
           c == ConfigOf(p)
           loaded == got[<<p, "allowlist">>]
           o == IF loaded \in Errors THEN loaded
                ELSE [roots |-> RootsOf[c], allowlist |-> loaded.allowlist]
<1>1. f \in Frames /\ c \in Configs /\ KeyOf(f) = ConfigKey(c)
  BY PassFacts
<1>2. Cache!Collect(f, o) /\ UNCHANGED <<passVars, worldVars>>
  BY DEF BuildConfig
<1>3. /\ o \in Values \cup Errors
      /\ entries[ListKey(ListOf[c])] # None /\ o = Configured(entries, c)
  BY BuildConfigOutcome
<1> HIDE DEF f, c, o
<1>4. pc[f] = "collect" => Fits(entries, want[f], o)
  <2>1. pc[f] = "collect" => want[f] = ConfigKey(c)
    BY <1>1 DEF IInv, Asks
  <2>2. /\ \A d \in Configs : ConfigKey(d) = ConfigKey(c) => d = c
        /\ \A l \in Lists : ListKey(l) # ConfigKey(c)
        /\ \A d \in Loaded : ResultKey(d) # ConfigKey(c)
    BY <1>1, KeyFacts
  <2> QED
    BY <1>3, <2>1, <2>2 DEF Fits
<1> QED
  BY <1>1, <1>2, <1>3, <1>4, CollectFits

\* The frame that walks the repository for a pass.
LEMMA WalkingFacts ==
  ASSUME IInv, NEW p \in Running, pc[<<p, "result">>] = "collect"
  PROVE  /\ <<p, "result">> \in Frames /\ config[p] \in Loaded
         /\ want[<<p, "result">>] = ResultKey(config[p])
         /\ \A o : Fits(entries, want[<<p, "result">>], o) <=>
                   \/ o \in Errors
                   \/ /\ o \in Results /\ o.allowed = config[p].allowlist
                      /\ {i[1] : i \in o.findings} = Covers[config[p].roots]
<1> DEFINE f == <<p, "result">>
<1>1. f \in Frames /\ f[1] = p /\ f[2] = "result" /\ KeyOf(f) = ResultKey(config[p])
  BY PassFacts
<1>2. want[f] = ResultKey(config[p]) /\ stage[p] = "result"
  BY <1>1 DEF IInv, Asks
<1>3. config[p] \in Loaded
  BY <1>2 DEF IInv, Along, Configures
<1>4. /\ \A l \in Lists : ListKey(l) # ResultKey(config[p])
      /\ \A c \in Configs : ConfigKey(c) # ResultKey(config[p])
      /\ \A c \in Loaded : ResultKey(c) = ResultKey(config[p]) => c = config[p]
  BY <1>3, KeyFacts
<1>5. \A o : Fits(entries, ResultKey(config[p]), o) <=>
             \/ o \in Errors
             \/ /\ o \in Results /\ o.allowed = config[p].allowlist
                /\ {i[1] : i \in o.findings} = Covers[config[p].roots]
  BY <1>3, <1>4 DEF Fits
<1> QED
  BY <1>1, <1>2, <1>3, <1>5

\* The walk ends in an error or reads one more of the files under its roots.
LEMMA WalkFileStep ==
  ASSUME IInv, NEW p \in Running, WalkFile(p)
  PROVE  IInv' /\ CacheNext
<1> DEFINE f == <<p, "result">>
<1>1. PICK n \in ToWalk(p) :
        IF tree[Files[n]] = "broken"
        THEN Cache!Collect(f, Failure("unparsable")) /\ UNCHANGED seen
        ELSE /\ seen' = [seen EXCEPT ![p] = [g \in DOMAIN @ \cup {Files[n]} |->
                                IF g = Files[n] THEN tree[Files[n]] ELSE @[g]]]
             /\ UNCHANGED cacheVars
  BY DEF WalkFile
<1>2. pc[f] = "collect" /\ UNCHANGED <<stage, config, verdict, worldVars>>
  BY DEF WalkFile, Cache!At
<1>3. f \in Frames /\ config[p] \in Loaded /\ Fits(entries, want[f], Failure("unparsable"))
  BY <1>2, WalkingFacts DEF Errors
<1>4. Files[n] \in FileSet /\ Files[n] \in Covers[config[p].roots]
  BY DEF ToWalk, FileSet, ToSet
<1>5. CASE tree[Files[n]] = "broken"
  <2>1. UNCHANGED <<passVars, worldVars>> /\ Failure("unparsable") \in Values \cup Errors
    BY <1>1, <1>2, <1>5 DEF passVars, Errors
  <2> HIDE DEF f
  <2> QED
    BY <1>1, <1>3, <1>5, <2>1, CollectFits
<1>6. CASE tree[Files[n]] # "broken"
  <2> DEFINE read == [g \in DOMAIN seen[p] \cup {Files[n]} |->
                        IF g = Files[n] THEN tree[Files[n]] ELSE seen[p][g]]
  <2>1. /\ seen' = [seen EXCEPT ![p] = read]
        /\ UNCHANGED <<entries, inflight, pc, want, got, collects, panics>>
        /\ UNCHANGED <<stage, config, verdict, setup, allowlist, tree, edits>>
    BY <1>1, <1>2, <1>6 DEF cacheVars, worldVars
  <2>2. CacheProofs!IInv' /\ CacheNext
    BY <2>1, CacheAssumptions, CacheProofs!NextStep
       DEF IInv, CacheNext, cacheVars, CacheProofs!vars
  <2>3. Running' = Running /\ Grows
    BY <2>1 DEF Running, Grows
  <2>4. \E F \in SUBSET FileSet : read \in [F -> Versions \ {"broken"}]
    <3>1. PICK F \in SUBSET FileSet : seen[p] \in [F -> Versions \ {"broken"}]
      BY Types
    <3>2. tree[Files[n]] \in Versions \ {"broken"}
      BY <1>4, <1>6 DEF IInv, TypeOK
    <3>3. F \cup {Files[n]} \in SUBSET FileSet
      BY <1>4
    <3>4. read \in [F \cup {Files[n]} -> Versions \ {"broken"}]
      BY <3>1, <3>2
    <3> QED
      BY <3>3, <3>4
  <2>5. seen'[p] = read /\ DOMAIN read = DOMAIN seen[p] \cup {Files[n]}
    BY <2>1, Types
  <2> HIDE DEF read
  <2>6. setup' \in Setups /\ TypeOK'
    <3>1. seen' \in [Running -> UNION {[F -> Versions \ {"broken"}] : F \in SUBSET FileSet}]
      BY <2>1, <2>4, Types
    <3> QED
      BY <2>1, <2>2, <2>3, <3>1, SameTypes
         DEF IInv, TypeOK, CacheProofs!IInv, NamedLists, ConfigOf
  <2>7. Asks' /\ PanicsWalking' /\ Stored'
    BY <2>1, <2>3, AsksStays, StoredStays DEF IInv, PanicsWalking
  <2>8. (\A q \in Running : Along(q))'
    <3>1. Along(p)'
      <4>1. Along(p) /\ config'[p] = config[p] /\ stage'[p] = stage[p] /\ verdict'[p] = verdict[p]
        BY <2>1 DEF IInv
      <4>2. stage[p] = "result"
        <5>1. f \in Frames /\ f[1] = p /\ f[2] = "result"
          BY PassFacts
        <5> QED
          BY <1>2, <5>1 DEF IInv, Asks
      <4>3. Configures(p)'
        BY <2>1, <4>1 DEF Along, Configures, ConfigOf, ConfigKey
      <4>4. Walks(p)'
        BY <1>3, <1>4, <2>5, <4>1 DEF Along, Walks
      <4> QED
        BY <4>1, <4>2, <4>3, <4>4 DEF Along
    <3>2. \A q \in Running \ {p} : seen'[q] = seen[q]
      BY <2>1, Types
    <3> QED
      BY <2>1, <2>3, <3>1, <3>2, PassesStay
  <2> QED
    BY <2>1, <2>2, <2>6, <2>7, <2>8 DEF IInv
<1> QED
  BY <1>5, <1>6

\* A walk that has nothing left has read the files its roots cover, and found
\* each of its findings in one of them.
LEMMA WalkedFacts ==
  ASSUME IInv, NEW p \in Running, config[p] \in Loaded, ToWalk(p) = {}
  PROVE  /\ DOMAIN seen[p] = Covers[config[p].roots]
         /\ \A f \in DOMAIN seen[p] : seen[p][f] \in Versions \ {"broken"}
         /\ UNION {Finding(f, seen[p][f]) : f \in DOMAIN seen[p]} \subseteq Identities
         /\ {i[1] : i \in UNION {Finding(f, seen[p][f]) : f \in DOMAIN seen[p]}} = Covers[config[p].roots]
<1>1. DOMAIN seen[p] = Covers[config[p].roots]
  <2>1. Covers[config[p].roots] \subseteq DOMAIN seen[p]
    <3>1. config[p].roots \in Roots
      BY DEF Loaded
    <3>2. Covers[config[p].roots] \subseteq FileSet
      BY <3>1, PassAssumption
    <3> SUFFICES ASSUME NEW f \in Covers[config[p].roots] PROVE f \in DOMAIN seen[p]
      OBVIOUS
    <3>3. PICK n \in DOMAIN Files : Files[n] = f
      BY <3>2 DEF FileSet, ToSet
    <3> QED
      BY <3>3 DEF ToWalk
  <2>2. Along(p)
    BY DEF IInv
  <2> QED
    BY <2>1, <2>2 DEF Along, Walks
<1>2. PICK F \in SUBSET FileSet : seen[p] \in [F -> Versions \ {"broken"}]
  BY Types
<1>3. \A f \in DOMAIN seen[p] : /\ f \in FileSet /\ seen[p][f] \in Versions \ {"broken"}
                                /\ Finding(f, seen[p][f]) = {<<f, seen[p][f]>>}
  BY <1>2 DEF Finding
<1>4. UNION {Finding(f, seen[p][f]) : f \in DOMAIN seen[p]} = {<<f, seen[p][f]>> : f \in DOMAIN seen[p]}
  BY <1>3
<1>5. {i[1] : i \in {<<f, seen[p][f]>> : f \in DOMAIN seen[p]}} = DOMAIN seen[p]
  <2>1. \A f : <<f, seen[p][f]>>[1] = f
    OBVIOUS
  <2> QED
    BY <2>1, Zenon
<1>6. UNION {Finding(f, seen[p][f]) : f \in DOMAIN seen[p]} \subseteq Identities
  BY <1>3 DEF Identities
<1> QED
  BY <1>1, <1>3, <1>4, <1>5, <1>6

\* The result of a finished walk fits the key of its configuration.
LEMMA BuildResultStep ==
  ASSUME IInv, NEW p \in Running, BuildResult(p)
  PROVE  IInv' /\ CacheNext
<1> DEFINE f == <<p, "result">>
           findings == UNION {Finding(g, seen[p][g]) : g \in DOMAIN seen[p]}
           o == Resolve(findings, config[p].allowlist)
<1>1. /\ Cache!Collect(f, o) /\ UNCHANGED <<passVars, worldVars>>
      /\ pc[f] = "collect" /\ ToWalk(p) = {}
  BY DEF BuildResult, Cache!At
<1>2. f \in Frames /\ config[p] \in Loaded
  BY <1>1, WalkingFacts
<1>3. findings \in SUBSET Identities /\ {i[1] : i \in findings} = Covers[config[p].roots]
  BY <1>1, <1>2, WalkedFacts
<1> HIDE DEF findings
<1>4. \/ o \in Errors
      \/ /\ o \in Results /\ o.allowed = config[p].allowlist
         /\ {i[1] : i \in o.findings} = Covers[config[p].roots]
  BY <1>2, <1>3 DEF Resolve, Errors, Results, Loaded
<1>5. Fits(entries, want[f], o) /\ o \in Values \cup Errors
  BY <1>1, <1>4, WalkingFacts DEF Values
<1> HIDE DEF f, o
<1> QED
  BY <1>1, <1>2, <1>5, CollectFits

\* A walk that panics leaves the entries alone.
LEMMA WalkPanicsStep ==
  ASSUME IInv, NEW p \in Running, WalkPanics(p)
  PROVE  IInv' /\ CacheNext
<1> DEFINE f == <<p, "result">>
<1>1. f \in Frames /\ f[2] = "result"
  BY PassFacts
<1> HIDE DEF f
<1>2. /\ CacheProofs!IInv' /\ CacheProofs!Next /\ pc[f] = "collect" /\ pc'[f] = "finish"
      /\ \A g \in Frames : g # f => pc'[g] = pc[g] /\ got'[g] = got[g]
      /\ UNCHANGED <<entries, want>>
  BY <1>1, PanicEffect DEF IInv, WalkPanics, f
<1>3. UNCHANGED <<passVars, worldVars>> /\ Grows
  BY <1>2 DEF WalkPanics, Grows
<1>4. Asks'
  BY <1>2, <1>3, AsksStays DEF passVars, worldVars
<1>5. PanicsWalking' /\ Stored'
  BY <1>1, <1>2, <1>3, StoredStays DEF IInv, PanicsWalking
<1> QED
  BY <1>2, <1>3, <1>4, <1>5, CacheOnly DEF IInv, CacheNext

\* A step inside load hands a frame the outcome of its own key, and a panic
\* only to frames that wait for a walk.
LEMMA CacheStepStep ==
  ASSUME IInv, NEW p \in Running, CacheStep(p)
  PROVE  IInv' /\ CacheNext
<1>1. PICK f \in Frames : Cache!Internal(f)
  BY RunningFacts DEF IInv, CacheStep, Frames
<1>2. /\ CacheProofs!IInv' /\ CacheProofs!Next /\ UNCHANGED want
      /\ \A g \in Frames :
           /\ pc'[g] = "idle" <=> pc[g] = "idle"
           /\ pc'[g] = "store" => pc[g] = "store"
           /\ \/ got'[g] = got[g]
              \/ got'[g] \in Values \cup Errors /\ pc'[g] # "store"
              \/ got'[g] = got[f] /\ want[g] = want[f] /\ pc'[g] # "store" /\ want[f] \in Keys
      /\ \/ UNCHANGED entries
         \/ /\ pc[f] = "store" /\ want[f] \in Keys /\ entries[want[f]] = None
            /\ entries' = [entries EXCEPT ![want[f]] = got[f]]
  BY <1>1, InternalEffect DEF IInv
<1>3. UNCHANGED <<passVars, worldVars>> /\ Grows
  BY <1>2, Types DEF CacheStep, Grows
<1>4. Asks'
  BY <1>2, <1>3, AsksStays DEF passVars, worldVars
<1>5. PanicsWalking'
  <2>1. ASSUME NEW g \in Frames, got'[g] = Panic PROVE g[2] = "result"
    <3>1. CASE got[g] = Panic
      BY <3>1 DEF IInv, PanicsWalking
    <3>2. CASE got[f] = Panic /\ want[g] = want[f] /\ want[f] \in Keys
      <4>1. f[2] = "result" /\ want[f] # None /\ want[g] # None
        BY <3>2, NoneAssumption DEF IInv, PanicsWalking
      <4>2. pc[f] # "idle" /\ pc[g] # "idle"
        BY <4>1 DEF IInv, CacheProofs!IInv, CacheProofs!Wants, CacheProofs!At
      <4>3. want[f] = ResultKey(config[f[1]]) /\ config[f[1]] \in Loaded
        BY <4>1, <4>2 DEF IInv, Asks, KeyOf, Along, Configures
      <4>4. want[f].cache = "result"
        BY <4>3, KeyFacts
      <4>5. want[g] = KeyOf(g) /\ g[1] \in Running
        BY <4>2 DEF IInv, Asks
      <4>6. g[2] = "allowlist" => want[g].cache = "allowlist"
        BY <4>5 DEF KeyOf, ListKey
      <4>7. g[2] = "config" => want[g].cache = "config"
        BY <4>5 DEF KeyOf, ConfigKey
      <4> QED
        BY <3>2, <4>4, <4>6, <4>7, FrameFacts
    <3> QED
      BY <1>2, <2>1, <3>1, <3>2, NoneAssumption
  <2> QED
    BY <2>1 DEF PanicsWalking
<1>6. Stored'
  <2>1. \A k \in Keys : entries'[k] = entries[k] \/ Fits(entries, k, entries'[k])
    BY <1>2, Types DEF IInv, Stored
  <2>2. \A g \in Frames : pc'[g] = "store" =>
          pc[g] = "store" /\ want'[g] = want[g] /\ got'[g] = got[g]
    BY <1>2
  <2> QED
    BY <1>3, <2>1, <2>2, StoredStays DEF IInv
<1> QED
  BY <1>2, <1>3, <1>4, <1>5, <1>6, CacheOnly DEF IInv, CacheNext

\* An edit changes no cache and no pass.
LEMMA EditStep ==
  ASSUME IInv, Edit
  PROVE  IInv' /\ CacheNext
<1>1. /\ UNCHANGED <<entries, inflight, pc, want, got, collects, panics>>
      /\ UNCHANGED <<stage, config, seen, verdict, setup>>
      /\ edits < setup.edits /\ edits' = edits + 1
  BY DEF Edit, cacheVars, passVars
<1>2. CacheProofs!IInv' /\ CacheNext
  BY <1>1, CacheAssumptions, CacheProofs!NextStep
     DEF IInv, CacheNext, cacheVars, CacheProofs!vars
<1>3. Running' = Running /\ NamedLists' = NamedLists /\ Grows
  BY <1>1 DEF Running, NamedLists, ConfigOf, Grows
<1>4. allowlist' \in [NamedLists -> Contents \cup {Malformed}] /\ tree' \in [FileSet -> Versions]
  BY DEF Edit, IInv, TypeOK
<1>5. edits' \in 0 .. setup.edits
  <2>1. setup.edits \in Nat
    BY PassAssumption DEF IInv
  <2> QED
    BY <1>1, <2>1 DEF IInv, TypeOK
<1>6. setup' \in Setups /\ TypeOK'
  BY <1>1, <1>2, <1>3, <1>4, <1>5, SameTypes DEF IInv, TypeOK, CacheProofs!IInv
<1>7. Asks' /\ PanicsWalking' /\ Stored'
  BY <1>1, <1>3, AsksStays, StoredStays DEF IInv, PanicsWalking
<1>8. (\A p \in Running : Along(p))'
  BY <1>1, <1>3, PassStays
<1> QED
  BY <1>1, <1>2, <1>6, <1>7, <1>8 DEF IInv

\* Nor does a process that has ended.
LEMMA StutterStep == IInv /\ UNCHANGED vars => IInv' /\ CacheNext
<1> SUFFICES ASSUME IInv, UNCHANGED vars PROVE IInv' /\ CacheNext
  OBVIOUS
<1>1. /\ UNCHANGED <<entries, inflight, pc, want, got, collects, panics>>
      /\ UNCHANGED <<passVars, worldVars>>
  BY DEF vars, cacheVars
<1>2. CacheProofs!IInv' /\ CacheNext /\ Grows
  BY <1>1, CacheAssumptions, CacheProofs!NextStep
     DEF IInv, CacheNext, cacheVars, CacheProofs!vars, Grows
<1>3. Asks' /\ PanicsWalking' /\ Stored'
  BY <1>1, <1>2, AsksStays, StoredStays DEF IInv, PanicsWalking, passVars, worldVars
<1> QED
  BY <1>1, <1>2, <1>3, CacheOnly DEF IInv

\* Every step keeps the invariant.
LEMMA InvariantStep == IInv /\ [Next]_vars => IInv' /\ CacheNext
<1> SUFFICES ASSUME IInv, [Next]_vars PROVE IInv' /\ CacheNext
  OBVIOUS
<1>1. ASSUME NEW p \in Running, Pass(p) PROVE IInv' /\ CacheNext
  BY <1>1, LoadConfigStep, LoadAllowlistStep, ReadAllowlistStep, BuildConfigStep, DropAllowlistStep,
     GetConfigStep, RejectFilesStep, LoadResultStep, WalkFileStep, BuildResultStep, WalkPanicsStep,
     GetResultStep, CacheStepStep DEF Pass
<1> QED
  BY <1>1, EditStep, StutterStep DEF Next, Exit

\* A process starts in it.
LEMMA InvariantInit == Init => IInv
<1> SUFFICES ASSUME Init PROVE IInv
  OBVIOUS
<1>1. CacheProofs!IInv
  BY CacheInit, CacheAssumptions, CacheProofs!InitIInv
<1>2. /\ entries = [k \in Keys |-> None] /\ pc = [c \in Frames |-> "idle"]
      /\ got = [c \in Frames |-> None] /\ setup \in Setups
      /\ stage = [p \in Running |-> "start"] /\ config = [p \in Running |-> None]
      /\ seen = [p \in Running |-> <<>>] /\ verdict = [p \in Running |-> None]
      /\ allowlist \in [NamedLists -> Contents \cup {Malformed}]
      /\ tree \in [FileSet -> Versions] /\ edits = 0
  BY DEF Init, Cache!Init
<1>3. <<>> \in [{} -> Versions \ {"broken"}]
  OBVIOUS
<1>4. TypeOK
  <2>1. setup.edits \in Nat
    BY <1>2, PassAssumption
  <2>2. seen \in [Running -> UNION {[F -> Versions \ {"broken"}] : F \in SUBSET FileSet}]
    BY <1>2, <1>3
  <2> QED
    <3>1. Cache!TypeOK
      BY <1>1, SameTypes DEF CacheProofs!IInv
    <3>2. /\ stage \in [Running -> {"start", "config", "files", "result", "ended"}]
          /\ config \in [Running -> Loaded \cup {None}]
          /\ verdict \in [Running -> Endings \cup {None}]
      BY <1>2
    <3>3. edits \in 0 .. setup.edits
      BY <1>2, <2>1
    <3> QED
      BY <1>2, <2>2, <3>1, <3>2, <3>3 DEF TypeOK
<1>5. Asks /\ PanicsWalking /\ Stored
  BY <1>2, NoneAssumption DEF Asks, PanicsWalking, Stored
<1>6. \A p \in Running : Along(p)
  BY <1>2, <1>3 DEF Along, Configures, Walks
<1> QED
  BY <1>1, <1>2, <1>4, <1>5, <1>6 DEF IInv

-----------------------------------------------------------------------------
(* Theorems.                                                                *)

\* The invariant holds in every state of every process.
THEOREM Invariance == Spec => []IInv
<1>1. Init => IInv
  BY InvariantInit
<1>2. IInv /\ [Next]_vars => IInv'
  BY InvariantStep
<1> QED
  BY <1>1, <1>2, PTL DEF Spec

\* The caches of the nested loads behave as one cache whose callers are the
\* call frames of the passes: whatever a pass does between two loads, and
\* whichever pass it is, load is called and returns as processCache expects.
THEOREM CachesAreProcessCache == Spec => Cache!Spec
<1>1. Init => Cache!Init
  BY DEF Init
<1>2. IInv /\ [Next]_vars => [Cache!Next]_(Cache!vars)
  <2> SUFFICES ASSUME IInv, [Next]_vars, cacheVars' # cacheVars PROVE Cache!Next
    BY DEF Cache!vars, cacheVars
  <2>1. CacheProofs!Next
    BY InvariantStep DEF CacheNext
  <2>2. PICK c \in Frames : \/ \E k \in Keys : CacheProofs!Load(c, k)
                            \/ CacheProofs!Internal(c)
                            \/ CacheProofs!CollectEnds(c)
                            \/ CacheProofs!Return(c)
    BY <2>1 DEF CacheProofs!Next
  <2>3. CacheProofs!CollectEnds(c) => Cache!CollectEnds(c)
    BY SameOperators
       DEF CacheProofs!CollectEnds, Cache!CollectEnds, CacheProofs!Outcomes,
           Cache!Outcomes
  <2> QED
    BY <2>2, <2>3, SameOperators DEF Cache!Next
<1> QED
  BY <1>1, <1>2, Invariance, PTL DEF Spec, Cache!Spec

\* However the passes interleave, each allowlist file is read, each
\* configuration built and each repository walked once in the process, plus
\* once for each walk that panicked.
THEOREM CollectedOnce == Spec => []Cache!CollectOnce
<1>1. IInv => Cache!CollectOnce
  <2> SUFFICES ASSUME IInv PROVE Cache!CollectOnce
    OBVIOUS
  <2>1. panics \in [Keys -> Nat] /\ collects \in [Keys -> Nat] /\ CacheProofs!Counted
    BY DEF IInv, CacheProofs!IInv, CacheProofs!TypeOK
  <2> QED
    BY <2>1 DEF CacheProofs!Counted, Cache!CollectOnce
<1> QED
  BY <1>1, Invariance, PTL

\* The entries two configurations share, by the allowlist they name.
LEMMA ConfiguredFacts ==
  ASSUME IInv, NEW c \in Configs, entries[ConfigKey(c)] # None
  PROVE  LET loaded == entries[ListKey(ListOf[c])]
         IN  \/ loaded \in Errors /\ entries[ConfigKey(c)] = loaded
             \/ /\ loaded \notin Errors /\ entries[ConfigKey(c)] \in Loaded
                /\ entries[ConfigKey(c)] = [roots |-> RootsOf[c], allowlist |-> loaded.allowlist]
<1>1. /\ ListOf[c] \in Lists /\ ListKey(ListOf[c]) \in Keys /\ ConfigKey(c) \in Keys
      /\ RootsOf[c] \in Roots
  BY KeyFacts, PassAssumption
<1>2. Fits(entries, ConfigKey(c), entries[ConfigKey(c)])
  BY <1>1 DEF IInv, Stored
<1>3. entries[ListKey(ListOf[c])] # None /\ entries[ConfigKey(c)] = Configured(entries, c)
  BY <1>2 DEF Fits
<1>4. entries[ListKey(ListOf[c])] \in Errors \cup [allowlist : Contents]
  BY <1>1, <1>3 DEF IInv, Stored, Fits, Errors
<1> QED
  BY <1>1, <1>3, <1>4, OutcomeKinds DEF Configured, Loaded

\* How a pass that the caches decided ended.
LEMMA DecidedFacts ==
  ASSUME IInv, NEW p \in Running, Decided(p)
  PROVE  LET loaded == entries[ConfigKey(ConfigOf(p))]
             result == entries[ResultKey(config[p])]
         IN  \/ loaded \in Errors /\ verdict[p] = loaded /\ ~ Reported(p)
             \/ /\ loaded \in Loaded /\ config[p] = loaded
                /\ result \in Errors /\ verdict[p] = result /\ ~ Reported(p)
             \/ /\ loaded \in Loaded /\ config[p] = loaded
                /\ result \in Results /\ result.allowed = config[p].allowlist
                /\ {i[1] : i \in result.findings} = Covers[config[p].roots]
                /\ verdict[p] = Report(Reportable(p, result)) /\ Reported(p)
<1> DEFINE loaded == entries[ConfigKey(ConfigOf(p))]
           result == entries[ResultKey(config[p])]
<1>1. EndedBy(p)
  BY DEF IInv, Along, Decided
<1>2. verdict[p] \notin {Failure("escaping"), Failure("panic")}
  BY DEF Decided, Reported, Failure, Errors
<1>3. \A o \in Errors : DOMAIN o # {"report"}
  BY OutcomeKinds
<1>4. CASE loaded \in Errors /\ verdict[p] = loaded
  BY <1>3, <1>4 DEF Reported
<1>5. CASE /\ loaded \in Loaded /\ config[p] = loaded /\ result # None
           /\ verdict[p] = IF result \in Errors THEN result ELSE Report(Reportable(p, result))
  <2>1. ResultKey(config[p]) \in Keys
    BY <1>5, KeyFacts
  <2>2. \/ result \in Errors
        \/ /\ result \in Results /\ result.allowed = config[p].allowlist
           /\ {i[1] : i \in result.findings} = Covers[config[p].roots]
    BY <1>5, <2>1 DEF IInv, Stored, Fits
  <2>3. CASE result \in Errors
    BY <1>3, <1>5, <2>3 DEF Reported
  <2>4. CASE result \notin Errors
    BY <1>5, <2>2, <2>4 DEF Reported, Report
  <2> QED
    BY <2>3, <2>4
<1> QED
  BY <1>1, <1>2, <1>4, <1>5 DEF EndedBy

\* For any passes, configurations and edits, OwnResult holds: a pass filters
\* the result of its own roots and its own allowlist, and the variables have
\* their types.
THEOREM ResultsAreOwn == Spec => []OwnResult
<1>1. IInv => OwnResult
  <2> SUFFICES ASSUME IInv PROVE OwnResult
    OBVIOUS
  <2>1. TypeOK
    BY DEF IInv
  <2> QED
    BY <2>1, DecidedFacts DEF OwnResult, Decided
<1> QED
  BY <1>1, Invariance, PTL

\* OneAllowlist holds: configurations that name one allowlist file hold what
\* one reading of it gave.
THEOREM AllowlistsAreOne == Spec => []OneAllowlist
<1>1. IInv => OneAllowlist
  <2> SUFFICES ASSUME IInv PROVE OneAllowlist
    OBVIOUS
  <2>1. ASSUME NEW c \in Configs, NEW d \in Configs, ListOf[c] = ListOf[d],
               entries[ConfigKey(c)] # None, entries[ConfigKey(d)] # None
        PROVE  LET one == entries[ConfigKey(c)]
                   other == entries[ConfigKey(d)]
               IN  \/ one \in Errors /\ one = other
                   \/ one \in Loaded /\ other \in Loaded /\ one.allowlist = other.allowlist
    <3> DEFINE loaded == entries[ListKey(ListOf[c])]
    <3>1. \A e \in {c, d} :
            \/ loaded \in Errors /\ entries[ConfigKey(e)] = loaded
            \/ /\ loaded \notin Errors /\ entries[ConfigKey(e)] \in Loaded
               /\ entries[ConfigKey(e)] = [roots |-> RootsOf[e], allowlist |-> loaded.allowlist]
      BY <2>1, ConfiguredFacts
    <3> HIDE DEF loaded
    <3> QED
      BY <3>1
  <2> QED
    BY <2>1 DEF OneAllowlist
<1> QED
  BY <1>1, Invariance, PTL

\* OneVerdict holds: passes with the same roots and allowlist path end alike,
\* whatever was edited between them, and agree on the files they share.
THEOREM VerdictsAgree == Spec => []OneVerdict
<1>1. ASSUME IInv, NEW p \in Running, NEW q \in Running,
             SameSetup(p, q), Decided(p), Decided(q)
      PROVE  /\ Reported(p) = Reported(q)
             /\ ~ Reported(p) => verdict[p] = verdict[q]
             /\ Reported(p) => InFilesOf(verdict[p].report, q) = InFilesOf(verdict[q].report, p)
  <2> DEFINE loaded(r) == entries[ConfigKey(ConfigOf(r))]
             result(r) == entries[ResultKey(config[r])]
  <2>1. \A r \in {p, q} :
          \/ loaded(r) \in Errors /\ verdict[r] = loaded(r) /\ ~ Reported(r)
          \/ /\ loaded(r) \in Loaded /\ config[r] = loaded(r)
             /\ result(r) \in Errors /\ verdict[r] = result(r) /\ ~ Reported(r)
          \/ /\ loaded(r) \in Loaded /\ config[r] = loaded(r) /\ result(r) \in Results
             /\ verdict[r] = Report(Reportable(r, result(r))) /\ Reported(r)
    BY <1>1, DecidedFacts
  <2>2. loaded(p) = loaded(q)
    <3>1. ConfigOf(p) \in Configs /\ ConfigOf(q) \in Configs
      BY <1>1, PassFacts
    <3>2. loaded(p) # None /\ loaded(q) # None
      BY <2>1, NoneAssumption DEF Values
    <3> QED
      BY <1>1, <3>1, <3>2, ConfiguredFacts DEF SameSetup
  <2>3. config[p] = config[q] => result(p) = result(q)
    OBVIOUS
  <2> HIDE DEF loaded, result
  <2>4. \A o \in Loaded \cup Results : o \notin Errors
    BY OutcomeKinds
  <2>5. Reported(p) = Reported(q) /\ (~ Reported(p) => verdict[p] = verdict[q])
    <3>1. Reported(p) \in BOOLEAN /\ Reported(q) \in BOOLEAN
      BY DEF Reported
    <3> QED
      BY <2>1, <2>2, <2>3, <2>4, <3>1
  <2>6. ASSUME Reported(p)
        PROVE  InFilesOf(verdict[p].report, q) = InFilesOf(verdict[q].report, p)
    <3>1. /\ config[p] = config[q] /\ result(p) = result(q)
          /\ verdict[p] = Report(Reportable(p, result(p)))
          /\ verdict[q] = Report(Reportable(q, result(q)))
      BY <2>1, <2>2, <2>3, <2>5, <2>6
    <3>2. verdict[p].report = Reportable(p, result(p)) /\ verdict[q].report = Reportable(q, result(q))
      BY <3>1 DEF Report
    <3> QED
      BY <3>1, <3>2 DEF InFilesOf, Reportable
  <2> QED
    BY <2>5, <2>6
<1>2. IInv => OneVerdict
  BY <1>1 DEF OneVerdict
<1> QED
  BY <1>2, Invariance, PTL

-----------------------------------------------------------------------------
(* Processes without edits.                                                 *)

\* A step leaves a process unedited if what it stores was about to be stored,
\* what it is about to store is fit, and what it reads is in the files.
LEMMA UneditedStays ==
  ASSUME Unedited, UNCHANGED <<setup, allowlist, tree, edits>>,
         \A k \in Keys : \/ entries'[k] = entries[k]
                         \/ \E f \in Frames : /\ pc[f] = "store" /\ want[f] = k
                                              /\ entries'[k] = got[f],
         \A f \in Frames : pc'[f] = "store" =>
           \/ pc[f] = "store" /\ want'[f] = want[f] /\ got'[f] = got[f]
           \/ edits = 0 => FitsNow(allowlist, tree, want'[f], got'[f]),
         \A p \in Running : \A f \in DOMAIN seen'[p] :
           \/ f \in DOMAIN seen[p] /\ seen'[p][f] = seen[p][f]
           \/ seen'[p][f] = tree[f]
  PROVE  Unedited'
<1> SUFFICES ASSUME edits = 0
             PROVE  /\ \A k \in Keys : entries'[k] # None => FitsNow(allowlist, tree, k, entries'[k])
                    /\ \A f \in Frames : pc'[f] = "store" => FitsNow(allowlist, tree, want'[f], got'[f])
                    /\ \A p \in Running : \A f \in DOMAIN seen'[p] : seen'[p][f] = tree[f]
  BY DEF Unedited, Running
<1> QED
  BY DEF Unedited

\* The steps that read nothing.
LEMMA NothingRead ==
  ASSUME IInv, NEW p \in Running,
         \/ LoadConfig(p) \/ LoadAllowlist(p) \/ LoadResult(p) \/ DropAllowlist(p) \/ GetConfig(p)
         \/ GetResult(p) \/ RejectFiles(p) \/ WalkPanics(p) \/ CacheStep(p)
  PROVE  /\ UNCHANGED <<setup, allowlist, tree, edits, seen>>
         /\ \A k \in Keys : \/ entries'[k] = entries[k]
                            \/ \E f \in Frames : /\ pc[f] = "store" /\ want[f] = k
                                                 /\ entries'[k] = got[f]
         /\ \A f \in Frames : pc'[f] = "store" =>
              pc[f] = "store" /\ want'[f] = want[f] /\ got'[f] = got[f]
<1>1. UNCHANGED <<setup, allowlist, tree, edits, seen>>
  BY DEF LoadConfig, LoadAllowlist, LoadResult, DropAllowlist, GetConfig, GetResult,
         RejectFiles,
     WalkPanics, CacheStep, passVars, worldVars
<1> DEFINE Moves == /\ UNCHANGED entries
                    /\ \A f \in Frames : pc'[f] = "store" =>
                         pc[f] = "store" /\ want'[f] = want[f] /\ got'[f] = got[f]
<1>2. \A kind \in {"allowlist", "config", "result"} : <<p, kind>> \in Frames
  BY PassFacts
<1>3. ASSUME NEW f \in Frames, NEW k \in Keys, Cache!Load(f, k) PROVE Moves
  BY <1>3, LoadEffect DEF IInv
<1>4. ASSUME NEW f \in Frames, Cache!Return(f) PROVE Moves
  BY <1>4, ReturnEffect DEF IInv
<1>5. ASSUME NEW f \in Frames, Cache!CollectPanics(f) PROVE Moves
  BY <1>5, PanicEffect DEF IInv
<1> HIDE DEF Moves
<1>6. CASE LoadConfig(p)
  <2>1. ConfigKey(ConfigOf(p)) \in Keys
    BY PassFacts
  <2> QED
    BY <1>1, <1>2, <1>3, <1>6, <2>1 DEF LoadConfig, Moves
<1>7. CASE LoadAllowlist(p)
  <2>1. ListKey(ListOf[ConfigOf(p)]) \in Keys
    BY PassFacts
  <2> QED
    BY <1>1, <1>2, <1>3, <1>7, <2>1 DEF LoadAllowlist, Moves
<1>8. CASE LoadResult(p)
  <2>1. ResultKey(config[p]) \in Keys
    BY <1>8, KeyFacts DEF IInv, Along, Configures, LoadResult
  <2> QED
    BY <1>1, <1>2, <1>3, <1>8, <2>1 DEF LoadResult, Moves
<1>9. CASE DropAllowlist(p) \/ GetConfig(p) \/ GetResult(p)
  BY <1>1, <1>2, <1>4, <1>9 DEF DropAllowlist, GetConfig, GetResult, Moves
<1>10. CASE RejectFiles(p)
  BY <1>1, <1>10 DEF RejectFiles, cacheVars
<1>11. CASE WalkPanics(p)
  BY <1>1, <1>2, <1>5, <1>11 DEF WalkPanics, Moves
<1>12. CASE CacheStep(p)
  <2>1. PICK f \in Frames : Cache!Internal(f)
    BY <1>12, RunningFacts DEF IInv, CacheStep, Frames
  <2>2. /\ UNCHANGED want
        /\ \A g \in Frames : pc'[g] = "store" => pc[g] = "store" /\ got'[g] = got[g]
        /\ \/ UNCHANGED entries
           \/ pc[f] = "store" /\ entries' = [entries EXCEPT ![want[f]] = got[f]]
    BY <2>1, InternalEffect DEF IInv
  <2>3. \A k \in Keys : \/ entries'[k] = entries[k]
                        \/ pc[f] = "store" /\ want[f] = k /\ entries'[k] = got[f]
    BY <2>2, Types
  <2> QED
    BY <1>1, <2>2, <2>3
<1> QED
  BY <1>6, <1>7, <1>8, <1>9, <1>10, <1>11, <1>12

\* A collection that ends as the files are.
LEMMA CollectNow ==
  ASSUME IInv, Unedited, NEW f \in Frames, NEW o \in Values \cup Errors,
         edits = 0 /\ pc[f] = "collect" => FitsNow(allowlist, tree, want[f], o),
         Cache!Collect(f, o), UNCHANGED <<passVars, worldVars>>
  PROVE  Unedited'
<1>1. /\ pc[f] = "collect" /\ got'[f] = o /\ UNCHANGED <<entries, want>>
      /\ \A g \in Frames : g # f => pc'[g] = pc[g] /\ got'[g] = got[g]
  BY CollectEffect DEF IInv
<1>2. UNCHANGED <<setup, allowlist, tree, edits, seen>>
  BY DEF passVars, worldVars
<1> QED
  BY <1>1, <1>2, UneditedStays

\* The files the passes name are allowlist files.
LEMMA NamedFacts ==
  ASSUME IInv
  PROVE  DOMAIN allowlist = NamedLists /\ NamedLists \subseteq Lists
BY RunningFacts DEF IInv, TypeOK, NamedLists

\* What a walk must have found.
LEMMA NowAtResult ==
  ASSUME IInv, NEW c \in Loaded, NEW o, o = ResultNow(tree, c)
  PROVE  FitsNow(allowlist, tree, ResultKey(c), o)
<1>1. DOMAIN allowlist = NamedLists /\ NamedLists \subseteq Lists
  BY NamedFacts
<1>2. /\ \A l \in Lists : ListKey(l) # ResultKey(c)
      /\ \A d \in Loaded : ResultKey(d) = ResultKey(c) => d = c
  BY KeyFacts
<1> QED
  BY <1>1, <1>2 DEF FitsNow

\* Every step but an edit keeps a process unedited.
LEMMA UneditedStep == IInv /\ Unedited /\ [Next]_vars => Unedited'
<1> SUFFICES ASSUME IInv, Unedited, [Next]_vars PROVE Unedited'
  OBVIOUS
<1>1. ASSUME NEW p \in Running,
             \/ LoadConfig(p) \/ LoadAllowlist(p) \/ LoadResult(p) \/ DropAllowlist(p) \/ GetConfig(p)
             \/ GetResult(p) \/ RejectFiles(p) \/ WalkPanics(p) \/ CacheStep(p)
      PROVE  Unedited'
  BY <1>1, NothingRead, UneditedStays
<1>2. ASSUME NEW p \in Running, ReadAllowlist(p) PROVE Unedited'
  <2> DEFINE f == <<p, "allowlist">>
             l == ListOf[ConfigOf(p)]
             o == IF allowlist[l] = Malformed THEN Failure("malformed") ELSE [allowlist |-> allowlist[l]]
  <2>1. f \in Frames /\ KeyOf(f) = ListKey(l) /\ l \in NamedLists /\ l \in Lists
    BY PassFacts
  <2>2. o \in Values \cup Errors
    BY <2>1 DEF IInv, TypeOK, Values, Errors
  <2>3. pc[f] = "collect" => FitsNow(allowlist, tree, want[f], o)
    <3>1. DOMAIN allowlist = NamedLists /\ NamedLists \subseteq Lists
      BY NamedFacts
    <3>2. \A m \in Lists : ListKey(m) = ListKey(l) => m = l
      BY <2>1, KeyFacts
    <3>3. \A c \in Loaded : ResultKey(c) # ListKey(l)
      BY <2>1, KeyFacts
    <3>4. pc[f] = "collect" => want[f] = ListKey(l)
      BY <2>1 DEF IInv, Asks
    <3> QED
      BY <2>1, <3>1, <3>2, <3>3, <3>4 DEF FitsNow, ListNow
  <2>4. Cache!Collect(f, o) /\ UNCHANGED <<passVars, worldVars>>
    BY <1>2 DEF ReadAllowlist
  <2> HIDE DEF f, o
  <2> QED
    BY <2>1, <2>2, <2>3, <2>4, CollectNow
<1>3. ASSUME NEW p \in Running, BuildConfig(p) PROVE Unedited'
  <2> DEFINE f == <<p, "config">>
             c == ConfigOf(p)
             loaded == got[<<p, "allowlist">>]
             o == IF loaded \in Errors THEN loaded
                  ELSE [roots |-> RootsOf[c], allowlist |-> loaded.allowlist]
  <2>1. Cache!Collect(f, o) /\ UNCHANGED <<passVars, worldVars>>
    BY <1>3 DEF BuildConfig
  <2>2. f \in Frames /\ KeyOf(f) = ConfigKey(c) /\ c \in Configs
    BY PassFacts
  <2>3. pc[f] = "collect" => FitsNow(allowlist, tree, want[f], o)
    <3>1. DOMAIN allowlist = NamedLists /\ NamedLists \subseteq Lists
      BY NamedFacts
    <3>2. /\ \A l \in Lists : ListKey(l) # ConfigKey(c)
          /\ \A d \in Loaded : ResultKey(d) # ConfigKey(c)
      BY <2>2, KeyFacts
    <3>3. pc[f] = "collect" => want[f] = ConfigKey(c)
      BY <2>2 DEF IInv, Asks
    <3> QED
      BY <2>2, <3>1, <3>2, <3>3 DEF FitsNow
  <2>4. o \in Values \cup Errors
    BY <1>3, BuildConfigOutcome
  <2> HIDE DEF o
  <2> QED
    BY <2>1, <2>2, <2>3, <2>4, CollectNow
<1>4. ASSUME NEW p \in Running, WalkFile(p) PROVE Unedited'
  <2> DEFINE f == <<p, "result">>
  <2>1. PICK n \in ToWalk(p) :
          IF tree[Files[n]] = "broken"
          THEN Cache!Collect(f, Failure("unparsable")) /\ UNCHANGED seen
          ELSE /\ seen' = [seen EXCEPT ![p] = [g \in DOMAIN @ \cup {Files[n]} |->
                                  IF g = Files[n] THEN tree[Files[n]] ELSE @[g]]]
               /\ UNCHANGED cacheVars
    BY <1>4 DEF WalkFile
  <2>2. pc[f] = "collect" /\ UNCHANGED <<stage, config, verdict, worldVars>>
    BY <1>4 DEF WalkFile, Cache!At
  <2>3. /\ f \in Frames /\ config[p] \in Loaded /\ want[f] = ResultKey(config[p])
        /\ Files[n] \in Covers[config[p].roots]
    BY <2>2, WalkingFacts DEF ToWalk
  <2>4. CASE tree[Files[n]] = "broken"
    <3>1. FitsNow(allowlist, tree, want[f], Failure("unparsable"))
      <4>1. ResultNow(tree, config[p]) = Failure("unparsable")
        BY <2>3, <2>4 DEF ResultNow
      <4> QED
        BY <2>3, <4>1, NowAtResult
    <3>2. UNCHANGED <<passVars, worldVars>> /\ Failure("unparsable") \in Values \cup Errors
      BY <2>1, <2>2, <2>4 DEF passVars, Errors
    <3> HIDE DEF f
    <3> QED
      BY <2>1, <2>3, <2>4, <3>1, <3>2, CollectNow
  <2>5. CASE tree[Files[n]] # "broken"
    <3>1. /\ UNCHANGED <<entries, pc, want, got, setup, allowlist, tree, edits>>
          /\ seen' = [seen EXCEPT ![p] = [g \in DOMAIN @ \cup {Files[n]} |->
                                  IF g = Files[n] THEN tree[Files[n]] ELSE @[g]]]
      BY <2>1, <2>2, <2>5 DEF cacheVars, worldVars
    <3>2. \A q \in Running : \A g \in DOMAIN seen'[q] :
            \/ g \in DOMAIN seen[q] /\ seen'[q][g] = seen[q][g]
            \/ seen'[q][g] = tree[g]
      BY <3>1, Types
    <3> QED
      BY <3>1, <3>2, UneditedStays
  <2> QED
    BY <2>4, <2>5
<1>5. ASSUME NEW p \in Running, BuildResult(p) PROVE Unedited'
  <2> DEFINE f == <<p, "result">>
             findings == UNION {Finding(g, seen[p][g]) : g \in DOMAIN seen[p]}
             o == Resolve(findings, config[p].allowlist)
  <2>1. /\ Cache!Collect(f, o) /\ UNCHANGED <<passVars, worldVars>>
        /\ pc[f] = "collect" /\ ToWalk(p) = {}
    BY <1>5 DEF BuildResult, Cache!At
  <2>2. f \in Frames /\ config[p] \in Loaded /\ want[f] = ResultKey(config[p])
    BY <2>1, WalkingFacts
  <2>3. /\ DOMAIN seen[p] = Covers[config[p].roots] /\ findings \subseteq Identities
        /\ \A g \in DOMAIN seen[p] : seen[p][g] \in Versions \ {"broken"}
    BY <2>1, <2>2, WalkedFacts
  <2>4. edits = 0 => FitsNow(allowlist, tree, want[f], o)
    <3> SUFFICES ASSUME edits = 0 PROVE FitsNow(allowlist, tree, want[f], o)
      OBVIOUS
    <3>1. \A g \in DOMAIN seen[p] : seen[p][g] = tree[g]
      BY DEF Unedited
    <3>2. findings = FindingsNow(tree, Covers[config[p].roots]) /\ \A g \in Covers[config[p].roots] : tree[g] # "broken"
      BY <2>3, <3>1 DEF FindingsNow
    <3>3. o = ResultNow(tree, config[p])
      BY <3>2 DEF ResultNow
    <3> QED
      BY <2>2, <3>3, NowAtResult
  <2>5. o \in Values \cup Errors
    BY <2>2, <2>3 DEF Resolve, Values, Results, Loaded, Errors
  <2> HIDE DEF f, o
  <2> QED
    BY <2>1, <2>2, <2>4, <2>5, CollectNow
<1>6. CASE Edit
  <2>1. edits' # 0
    BY <1>6 DEF Edit, IInv, TypeOK
  <2> QED
    BY <2>1 DEF Unedited
<1>7. CASE UNCHANGED vars
  BY <1>7, UneditedStays DEF vars, cacheVars, passVars, worldVars
<1> QED
  BY <1>1, <1>2, <1>3, <1>4, <1>5, <1>6, <1>7 DEF Next, Exit, Pass

\* A process is unedited as long as nobody edits.
LEMMA UneditedInvariance == Spec => []Unedited
<1>1. Init => Unedited
  <2> SUFFICES ASSUME Init PROVE Unedited
    OBVIOUS
  <2>1. /\ entries = [k \in Keys |-> None] /\ pc = [c \in Frames |-> "idle"]
        /\ seen = [p \in Running |-> <<>>]
    BY DEF Init, Cache!Init
  <2>2. DOMAIN (<<>>) = {}
    OBVIOUS
  <2> QED
    BY <2>1, <2>2 DEF Unedited
<1> QED
  BY <1>1, UneditedStep, Invariance, PTL DEF Spec

\* A decided pass of an unedited process ends as the audit does, and reports
\* what the audit reports in its files.
LEMMA AuditFacts ==
  ASSUME IInv, Unedited, edits = 0, NEW p \in Running, Decided(p)
  PROVE  \/ ~ Reported(p) /\ verdict[p] = Audit(ConfigOf(p))
         \/ /\ Reported(p) /\ DOMAIN Audit(ConfigOf(p)) = {"report"}
            /\ verdict[p].report = InFilesOf(Audit(ConfigOf(p)).report, p)
<1> DEFINE c == ConfigOf(p)
           data == allowlist[ListOf[c]]
           read == entries[ListKey(ListOf[c])]
           loaded == entries[ConfigKey(c)]
           result == entries[ResultKey(config[p])]
           findings == UNION {Finding(f, tree[f]) : f \in Covers[RootsOf[c]]}
<1>1. /\ c \in Configs /\ ListOf[c] \in Lists /\ ListOf[c] \in DOMAIN allowlist
      /\ ListKey(ListOf[c]) \in Keys
  BY NamedFacts, PassFacts
<1>2. \/ loaded \in Errors /\ verdict[p] = loaded /\ ~ Reported(p)
      \/ /\ loaded \in Loaded /\ config[p] = loaded
         /\ result \in Errors /\ verdict[p] = result /\ ~ Reported(p)
      \/ /\ loaded \in Loaded /\ config[p] = loaded
         /\ result \in Results /\ result.allowed = config[p].allowlist
         /\ {i[1] : i \in result.findings} = Covers[config[p].roots]
         /\ verdict[p] = Report(Reportable(p, result)) /\ Reported(p)
  BY DecidedFacts
<1>3. loaded # None
  BY <1>2, NoneAssumption DEF Values
<1>4. \/ read \in Errors /\ loaded = read
      \/ /\ read \notin Errors /\ loaded \in Loaded
         /\ loaded = [roots |-> RootsOf[c], allowlist |-> read.allowlist]
  BY <1>1, <1>3, ConfiguredFacts
<1>5. read = IF data = Malformed THEN Failure("malformed") ELSE [allowlist |-> data]
  <2>1. entries[ListKey(ListOf[c])] # None
    <3>1. ConfigKey(c) \in Keys
      BY <1>1, KeyFacts
    <3> QED
      BY <1>1, <1>3, <3>1 DEF IInv, Stored, Fits
  <2>2. FitsNow(allowlist, tree, ListKey(ListOf[c]), read)
    BY <1>1, <2>1 DEF Unedited
  <2> QED
    BY <1>1, <2>2 DEF FitsNow, ListNow
<1>6. loaded \in Loaded => loaded \notin Errors
  BY OutcomeKinds
<1>7. CASE data = Malformed
  <2>1. read = Failure("malformed") /\ read \in Errors
    BY <1>5, <1>7 DEF Errors
  <2>2. Audit(c) = Failure("malformed")
    BY <1>7 DEF Audit
  <2> HIDE DEF c, data, read, loaded, result, findings
  <2>3. verdict[p] = Audit(c) /\ ~ Reported(p)
    BY <1>2, <1>4, <1>6, <2>1, <2>2
  <2> QED
    BY <2>3 DEF c
<1>8. CASE data # Malformed
  <2>1. read = [allowlist |-> data] /\ read \notin Errors
    BY <1>5, <1>8, OutcomeKinds DEF Errors, Failure
  <2>2. loaded = [roots |-> RootsOf[c], allowlist |-> data] /\ loaded \in Loaded /\ loaded \notin Errors
    BY <1>4, <1>6, <2>1
  <2>3. config[p] = loaded /\ Covers[config[p].roots] = Covers[RootsOf[c]] /\ config[p].allowlist = data
    BY <1>2, <2>2
  <2>4. result # None
    BY <1>2, <2>2, NoneAssumption DEF Values
  <2>5. result = IF \E f \in Covers[RootsOf[c]] : tree[f] = "broken" THEN Failure("unparsable")
                 ELSE Resolve(findings, data)
    <3>1. ResultKey(config[p]) \in Keys /\ config[p] \in Loaded
      BY <2>2, <2>3, KeyFacts
    <3>2. FitsNow(allowlist, tree, ResultKey(config[p]), result)
      BY <2>4, <3>1 DEF Unedited
    <3>3. result = ResultNow(tree, config[p])
      BY <3>1, <3>2 DEF FitsNow
    <3> QED
      BY <2>3, <3>3 DEF ResultNow, FindingsNow
  <2>6. CASE \E f \in Covers[RootsOf[c]] : tree[f] = "broken"
    <3>1. result = Failure("unparsable") /\ result \in Errors /\ result \notin Results
      BY <2>5, <2>6, OutcomeKinds DEF Errors
    <3>2. Audit(c) = Failure("unparsable")
      BY <1>8, <2>6 DEF Audit
    <3> HIDE DEF c, data, read, loaded, result, findings
    <3>3. verdict[p] = Audit(c) /\ ~ Reported(p)
      BY <1>2, <2>2, <3>1, <3>2
    <3> QED
      BY <3>3 DEF c
  <2>7. CASE ~ \E f \in Covers[RootsOf[c]] : tree[f] = "broken"
    <3>1. result = Resolve(findings, data)
      BY <2>5, <2>7
    <3>2. Audit(c) = IF data \subseteq findings THEN Report(findings \ data) ELSE Failure("unresolved")
      BY <1>8, <2>7 DEF Audit
    <3>3. CASE data \subseteq findings
      <4>1. result = [findings |-> findings, allowed |-> data] /\ result \notin Errors
        BY <3>1, <3>3 DEF Resolve, Errors, Failure
      <4>2. /\ verdict[p] = Report(Reportable(p, result)) /\ Reported(p)
            /\ {i[1] : i \in findings} = Covers[RootsOf[c]]
        BY <1>2, <2>2, <2>3, <4>1
      <4>3. verdict[p].report = {i \in findings \ data : i[1] \in FilesOf(p)}
        BY <2>3, <4>1, <4>2 DEF Report, Reportable
      <4>4. DOMAIN Audit(c) = {"report"} /\ Audit(c).report = findings \ data
        BY <3>2, <3>3 DEF Report
      <4> QED
        BY <4>2, <4>3, <4>4 DEF InFilesOf
    <3>4. CASE ~ (data \subseteq findings)
      <4>1. result = Failure("unresolved") /\ result \in Errors /\ result \notin Results
        BY <3>1, <3>4, OutcomeKinds DEF Resolve, Errors
      <4>2. Audit(c) = Failure("unresolved")
        BY <3>2, <3>4
      <4> HIDE DEF c, data, read, loaded, result, findings
      <4>3. verdict[p] = Audit(c) /\ ~ Reported(p)
        BY <1>2, <2>2, <4>1, <4>2
      <4> QED
        BY <4>3 DEF c
    <3> QED
      BY <3>3, <3>4
  <2> QED
    BY <2>6, <2>7
<1> QED
  BY <1>7, <1>8

\* PassesAgreeWithAudit holds: in a process without edits the passes report
\* between them what the audit of their configuration reports, and fail as it
\* fails.
THEOREM PassesReportTheAudit == Spec => []PassesAgreeWithAudit
<1>1. IInv /\ Unedited => PassesAgreeWithAudit
  <2> SUFFICES ASSUME IInv, Unedited, edits = 0, NEW c \in {ConfigOf(p) : p \in Running}
               PROVE  LET Done == {p \in Running : ConfigOf(p) = c /\ Decided(p)}
                          covered == UNION {FilesOf(p) : p \in Done}
                      IN  /\ \A p \in Done : ~ Reported(p) => verdict[p] = Audit(c)
                          /\ \A p \in Done : Reported(p) => DOMAIN Audit(c) = {"report"}
                          /\ Done # {} /\ (\A p \in Done : Reported(p)) =>
                               UNION {verdict[p].report : p \in Done} =
                                 {i \in Audit(c).report : i[1] \in covered}
    BY DEF PassesAgreeWithAudit
  <2> DEFINE Done == {p \in Running : ConfigOf(p) = c /\ Decided(p)}
  <2>1. \A p \in Done :
          \/ ~ Reported(p) /\ verdict[p] = Audit(c)
          \/ /\ Reported(p) /\ DOMAIN Audit(c) = {"report"}
             /\ verdict[p].report = InFilesOf(Audit(c).report, p)
    BY AuditFacts
  <2> HIDE DEF Done
  <2>2. ASSUME \A p \in Done : Reported(p)
        PROVE  UNION {verdict[p].report : p \in Done} =
                 {i \in Audit(c).report : i[1] \in UNION {FilesOf(p) : p \in Done}}
    <3>1. \A p \in Done : verdict[p].report = {i \in Audit(c).report : i[1] \in FilesOf(p)}
      BY <2>1, <2>2 DEF InFilesOf
    <3> QED
      BY <3>1
  <2> QED
    BY <2>1, <2>2 DEF Done
<1> QED
  BY <1>1, Invariance, UneditedInvariance, PTL
=============================================================================
