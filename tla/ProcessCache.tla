---------------------------- MODULE ProcessCache ----------------------------
(***************************************************************************)
(* processCache[K, V].load of internal/validation/repo_validation_cache.go:*)
(* a sync.Map of finished entries in front of a singleflight group.        *)
(* Concurrent callers (analysis passes on goroutines of one process) race  *)
(* on the same keys.  Every access to the map or to the group is one step. *)
(*                                                                         *)
(*   load(key):  lookup -> enter -> recheck -> collect -> store -> finish  *)
(*                  |        |         |                             |     *)
(*                  |      waiting     +-------> finish              |     *)
(*                  +--------+---------------------------------------+     *)
(*                                      done                               *)
(***************************************************************************)
EXTENDS Naturals

CONSTANTS
  Callers,   \* goroutines that call load
  Keys,      \* values of the comparable key type K
  Flights,   \* values of the string singleflightKey()
  FlightOf,  \* [Keys -> Flights], the join of a key's fields with NUL
  Values,    \* what collect returns when it succeeds
  Errors,    \* what it returns when it fails
  Panic,     \* what leader and waiters get when collect panics
  None,      \* absent
  MaxPanics  \* bound: collections that panic, per key

Outcomes == Values \cup Errors

\* The fields joined by singleflightKey are paths, globs and option lists,
\* none of which holds a NUL, so different keys never share a flight.
ASSUME FlightAssumption ==
  /\ FlightOf \in [Keys -> Flights]
  /\ \A j, k \in Keys : FlightOf[j] = FlightOf[k] => j = k

ASSUME OutcomeAssumption ==
  /\ None \notin Outcomes /\ Panic \notin Outcomes /\ Panic # None
  /\ None \notin Callers /\ None \notin Keys

ASSUME BoundAssumption == MaxPanics \in Nat

VARIABLES
  entries,   \* cache.entries: the outcome stored for each key
  inflight,  \* cache.group: the caller running each registered call
  pc,        \* where each caller is in load
  want,      \* the key each caller passed
  got,       \* the outcome each caller holds
  collects,  \* how often collect was started for each key
  panics     \* how often it panicked

vars == <<entries, inflight, pc, want, got, collects, panics>>

\* The places of a caller that runs the function it gave to group.Do.
Leading == {"recheck", "collect", "store", "finish"}

Places == {"idle", "lookup", "enter", "waiting", "done"} \cup Leading

Flight(c) == FlightOf[want[c]]

Init ==
  /\ entries = [k \in Keys |-> None]
  /\ inflight = [f \in Flights |-> None]
  /\ pc = [c \in Callers |-> "idle"]
  /\ want = [c \in Callers |-> None]
  /\ got = [c \in Callers |-> None]
  /\ collects = [k \in Keys |-> 0]
  /\ panics = [k \in Keys |-> 0]

At(c, place) == pc[c] = place

Goto(c, place) == pc' = [pc EXCEPT ![c] = place]

Take(c, o) == got' = [got EXCEPT ![c] = o]

\* A caller enters load(key, ...).
Load(c, k) ==
  /\ At(c, "idle") /\ Goto(c, "lookup")
  /\ want' = [want EXCEPT ![c] = k]
  /\ UNCHANGED <<entries, inflight, got, collects, panics>>

\* The lock-free entries.Load in front of the group.
LookupHit(c) ==
  /\ At(c, "lookup") /\ Goto(c, "done")
  /\ entries[want[c]] # None
  /\ Take(c, entries[want[c]])
  /\ UNCHANGED <<entries, inflight, want, collects, panics>>

LookupMiss(c) ==
  /\ At(c, "lookup") /\ Goto(c, "enter")
  /\ entries[want[c]] = None
  /\ UNCHANGED <<entries, inflight, want, got, collects, panics>>

\* Variant: every caller runs the function, registered flight or not.
LeadAnyway(c) ==
  /\ At(c, "enter") /\ Goto(c, "recheck")
  /\ inflight' = [inflight EXCEPT ![Flight(c)] = c]
  /\ UNCHANGED <<entries, want, got, collects, panics>>

\* singleflight.Group.Do: the first caller of a flight runs the function ...
Lead(c) ==
  /\ At(c, "enter") /\ Goto(c, "recheck")
  /\ inflight[Flight(c)] = None
  /\ inflight' = [inflight EXCEPT ![Flight(c)] = c]
  /\ UNCHANGED <<entries, want, got, collects, panics>>

\* ... and those that find the flight registered wait for it.
Join(c) ==
  /\ At(c, "enter") /\ Goto(c, "waiting")
  /\ inflight[Flight(c)] # None
  /\ UNCHANGED <<entries, inflight, want, got, collects, panics>>

\* The second entries.Load, inside the flight: an earlier flight may have
\* stored the entry between this caller's lookup and its enter.
RecheckHit(c) ==
  /\ At(c, "recheck") /\ Goto(c, "finish")
  /\ entries[want[c]] # None
  /\ Take(c, entries[want[c]])
  /\ UNCHANGED <<entries, inflight, want, collects, panics>>

\* Variant: the flight collects without looking again.
RecheckNothing(c) ==
  /\ At(c, "recheck") /\ Goto(c, "collect")
  /\ collects' = [collects EXCEPT ![want[c]] = @ + 1]
  /\ UNCHANGED <<entries, inflight, want, got, panics>>

RecheckMiss(c) ==
  /\ At(c, "recheck") /\ Goto(c, "collect")
  /\ entries[want[c]] = None
  /\ collects' = [collects EXCEPT ![want[c]] = @ + 1]
  /\ UNCHANGED <<entries, inflight, want, got, panics>>

Collect(c, o) ==
  /\ At(c, "collect") /\ Goto(c, "store")
  /\ Take(c, o)
  /\ UNCHANGED <<entries, inflight, want, collects, panics>>

\* collect() panics: nothing is stored and singleflight unwinds the flight.
CollectPanics(c) ==
  /\ At(c, "collect") /\ Goto(c, "finish")
  /\ panics[want[c]] < MaxPanics
  /\ panics' = [panics EXCEPT ![want[c]] = @ + 1]
  /\ Take(c, Panic)
  /\ UNCHANGED <<entries, inflight, want, collects>>

\* Variant: keep only successes, so that a failed collection is retried.
StoreValuesOnly(c) ==
  /\ At(c, "store") /\ Goto(c, "finish")
  /\ entries' = IF got[c] \in Errors THEN entries
                ELSE [entries EXCEPT ![want[c]] = got[c]]
  /\ UNCHANGED <<inflight, want, got, collects, panics>>

\* Variant: the entry is stored under the string of the flight.
StoreUnderFlight(c) ==
  /\ At(c, "store") /\ Goto(c, "finish")
  /\ entries' = [k \in Keys \cup {Flight(c)} |->
                   IF k = Flight(c) THEN got[c] ELSE entries[k]]
  /\ UNCHANGED <<inflight, want, got, collects, panics>>

\* entries.Store(key, entry), whether the entry is a value or an error.
Store(c) ==
  /\ At(c, "store") /\ Goto(c, "finish")
  /\ entries' = [entries EXCEPT ![want[c]] = got[c]]
  /\ UNCHANGED <<inflight, want, got, collects, panics>>

Waiters(f) == {w \in Callers : At(w, "waiting") /\ Flight(w) = f}

\* Variant: the flight ends without waking those that joined it.
FinishAlone(c) ==
  /\ At(c, "finish") /\ Goto(c, "done")
  /\ inflight' = [inflight EXCEPT ![Flight(c)] = None]
  /\ UNCHANGED <<entries, want, got, collects, panics>>

\* singleflight.Group.doCall ends: under the group's mutex the call is
\* removed and its waiters released; leader and waiters return the same
\* entry or panic alike.
Finish(c) ==
  LET Released == Waiters(Flight(c)) \cup {c} IN
  /\ At(c, "finish")
  /\ inflight' = [inflight EXCEPT ![Flight(c)] = None]
  /\ pc' = [w \in Callers |-> IF w \in Released THEN "done" ELSE pc[w]]
  /\ got' = [w \in Callers |-> IF w \in Released THEN got[c] ELSE got[w]]
  /\ UNCHANGED <<entries, want, collects, panics>>

\* load returns to (or panics out of) its caller, which may call it again.
Return(c) ==
  /\ At(c, "done") /\ Goto(c, "idle")
  /\ want' = [want EXCEPT ![c] = None]
  /\ Take(c, None)
  /\ UNCHANGED <<entries, inflight, collects, panics>>

\* The steps load takes without leaving the cache.
Internal(c) ==
  \/ LookupHit(c) \/ LookupMiss(c) \/ Lead(c) \/ Join(c)
  \/ RecheckHit(c) \/ RecheckMiss(c) \/ Store(c) \/ Finish(c)

CollectEnds(c) == CollectPanics(c) \/ \E o \in Outcomes : Collect(c, o)

Next ==
  \E c \in Callers :
    \/ \E k \in Keys : Load(c, k)
    \/ Internal(c)
    \/ CollectEnds(c)
    \/ Return(c)

Spec == Init /\ [][Next]_vars

\* The Go scheduler runs every goroutine that can run, and a collection (a
\* finite walk of the tree) ends.  No caller need ever call load.
FairSpec == Spec /\ \A c \in Callers : WF_vars(Internal(c) \/ CollectEnds(c))

-----------------------------------------------------------------------------
(* Properties *)

TypeOK ==
  /\ entries \in [Keys -> Outcomes \cup {None}]
  /\ inflight \in [Flights -> Callers \cup {None}]
  /\ pc \in [Callers -> Places]
  /\ want \in [Callers -> Keys \cup {None}]
  /\ got \in [Callers -> Outcomes \cup {Panic, None}]
  /\ collects \in [Keys -> Nat]
  /\ panics \in [Keys -> Nat]

\* However the callers of load interleave, the repository is collected once
\* for a key, plus once for each collection that panicked before storing.
CollectOnce == \A k \in Keys : collects[k] <= panics[k] + 1

\* Whoever returns from load with an outcome, by the fast path, as leader or
\* as waiter, returns the stored entry of its own key, errors included.
AnswerIsEntry ==
  \A c \in Callers :
    At(c, "done") /\ got[c] # Panic => got[c] = entries[want[c]]

\* Nobody waits on a flight that no running caller will finish, and the
\* caller that runs it wants the very key the waiter wants.
WaiterHasLeader ==
  \A w \in Callers :
    At(w, "waiting") =>
      \E c \in Callers : /\ inflight[Flight(w)] = c
                         /\ pc[c] \in Leading /\ want[c] = want[w]

\* The cache is append-only for the lifetime of the process: no step, of any
\* caller, drops or replaces an entry, not even an error.
EntriesAppendOnly ==
  [][\A k \in Keys : entries[k] # None => entries'[k] = entries[k]]_vars

\* Every call of load returns or panics.
LoadTerminates == \A c \in Callers : At(c, "lookup") ~> At(c, "done")

\* Seen from outside, load is the memo of OnceMemo.
Answered(c) == IF At(c, "done") THEN got[c] ELSE None

Memo == INSTANCE OnceMemo WITH
          decided <- entries,
          asked <- want,
          answer <- [c \in Callers |-> Answered(c)]

\* Every behaviour of the cache is a behaviour of the memo.
ImplementsMemo == Memo!Spec

=============================================================================
