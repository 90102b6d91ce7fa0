------------------------- MODULE ProcessCacheProofs -------------------------
(***************************************************************************)
(* Theorems about ProcessCache for every number of callers and keys.       *)
(*                                                                         *)
(* AnswerIsEntry and CollectOnce are not inductive: a leader that already  *)
(* missed at recheck must be alone with its key until it has stored.       *)
(* IInv says so: a flight in the group has exactly the caller that leads   *)
(* it (Leads, Led), a leader that collects or stores has found no entry    *)
(* and nobody else can (Open), what a caller carries agrees with the entry *)
(* (Carries), and a collection that has not panicked is either under way   *)
(* or stored (Counted).                                                    *)
(***************************************************************************)
EXTENDS ProcessCache, TLAPS

Wants == \A c \in Callers : want[c] = None <=> At(c, "idle")

Leads == \A c \in Callers : pc[c] \in Leading => inflight[Flight(c)] = c

Led ==
  \A f \in Flights : inflight[f] # None =>
    pc[inflight[f]] \in Leading /\ Flight(inflight[f]) = f

Attended ==
  \A c \in Callers : At(c, "waiting") => inflight[Flight(c)] # None

Open ==
  \A c \in Callers :
    pc[c] \in {"collect", "store"} => entries[want[c]] = None

Carries ==
  \A c \in Callers :
    /\ At(c, "store") => got[c] \in Outcomes
    /\ At(c, "finish") =>
         \/ got[c] = Panic /\ entries[want[c]] = None
         \/ got[c] \in Outcomes /\ got[c] = entries[want[c]]
    /\ At(c, "done") =>
         \/ got[c] = Panic
         \/ got[c] \in Outcomes /\ got[c] = entries[want[c]]

Settled(k) ==
  \/ entries[k] # None
  \/ \E c \in Callers : pc[c] \in {"collect", "store"} /\ want[c] = k

Counted ==
  \A k \in Keys :
    \/ collects[k] <= panics[k]
    \/ collects[k] = panics[k] + 1 /\ Settled(k)

IInv ==
  /\ TypeOK /\ Wants /\ Leads /\ Led /\ Attended /\ Open /\ Carries /\ Counted

\* The empty cache satisfies the invariant.
LEMMA InitIInv == Init => IInv
  BY FlightAssumption, OutcomeAssumption
  DEF Init, IInv, TypeOK, Wants, Leads, Led, Attended, Open, Carries, Counted,
      Leading, Places, At

\* A caller entering load keeps the invariant.
LEMMA LoadStep ==
  ASSUME NEW c \in Callers, NEW k \in Keys, IInv, Load(c, k)
  PROVE  IInv'
<1> USE FlightAssumption, OutcomeAssumption DEF IInv, TypeOK, Load,
      At, Goto, Flight, Leading, Outcomes
<1>1. TypeOK'
  BY DEF Wants, Carries, Places
<1>2. Wants'
  BY DEF Wants
<1>3. Leads'
  BY DEF Leads, Wants
<1>4. Led'
  BY DEF Led, Wants, Leads
<1>5. Attended'
  BY DEF Attended, Wants, Leads, Led
<1>6. Open'
  BY DEF Open, Wants, Leads
<1>7. Carries'
  BY DEF Carries, Wants, Leads, Open
<1>8. Counted'
  BY DEF Counted, Wants, Open, Settled
<1>9. QED
  BY <1>1, <1>2, <1>3, <1>4, <1>5, <1>6, <1>7, <1>8

\* A hit before the flight keeps the invariant.
LEMMA LookupHitStep ==
  ASSUME NEW c \in Callers, IInv, LookupHit(c)
  PROVE  IInv'
<1> USE FlightAssumption, OutcomeAssumption DEF IInv, TypeOK, LookupHit,
      At, Goto, Flight, Take, Leading, Outcomes
<1>1. TypeOK'
  BY DEF Wants, Carries, Places
<1>2. Wants'
  BY DEF Wants
<1>3. Leads'
  BY DEF Leads, Wants
<1>4. Led'
  BY DEF Led, Wants, Leads
<1>5. Attended'
  BY DEF Attended, Wants, Leads, Led
<1>6. Open'
  BY DEF Open, Wants, Leads
<1>7. Carries'
  BY DEF Carries, Wants, Leads, Open
<1>8. Counted'
  BY DEF Counted, Wants, Open, Settled
<1>9. QED
  BY <1>1, <1>2, <1>3, <1>4, <1>5, <1>6, <1>7, <1>8

\* A miss before the flight keeps the invariant.
LEMMA LookupMissStep ==
  ASSUME NEW c \in Callers, IInv, LookupMiss(c)
  PROVE  IInv'
<1> USE FlightAssumption, OutcomeAssumption DEF IInv, TypeOK, LookupMiss,
      At, Goto, Flight, Leading, Outcomes
<1>1. TypeOK'
  BY DEF Wants, Carries, Places
<1>2. Wants'
  BY DEF Wants
<1>3. Leads'
  BY DEF Leads, Wants
<1>4. Led'
  BY DEF Led, Wants, Leads
<1>5. Attended'
  BY DEF Attended, Wants, Leads, Led
<1>6. Open'
  BY DEF Open, Wants, Leads
<1>7. Carries'
  BY DEF Carries, Wants, Leads, Open
<1>8. Counted'
  BY DEF Counted, Wants, Open, Settled
<1>9. QED
  BY <1>1, <1>2, <1>3, <1>4, <1>5, <1>6, <1>7, <1>8

\* Registering a flight makes its caller the only leader.
LEMMA LeadStep ==
  ASSUME NEW c \in Callers, IInv, Lead(c)
  PROVE  IInv'
<1> USE FlightAssumption, OutcomeAssumption DEF IInv, TypeOK, Lead,
      At, Goto, Flight, Leading, Outcomes
<1>1. TypeOK'
  BY DEF Wants, Carries, Places
<1>2. Wants'
  BY DEF Wants
<1>3. Leads'
  BY DEF Leads, Wants
<1>4. Led'
  BY DEF Led, Wants, Leads
<1>5. Attended'
  BY DEF Attended, Wants, Leads, Led
<1>6. Open'
  BY DEF Open, Wants, Leads
<1>7. Carries'
  BY DEF Carries, Wants, Leads, Open
<1>8. Counted'
  BY DEF Counted, Wants, Open, Settled
<1>9. QED
  BY <1>1, <1>2, <1>3, <1>4, <1>5, <1>6, <1>7, <1>8

\* Joining a registered flight keeps the invariant.
LEMMA JoinStep ==
  ASSUME NEW c \in Callers, IInv, Join(c)
  PROVE  IInv'
<1> USE FlightAssumption, OutcomeAssumption DEF IInv, TypeOK, Join,
      At, Goto, Flight, Leading, Outcomes
<1>1. TypeOK'
  BY DEF Wants, Carries, Places
<1>2. Wants'
  BY DEF Wants
<1>3. Leads'
  BY DEF Leads, Wants
<1>4. Led'
  BY DEF Led, Wants, Leads
<1>5. Attended'
  BY DEF Attended, Wants, Leads, Led
<1>6. Open'
  BY DEF Open, Wants, Leads
<1>7. Carries'
  BY DEF Carries, Wants, Leads, Open
<1>8. Counted'
  BY DEF Counted, Wants, Open, Settled
<1>9. QED
  BY <1>1, <1>2, <1>3, <1>4, <1>5, <1>6, <1>7, <1>8

\* A hit inside the flight keeps the invariant.
LEMMA RecheckHitStep ==
  ASSUME NEW c \in Callers, IInv, RecheckHit(c)
  PROVE  IInv'
<1> USE FlightAssumption, OutcomeAssumption DEF IInv, TypeOK, RecheckHit,
      At, Goto, Flight, Take, Leading, Outcomes
<1>1. TypeOK'
  BY DEF Wants, Carries, Places
<1>2. Wants'
  BY DEF Wants
<1>3. Leads'
  BY DEF Leads, Wants
<1>4. Led'
  BY DEF Led, Wants, Leads
<1>5. Attended'
  BY DEF Attended, Wants, Leads, Led
<1>6. Open'
  BY DEF Open, Wants, Leads
<1>7. Carries'
  BY DEF Carries, Wants, Leads, Open
<1>8. Counted'
  BY DEF Counted, Wants, Open, Settled
<1>9. QED
  BY <1>1, <1>2, <1>3, <1>4, <1>5, <1>6, <1>7, <1>8

\* Starting a collection is counted, and only for an unsettled key.
LEMMA RecheckMissStep ==
  ASSUME NEW c \in Callers, IInv, RecheckMiss(c)
  PROVE  IInv'
<1> USE FlightAssumption, OutcomeAssumption DEF IInv, TypeOK, RecheckMiss,
      At, Goto, Flight, Leading, Outcomes
<1>1. TypeOK'
  BY DEF Wants, Carries, Places
<1>2. Wants'
  BY DEF Wants
<1>3. Leads'
  BY DEF Leads, Wants
<1>4. Led'
  BY DEF Led, Wants, Leads
<1>5. Attended'
  BY DEF Attended, Wants, Leads, Led
<1>6. Open'
  BY DEF Open, Wants, Leads
<1>7. Carries'
  BY DEF Carries, Wants, Leads, Open
<1>8. Counted'
  <2> SUFFICES ASSUME NEW k \in Keys
               PROVE  \/ collects'[k] <= panics'[k]
                      \/ collects'[k] = panics'[k] + 1 /\ Settled(k)'
    BY DEF Counted
  <2>1. CASE k = want[c]
    <3>1. ~ Settled(k)
      BY <2>1 DEF Leads, Wants, Settled
    <3>2. collects[k] <= panics[k]
      BY <3>1 DEF Counted
    <3>3. Settled(k)'
      BY <2>1 DEF Settled
    <3>4. QED
      BY <2>1, <3>2, <3>3
  <2>2. CASE k # want[c]
    <3>1. Settled(k) => Settled(k)'
      BY <2>2 DEF Settled
    <3>2. collects'[k] = collects[k] /\ panics'[k] = panics[k]
      BY <2>2
    <3>3. QED
      BY <3>1, <3>2 DEF Counted
  <2>3. QED
    BY <2>1, <2>2
<1>9. QED
  BY <1>1, <1>2, <1>3, <1>4, <1>5, <1>6, <1>7, <1>8

\* A collection that returns keeps the invariant.
LEMMA CollectStep ==
  ASSUME NEW c \in Callers, NEW o \in Outcomes, IInv, Collect(c, o)
  PROVE  IInv'
<1> USE FlightAssumption, OutcomeAssumption DEF IInv, TypeOK, Collect,
      At, Goto, Flight, Take, Leading, Outcomes
<1>1. TypeOK'
  BY DEF Wants, Carries, Places
<1>2. Wants'
  BY DEF Wants
<1>3. Leads'
  BY DEF Leads, Wants
<1>4. Led'
  BY DEF Led, Wants, Leads
<1>5. Attended'
  BY DEF Attended, Wants, Leads, Led
<1>6. Open'
  BY DEF Open, Wants, Leads
<1>7. Carries'
  BY DEF Carries, Wants, Leads, Open
<1>8. Counted'
  BY DEF Counted, Wants, Open, Settled
<1>9. QED
  BY <1>1, <1>2, <1>3, <1>4, <1>5, <1>6, <1>7, <1>8

\* A collection that panics is counted as such.
LEMMA CollectPanicsStep ==
  ASSUME NEW c \in Callers, IInv, CollectPanics(c)
  PROVE  IInv'
<1> USE FlightAssumption, OutcomeAssumption DEF IInv, TypeOK, CollectPanics,
      At, Goto, Flight, Take, Leading, Outcomes
<1>1. TypeOK'
  BY DEF Wants, Carries, Places
<1>2. Wants'
  BY DEF Wants
<1>3. Leads'
  BY DEF Leads, Wants
<1>4. Led'
  BY DEF Led, Wants, Leads
<1>5. Attended'
  BY DEF Attended, Wants, Leads, Led
<1>6. Open'
  BY DEF Open, Wants, Leads
<1>7. Carries'
  BY DEF Carries, Wants, Leads, Open
<1>8. Counted'
  <2> SUFFICES ASSUME NEW k \in Keys
               PROVE  \/ collects'[k] <= panics'[k]
                      \/ collects'[k] = panics'[k] + 1 /\ Settled(k)'
    BY DEF Counted
  <2>1. CASE k = want[c]
    <3>1. panics'[k] = panics[k] + 1 /\ collects'[k] = collects[k]
      BY <2>1
    <3>2. QED
      BY <3>1 DEF Counted
  <2>2. CASE k # want[c]
    <3>1. Settled(k) => Settled(k)'
      BY <2>2 DEF Settled
    <3>2. collects'[k] = collects[k] /\ panics'[k] = panics[k]
      BY <2>2
    <3>3. QED
      BY <3>1, <3>2 DEF Counted
  <2>3. QED
    BY <2>1, <2>2
<1>9. QED
  BY <1>1, <1>2, <1>3, <1>4, <1>5, <1>6, <1>7, <1>8

\* Storing the outcome settles the key.
LEMMA StoreStep ==
  ASSUME NEW c \in Callers, IInv, Store(c)
  PROVE  IInv'
<1> USE FlightAssumption, OutcomeAssumption DEF IInv, TypeOK, Store,
      At, Goto, Flight, Leading, Outcomes
<1>1. TypeOK'
  BY DEF Wants, Carries, Places
<1>2. Wants'
  BY DEF Wants
<1>3. Leads'
  BY DEF Leads, Wants
<1>4. Led'
  BY DEF Led, Wants, Leads
<1>5. Attended'
  BY DEF Attended, Wants, Leads, Led
<1>6. Open'
  BY DEF Open, Wants, Leads
<1>7. Carries'
  BY DEF Carries, Wants, Leads, Open
<1>8. Counted'
  <2>1. entries'[want[c]] # None
    BY DEF Carries, Wants
  <2>2. \A k \in Keys : Settled(k) => Settled(k)'
    BY <2>1 DEF Settled
  <2>3. QED
    BY <2>2 DEF Counted
<1>9. QED
  BY <1>1, <1>2, <1>3, <1>4, <1>5, <1>6, <1>7, <1>8

\* Ending a flight releases the leader and its waiters with one outcome.
LEMMA FinishStep ==
  ASSUME NEW c \in Callers, IInv, Finish(c)
  PROVE  IInv'
<1> USE FlightAssumption, OutcomeAssumption DEF IInv, TypeOK, Finish,
      At, Flight, Waiters, Leading, Outcomes
<1>1. TypeOK'
  BY DEF Wants, Carries, Places
<1>2. Wants'
  BY DEF Wants
<1>3. Leads'
  BY DEF Leads, Wants
<1>4. Led'
  BY DEF Led, Wants, Leads
<1>5. Attended'
  BY DEF Attended, Wants, Leads, Led
<1>6. Open'
  BY DEF Open, Wants, Leads
<1>7. Carries'
  BY DEF Carries, Wants, Leads, Open
<1>8. Counted'
  BY DEF Counted, Wants, Open, Settled
<1>9. QED
  BY <1>1, <1>2, <1>3, <1>4, <1>5, <1>6, <1>7, <1>8

\* Returning from load keeps the invariant.
LEMMA ReturnStep ==
  ASSUME NEW c \in Callers, IInv, Return(c)
  PROVE  IInv'
<1> USE FlightAssumption, OutcomeAssumption DEF IInv, TypeOK, Return,
      At, Goto, Flight, Take, Leading, Outcomes
<1>1. TypeOK'
  BY DEF Wants, Carries, Places
<1>2. Wants'
  BY DEF Wants
<1>3. Leads'
  BY DEF Leads, Wants
<1>4. Led'
  BY DEF Led, Wants, Leads
<1>5. Attended'
  BY DEF Attended, Wants, Leads, Led
<1>6. Open'
  BY DEF Open, Wants, Leads
<1>7. Carries'
  BY DEF Carries, Wants, Leads, Open
<1>8. Counted'
  BY DEF Counted, Wants, Open, Settled
<1>9. QED
  BY <1>1, <1>2, <1>3, <1>4, <1>5, <1>6, <1>7, <1>8

\* Every step of the cache keeps the invariant.
LEMMA NextStep == IInv /\ [Next]_vars => IInv'
<1> SUFFICES ASSUME IInv, [Next]_vars PROVE IInv'
  OBVIOUS
<1>1. CASE UNCHANGED vars
  BY <1>1 DEF vars, IInv, TypeOK, Wants, Leads, Led, Attended, Open, Carries,
              Counted, Settled, At, Flight
<1>2. ASSUME NEW c \in Callers, NEW k \in Keys, Load(c, k) PROVE IInv'
  BY <1>2, LoadStep
<1>3. ASSUME NEW c \in Callers, Internal(c) PROVE IInv'
  BY <1>3, LookupHitStep, LookupMissStep, LeadStep, JoinStep, RecheckHitStep,
     RecheckMissStep, StoreStep, FinishStep DEF Internal
<1>4. ASSUME NEW c \in Callers, CollectEnds(c) PROVE IInv'
  BY <1>4, CollectStep, CollectPanicsStep DEF CollectEnds
<1>5. ASSUME NEW c \in Callers, Return(c) PROVE IInv'
  BY <1>5, ReturnStep
<1>6. QED
  BY <1>1, <1>2, <1>3, <1>4, <1>5 DEF Next

\* The invariant holds in every state the cache reaches.
THEOREM Invariance == Spec => []IInv
  BY InitIInv, NextStep, PTL DEF Spec

\* Every state of the cache is well typed.
THEOREM TypeCorrect == Spec => []TypeOK
  BY Invariance, PTL DEF IInv

\* A key is collected at most once, plus once per collection that panicked:
\* the recheck inside the flight closes the race with an earlier flight.
THEOREM CollectedOnce == Spec => []CollectOnce
<1>1. IInv => CollectOnce
  BY DEF IInv, TypeOK, Counted, CollectOnce
<1>2. QED
  BY <1>1, Invariance, PTL

\* Whoever returns from load returns the stored entry of its key, an error
\* included.
THEOREM AnswersAreEntries == Spec => []AnswerIsEntry
<1>1. IInv => AnswerIsEntry
  BY DEF IInv, Carries, AnswerIsEntry, At
<1>2. QED
  BY <1>1, Invariance, PTL

\* A caller that joined a flight waits on a running leader of its own key.
THEOREM WaitersHaveLeaders == Spec => []WaiterHasLeader
<1>1. IInv => WaiterHasLeader
  BY FlightAssumption, OutcomeAssumption
  DEF IInv, TypeOK, Wants, Led, Attended, WaiterHasLeader, At, Flight, Leading
<1>2. QED
  BY <1>1, Invariance, PTL

\* No step drops or replaces an entry.
THEOREM AppendOnly == Spec => EntriesAppendOnly
<1>1. IInv /\ [Next]_vars =>
        [\A k \in Keys : entries[k] # None => entries'[k] = entries[k]]_vars
  BY DEF IInv, TypeOK, Open, Wants, Next, Internal, CollectEnds, Load, LookupHit,
         LookupMiss, Lead, Join, RecheckHit, RecheckMiss, Collect,
         CollectPanics, Store, Finish, Return, At
<1>2. QED
  BY <1>1, Invariance, PTL DEF Spec, EntriesAppendOnly

-----------------------------------------------------------------------------
(* The cache implements OnceMemo: lookups, flights and collections are      *)
(* stutters, Store decides the key, a fast-path hit answers one caller and  *)
(* the end of a flight answers, or fails, the leader and its waiters.       *)

\* The empty cache is an undecided memo.
LEMMA MemoInit == Init => Memo!Init
  BY DEF Init, Memo!Init, Answered, At

\* A step that leaves entries, wants and answers alone is a stutter of the memo.
LEMMA MemoStutter ==
  ASSUME UNCHANGED <<entries, want>>,
         \A c \in Callers : Answered(c)' = Answered(c)
  PROVE  UNCHANGED Memo!vars
  BY DEF Memo!vars

\* Entering load asks the memo.
LEMMA MemoLoad ==
  ASSUME NEW c \in Callers, NEW k \in Keys, IInv, Load(c, k)
  PROVE  Memo!Ask(c, k)
  BY OutcomeAssumption
  DEF Load, Memo!Ask, IInv, TypeOK, Wants, Answered, At, Goto

\* A fast-path hit answers one caller.
LEMMA MemoHit ==
  ASSUME NEW c \in Callers, IInv, LookupHit(c)
  PROVE  Memo!Answer({c}, want[c])
  BY OutcomeAssumption
  DEF LookupHit, Memo!Answer, Memo!Tell, IInv, TypeOK, Wants, Answered, At,
      Goto, Take

\* Storing an entry decides its key.
LEMMA MemoStore ==
  ASSUME NEW c \in Callers, IInv, Store(c)
  PROVE  Memo!Decide(want[c], got[c]) /\ want[c] \in Keys /\ got[c] \in Outcomes
  BY OutcomeAssumption
  DEF Store, Memo!Decide, IInv, TypeOK, Wants, Open, Carries, Answered, At, Goto

\* The end of a flight answers, or fails, the leader and its waiters.
LEMMA MemoFinish ==
  ASSUME NEW c \in Callers, IInv, Finish(c)
  PROVE  \E S \in SUBSET Callers, k \in Keys : Memo!Answer(S, k) \/ Memo!Fail(S, k)
<1> DEFINE S == Waiters(Flight(c)) \cup {c}
<1>1. S \in SUBSET Callers /\ S # {} /\ want[c] \in Keys
  BY OutcomeAssumption DEF Waiters, IInv, TypeOK, Wants, Finish, At
<1>2. \A w \in S : want[w] = want[c] /\ Answered(w) = None
  BY FlightAssumption, OutcomeAssumption
  DEF Waiters, IInv, TypeOK, Wants, Finish, At, Flight, Answered
<1>3. \A w \in Callers : Answered(w)' = IF w \in S THEN got[c] ELSE Answered(w)
  BY DEF Finish, Answered, At, IInv, TypeOK
<1>4. UNCHANGED <<entries, want>>
  BY DEF Finish
<1>5. Memo!Tell(S, want[c], got[c])
  BY <1>1, <1>2, <1>3, <1>4 DEF Memo!Tell
<1>6. CASE got[c] = Panic
  <2>1. entries[want[c]] = None
    BY <1>6, OutcomeAssumption DEF IInv, Carries, Finish, At
  <2>2. Memo!Fail(S, want[c])
    BY <1>5, <1>6, <2>1 DEF Memo!Fail
  <2>3. QED
    BY <1>1, <2>2
<1>7. CASE got[c] # Panic
  <2>1. got[c] = entries[want[c]] /\ entries[want[c]] # None
    BY <1>7, OutcomeAssumption DEF IInv, Carries, Finish, At
  <2>2. Memo!Answer(S, want[c])
    BY <1>5, <2>1 DEF Memo!Answer
  <2>3. QED
    BY <1>1, <2>2
<1>8. QED
  BY <1>6, <1>7

\* Returning from load leaves the memo.
LEMMA MemoReturn ==
  ASSUME NEW c \in Callers, IInv, Return(c)
  PROVE  Memo!Leave(c)
  BY OutcomeAssumption
  DEF Return, Memo!Leave, IInv, TypeOK, Carries, Answered, At, Goto, Take

\* Every step of the cache is a step of the memo or a stutter.
LEMMA MemoStep == IInv /\ [Next]_vars => [Memo!Next]_(Memo!vars)
<1> SUFFICES ASSUME IInv, [Next]_vars PROVE [Memo!Next]_(Memo!vars)
  OBVIOUS
<1>1. CASE UNCHANGED vars
  BY <1>1, MemoStutter DEF vars, Answered, At
<1>2. ASSUME NEW c \in Callers, NEW k \in Keys, Load(c, k) PROVE Memo!Next
  BY <1>2, MemoLoad DEF Memo!Next
<1>3. ASSUME NEW c \in Callers, LookupHit(c) PROVE Memo!Next
  <2>1. want[c] \in Keys
    BY <1>3 DEF LookupHit, IInv, TypeOK, Wants, At
  <2>2. {c} \in SUBSET Callers
    OBVIOUS
  <2>3. QED
    BY <1>3, <2>1, <2>2, MemoHit DEF Memo!Next
<1>4. ASSUME NEW c \in Callers,
             \/ LookupMiss(c) \/ Lead(c) \/ Join(c)
             \/ RecheckHit(c) \/ RecheckMiss(c) \/ CollectEnds(c)
      PROVE  UNCHANGED Memo!vars
  <2>1. UNCHANGED <<entries, want>>
    BY <1>4 DEF LookupMiss, Lead, Join, RecheckHit, RecheckMiss, CollectEnds,
                Collect, CollectPanics
  <2>2. \A w \in Callers : Answered(w)' = Answered(w)
    BY <1>4 DEF LookupMiss, Lead, Join, RecheckHit, RecheckMiss, CollectEnds,
                Collect, CollectPanics, At, Goto, Take, Answered, IInv, TypeOK
  <2>3. QED
    BY <2>1, <2>2, MemoStutter
<1>5. ASSUME NEW c \in Callers, Store(c) PROVE Memo!Next
  BY <1>5, MemoStore DEF Memo!Next
<1>6. ASSUME NEW c \in Callers, Finish(c) PROVE Memo!Next
  BY <1>6, MemoFinish DEF Memo!Next
<1>7. ASSUME NEW c \in Callers, Return(c) PROVE Memo!Next
  BY <1>7, MemoReturn DEF Memo!Next
<1>8. QED
  BY <1>1, <1>2, <1>3, <1>4, <1>5, <1>6, <1>7 DEF Next, Internal

\* The double-checked, single-flight cache is a memo that decides each key
\* once: every behaviour of Spec is a behaviour of OnceMemo.
THEOREM CacheIsMemo == Spec => ImplementsMemo
  BY MemoInit, MemoStep, Invariance, PTL DEF Spec, ImplementsMemo, Memo!Spec

=============================================================================
