------------------------------ MODULE OnceMemo ------------------------------
(***************************************************************************)
(* What internal/validation promises of each of its process-wide caches    *)
(* (repo_validation_cache.go): a key is decided at most once in the life   *)
(* of the process, an error decides it just as a value does, and every     *)
(* caller that asks for the key is answered with that decision.  A         *)
(* collection that panics decides nothing; it takes down the callers that  *)
(* were waiting for it and leaves the key open.                            *)
(***************************************************************************)
EXTENDS Naturals

CONSTANTS
  Callers,  \* goroutines that call load
  Keys,     \* cache keys
  Outcomes, \* what a collection can return, a value or an error
  Panic,    \* what a caller gets from a collection that panicked
  None      \* no decision, no question, no answer

VARIABLES
  decided,  \* the outcome recorded for each key
  asked,    \* the key each caller is asking for
  answer    \* what each caller has been told

vars == <<decided, asked, answer>>

Init ==
  /\ decided = [k \in Keys |-> None]
  /\ asked = [c \in Callers |-> None]
  /\ answer = [c \in Callers |-> None]

Ask(c, k) ==
  /\ asked[c] = None
  /\ asked' = [asked EXCEPT ![c] = k]
  /\ UNCHANGED <<decided, answer>>

\* Only a key somebody asks for is decided, and only once.
Decide(k, o) ==
  /\ decided[k] = None
  /\ \E c \in Callers : asked[c] = k /\ answer[c] = None
  /\ decided' = [decided EXCEPT ![k] = o]
  /\ UNCHANGED <<asked, answer>>

\* The callers in S, all asking for k, learn its outcome together.
Tell(S, k, o) ==
  /\ S # {}
  /\ \A c \in S : asked[c] = k /\ answer[c] = None
  /\ answer' = [c \in Callers |-> IF c \in S THEN o ELSE answer[c]]
  /\ UNCHANGED <<decided, asked>>

Answer(S, k) == decided[k] # None /\ Tell(S, k, decided[k])

Fail(S, k) == decided[k] = None /\ Tell(S, k, Panic)

Leave(c) ==
  /\ answer[c] # None
  /\ asked' = [asked EXCEPT ![c] = None]
  /\ answer' = [answer EXCEPT ![c] = None]
  /\ UNCHANGED decided

Next ==
  \/ \E c \in Callers : Leave(c)
  \/ \E c \in Callers, k \in Keys : Ask(c, k)
  \/ \E k \in Keys, o \in Outcomes : Decide(k, o)
  \/ \E S \in SUBSET Callers, k \in Keys : Answer(S, k) \/ Fail(S, k)

Spec == Init /\ [][Next]_vars

=============================================================================
