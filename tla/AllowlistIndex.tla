--------------------------- MODULE AllowlistIndex ---------------------------
(***************************************************************************)
(* How an allowlist is checked against the findings of a walk, in          *)
(* internal/validation/any_usage.go: validateAllowlist normalises the      *)
(* selectors in place and refuses malformed or repeated ones, then         *)
(* resolveAllowlistIndex resolves each selector to one finding and refuses *)
(* those that match none, several, or one already taken, and               *)
(* violationsFromFindings keeps what no selector and no nolint covers.     *)
(* One step is one iteration of one of the loops.                          *)
(*                                                                         *)
(* A selector is a key (path, owner and category) and a position; line and *)
(* column 0 make it a legacy selector, which has no position.              *)
(***************************************************************************)
EXTENDS Integers, Sequences

CONSTANTS
  Keys,        \* normalised path, owner and category triples
  RawKeys,     \* what an entry of a YAML file may hold in their place: other
               \* spellings, or a field or the description missing
  KeyOf,       \* [RawKeys -> Keys \cup {None}], normalizeAllowlistSelector;
               \* None when something is missing
  Positions,   \* the line and column pairs of findings
  Allowlists,  \* the entry lists to check
  Collections, \* the finding lists to check them against
  Suppressed,  \* the identities whose findings a nolint covers
  None

\* What a selector may be given as; half a position or a negative one too.
RawSelectors == [key : RawKeys, line : Int, column : Int]

Identities == [key : Keys, line : Int, column : Int]

\* A finding is identified by its key and 1-based position.
Findings == {i \in Identities : <<i.line, i.column>> \in Positions}

ASSUME KeyAssumption == KeyOf \in [RawKeys -> Keys \cup {None}] /\ None \notin Keys

ASSUME PositionAssumption ==
  \A p \in Positions : p[1] \in Int /\ p[2] \in Int /\ p[1] > 0 /\ p[2] > 0

ASSUME InputAssumption ==
  /\ Allowlists \subseteq Seq(RawSelectors)
  /\ Collections \subseteq Seq(Findings)

VARIABLES
  raw,        \* the entries the caller passed
  entries,    \* allowlist.Entries, normalised from the front
  findings,   \* what the walk collected
  phase,      \* the loop that runs
  i,          \* its index
  seen,       \* seenSelectors
  available,  \* the identities collected
  matches,    \* legacyMatches: the identities collected without position
  resolved,   \* the identity each entry resolved to
  verdict,    \* None, or the error and its entry, or "accepted"
  violations  \* what is reported

vars == <<raw, entries, findings, phase, i, seen, available, matches, resolved,
          verdict, violations>>

HasPosition(selector) == selector.line > 0 /\ selector.column > 0

\* Variant: selectors are taken as they are spelled.
AsSpelled(selector) == selector

Normalize(selector) == [selector EXCEPT !.key = KeyOf[@]]

\* normalizeValidatedSelector and the description: all fields present, and
\* both coordinates or none.
Valid(selector) ==
  /\ selector.key # None
  /\ \/ selector.line = 0 /\ selector.column = 0
     \/ HasPosition(selector)

Reject(reason) ==
  /\ verdict' = [error |-> reason, entry |-> i]
  /\ phase' = "rejected"
  /\ UNCHANGED <<raw, findings, i, available, matches, violations>>

Init ==
  /\ raw \in Allowlists
  /\ entries = raw
  /\ findings \in Collections
  /\ phase = "validate"
  /\ i = 1
  /\ seen = {}
  /\ available = {}
  /\ matches = [k \in Keys |-> <<>>]
  /\ resolved = <<>>
  /\ verdict = None
  /\ violations = <<>>

-----------------------------------------------------------------------------
(* validateAllowlist *)

InvalidEntry ==
  /\ phase = "validate" /\ i <= Len(entries)
  /\ ~ Valid(Normalize(entries[i]))
  /\ Reject("invalid")
  /\ UNCHANGED <<entries, seen, resolved>>

RepeatedEntry ==
  /\ phase = "validate" /\ i <= Len(entries)
  /\ Valid(Normalize(entries[i]))
  /\ Normalize(entries[i]) \in seen
  /\ Reject("duplicate")
  /\ UNCHANGED <<entries, seen, resolved>>

KeepEntry ==
  /\ phase = "validate" /\ i <= Len(entries)
  /\ LET selector == Normalize(entries[i]) IN
       /\ Valid(selector) /\ selector \notin seen
       /\ entries' = [entries EXCEPT ![i] = selector]
       /\ seen' = seen \cup {selector}
  /\ i' = i + 1
  /\ UNCHANGED <<raw, findings, phase, available, matches, resolved, verdict,
                 violations>>

EndValidation ==
  /\ phase = "validate" /\ i > Len(entries)
  /\ phase' = "index" /\ i' = 1
  /\ UNCHANGED <<raw, entries, findings, seen, available, matches, resolved,
                 verdict, violations>>

-----------------------------------------------------------------------------
(* resolveAllowlistIndex *)

\* Variant: a finding replaces the one indexed before it under its key.
IndexLastFinding ==
  /\ phase = "index" /\ i <= Len(findings)
  /\ available' = available \cup {findings[i]}
  /\ matches' = [matches EXCEPT ![findings[i].key] = <<findings[i]>>]
  /\ i' = i + 1
  /\ UNCHANGED <<raw, entries, findings, phase, seen, resolved, verdict, violations>>

IndexFinding ==
  /\ phase = "index" /\ i <= Len(findings)
  /\ available' = available \cup {findings[i]}
  /\ matches' = [matches EXCEPT ![findings[i].key] = Append(@, findings[i])]
  /\ i' = i + 1
  /\ UNCHANGED <<raw, entries, findings, phase, seen, resolved, verdict, violations>>

EndIndex ==
  /\ phase = "index" /\ i > Len(findings)
  /\ phase' = "resolve" /\ i' = 1
  /\ UNCHANGED <<raw, entries, findings, seen, available, matches, resolved,
                 verdict, violations>>

\* The findings that entry i names: itself, or all that share its key.
Named(selector) ==
  IF HasPosition(selector)
  THEN IF selector \in available THEN <<selector>> ELSE <<>>
  ELSE matches[selector.key]

UnresolvedEntry ==
  /\ phase = "resolve" /\ i <= Len(entries)
  /\ Len(Named(entries[i])) = 0
  /\ Reject("unresolved")
  /\ UNCHANGED <<entries, seen, resolved>>

AmbiguousEntry ==
  /\ phase = "resolve" /\ i <= Len(entries)
  /\ Len(Named(entries[i])) > 1
  /\ Reject("ambiguous")
  /\ UNCHANGED <<entries, seen, resolved>>

Taken(id) == \E j \in 1 .. Len(resolved) : resolved[j] = id

\* Two spellings of one finding: a legacy selector and a full one.
TakenEntry ==
  /\ phase = "resolve" /\ i <= Len(entries)
  /\ Len(Named(entries[i])) = 1 /\ Taken(Named(entries[i])[1])
  /\ Reject("duplicate")
  /\ UNCHANGED <<entries, seen, resolved>>

\* Variant: resolvedEntries is not consulted, and among several matches the
\* first is taken.
ResolveEntryLoosely ==
  /\ phase = "resolve" /\ i <= Len(entries)
  /\ Len(Named(entries[i])) >= 1
  /\ resolved' = Append(resolved, Named(entries[i])[1])
  /\ i' = i + 1
  /\ UNCHANGED <<raw, entries, findings, phase, seen, available, matches,
                 verdict, violations>>

ResolveEntry ==
  /\ phase = "resolve" /\ i <= Len(entries)
  /\ Len(Named(entries[i])) = 1 /\ ~ Taken(Named(entries[i])[1])
  /\ resolved' = Append(resolved, Named(entries[i])[1])
  /\ i' = i + 1
  /\ UNCHANGED <<raw, entries, findings, phase, seen, available, matches,
                 verdict, violations>>

Accept ==
  /\ phase = "resolve" /\ i > Len(entries)
  /\ phase' = "filter" /\ i' = 1
  /\ UNCHANGED <<raw, entries, findings, seen, available, matches, resolved,
                 verdict, violations>>

-----------------------------------------------------------------------------
(* violationsFromFindings *)

\* Variant: an entry allows every finding with its path, owner and category.
SkippedByKey(f) ==
  \/ f \in Suppressed
  \/ \E j \in 1 .. Len(resolved) : resolved[j].key = f.key

Skipped(f) == f \in Suppressed \/ Taken(f)

Filter ==
  /\ phase = "filter" /\ i <= Len(findings)
  /\ violations' = IF Skipped(findings[i]) THEN violations
                   ELSE Append(violations, findings[i])
  /\ i' = i + 1
  /\ UNCHANGED <<raw, entries, findings, phase, seen, available, matches,
                 resolved, verdict>>

Finish ==
  /\ phase = "filter" /\ i > Len(findings)
  /\ phase' = "accepted"
  /\ UNCHANGED <<raw, entries, findings, i, seen, available, matches, resolved,
                 verdict, violations>>

Next ==
  \/ InvalidEntry \/ RepeatedEntry \/ KeepEntry \/ EndValidation
  \/ IndexFinding \/ EndIndex
  \/ UnresolvedEntry \/ AmbiguousEntry \/ TakenEntry \/ ResolveEntry \/ Accept
  \/ Filter \/ Finish

Spec == Init /\ [][Next]_vars

-----------------------------------------------------------------------------
(* Properties *)

TypeOK ==
  /\ raw \in Seq(RawSelectors) /\ findings \in Seq(Findings)
  /\ entries \in Seq(RawSelectors \cup Identities) /\ Len(entries) = Len(raw)
  /\ phase \in {"validate", "index", "resolve", "filter", "accepted", "rejected"}
  /\ i \in Nat \ {0}
  /\ seen \subseteq Identities /\ available \subseteq Findings
  /\ matches \in [Keys -> Seq(Findings)]
  /\ resolved \in Seq(Findings)
  /\ violations \in Seq(Findings)

\* Entry j, as the file spells it, names the finding f.
Names(j, f) ==
  LET selector == Normalize(raw[j]) IN
    IF HasPosition(selector) THEN f = selector ELSE f.key = selector.key

Entry == 1 .. Len(raw)
Found == 1 .. Len(findings)

\* In an accepted allowlist every entry is one exception for one finding: it
\* names some collected identity and no other, and no other entry names it.
OneFindingPerEntry ==
  phase = "accepted" =>
    \A j \in Entry : \E n \in Found :
      /\ Names(j, findings[n])
      /\ \A m \in Found : Names(j, findings[m]) => findings[m] = findings[n]
      /\ \A k \in Entry : Names(k, findings[n]) => k = j

\* What is reported is what no nolint and no entry covers: nothing is dropped
\* and nothing that has an exception is reported.
ReportsTheRest ==
  phase = "accepted" =>
    /\ \A n \in Found :
         (\E m \in 1 .. Len(violations) : violations[m] = findings[n]) <=>
           findings[n] \notin Suppressed /\ \A j \in Entry : ~ Names(j, findings[n])
    /\ \A m \in 1 .. Len(violations) : \E n \in Found : violations[m] = findings[n]

(* The verdict by the rules of README.md:104-113, over the identities of   *)
(* the findings: an entry breaks a rule by itself or with one before it.    *)

Refused(j) ==
  \/ ~ Valid(Normalize(raw[j]))
  \/ \E k \in 1 .. j - 1 : Normalize(raw[k]) = Normalize(raw[j])

Matching(j) == {n \in Found : Names(j, findings[n])}

Unresolvable(j) ==
  \/ Matching(j) = {}
  \/ \E m, n \in Matching(j) : findings[m] # findings[n]
  \/ \E k \in 1 .. j - 1 : Matching(j) \cap Matching(k) # {}

\* No rule: the one identity an entry without position names was collected
\* more than once, under roots that overlap.  The code refuses the entry
\* although its triple resolves to exactly one identity (README.md:112, 171);
\* the run of MCRepoWalkDocumented.cfg shows how such findings arise.
CountedTwice(j) ==
  /\ ~ HasPosition(Normalize(raw[j]))
  /\ \E m, n \in Matching(j) : m # n

IsFirst(j, S) == j \in S /\ \A k \in S : j <= k

\* An allowlist that breaks a rule is never accepted, and one that breaks none
\* is, but for entries CountedTwice; the entry reported is the first to break
\* one, all rules of validateAllowlist before any of resolveAllowlistIndex.
VerdictByTheRules ==
  LET refused == {j \in Entry : Refused(j)}
      unresolvable == {j \in Entry : Unresolvable(j)}
      counted == {j \in Entry : CountedTwice(j)}
  IN  /\ phase = "accepted" => refused = {} /\ unresolvable = {}
      /\ phase = "rejected" =>
           IF refused # {} THEN IsFirst(verdict.entry, refused)
           ELSE IsFirst(verdict.entry, unresolvable \cup counted)

=============================================================================
