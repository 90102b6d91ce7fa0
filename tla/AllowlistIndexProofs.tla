------------------------ MODULE AllowlistIndexProofs ------------------------
(***************************************************************************)
(* For every allowlist and every list of findings: an accepted allowlist   *)
(* is a one-to-one naming of findings, what is reported is the rest, and   *)
(* an allowlist is refused at the first entry that breaks a rule, or names *)
(* a finding collected twice.                                              *)
(*                                                                         *)
(* IInv follows the loops.  Checked: the entries before the index are      *)
(* normalised and valid.  Indexed: legacyMatches holds, of the findings    *)
(* before the index, none, the only identity or several of a key.          *)
(* Chosen: what an entry resolved to is the only identity it names.        *)
(* Filtered: the findings before the index are reported or skipped.        *)
(***************************************************************************)
EXTENDS AllowlistIndex, SequenceTheorems, TLAPS

Resolving == {"resolve", "filter", "accepted"}

HasChecked(j) ==
  \/ phase = "validate" /\ j < i
  \/ phase \in {"index"} \cup Resolving

HasIndexed(n) ==
  \/ phase = "index" /\ n < i
  \/ phase \in Resolving

HasFiltered(n) ==
  \/ phase = "filter" /\ n < i
  \/ phase = "accepted"

Checked ==
  \A j \in Entry :
    /\ HasChecked(j) => entries[j] = Normalize(raw[j]) /\ Valid(entries[j])
    /\ phase = "validate" /\ j >= i => entries[j] = raw[j]

Available ==
  /\ \A n \in Found : HasIndexed(n) => findings[n] \in available
  /\ \A id \in available : \E n \in Found : findings[n] = id

Indexed ==
  \A k \in Keys :
    /\ \A m \in 1 .. Len(matches[k]) :
         matches[k][m].key = k /\ \E n \in Found : findings[n] = matches[k][m]
    /\ \A n \in Found : HasIndexed(n) /\ findings[n].key = k =>
         /\ Len(matches[k]) # 0
         /\ Len(matches[k]) = 1 => findings[n] = matches[k][1]

Counted ==
  /\ phase \in {"validate", "index"} => resolved = <<>>
  /\ phase = "resolve" => Len(resolved) = i - 1 /\ i <= Len(raw) + 1
  /\ phase \in {"filter", "accepted"} => Len(resolved) = Len(raw)
  /\ Len(resolved) <= Len(raw)

Chosen ==
  \A j \in 1 .. Len(resolved) :
    /\ \E n \in Found : findings[n] = resolved[j]
    /\ Names(j, resolved[j])
    /\ \A n \in Found : Names(j, findings[n]) => findings[n] = resolved[j]
    /\ \A k \in 1 .. Len(resolved) : resolved[j] = resolved[k] => j = k

Filtered ==
  /\ phase \notin {"filter", "accepted"} => violations = <<>>
  /\ \A n \in Found : HasFiltered(n) =>
       Skipped(findings[n]) \/ \E m \in 1 .. Len(violations) : violations[m] = findings[n]
  /\ \A m \in 1 .. Len(violations) :
       /\ ~ Skipped(violations[m])
       /\ \E n \in Found : findings[n] = violations[m]

IInv ==
  /\ TypeOK /\ Checked /\ Available /\ Indexed /\ Counted /\ Chosen /\ Filtered

\* Fields of a normalised selector; a key that is present is a known key.
LEMMA Normalized ==
  ASSUME NEW s \in RawSelectors
  PROVE  /\ Normalize(s) = [key |-> KeyOf[s.key], line |-> s.line, column |-> s.column]
         /\ Normalize(s).key = KeyOf[s.key]
         /\ Valid(Normalize(s)) => Normalize(s) \in Identities /\ Normalize(s).key \in Keys
<1>1. Normalize(s) = [key |-> KeyOf[s.key], line |-> s.line, column |-> s.column]
  BY DEF Normalize, RawSelectors
<1>2. KeyOf[s.key] \in Keys \cup {None} /\ s.line \in Int /\ s.column \in Int
  BY KeyAssumption DEF RawSelectors
<1>3. QED
  BY <1>1, <1>2 DEF Valid, Identities

\* Before any step of the loops.
LEMMA InitIInv == Init => IInv
<1> SUFFICES ASSUME Init PROVE IInv
  OBVIOUS
<1>1. raw \in Seq(RawSelectors) /\ findings \in Seq(Findings)
  BY InputAssumption DEF Init
<1>2. TypeOK
  BY <1>1 DEF Init, TypeOK
<1>3. Checked /\ Available /\ Indexed /\ Counted /\ Chosen /\ Filtered
  BY <1>1 DEF Init, Checked, HasChecked, Available, HasIndexed, Indexed, Counted,
     Chosen, Filtered, HasFiltered, Resolving, Entry, Found
<1>4. QED
  BY <1>2, <1>3 DEF IInv

\* An entry that names exactly one finding by its position or its key.
LEMMA ResolveNamed ==
  ASSUME IInv, phase = "resolve", i <= Len(entries), Len(Named(entries[i])) = 1
  PROVE  LET id == Named(entries[i])[1] IN
           /\ Named(entries[i]) \in Seq(Findings) /\ id \in Findings
           /\ \E n \in Found : findings[n] = id
           /\ Names(i, id)
           /\ \A n \in Found : Names(i, findings[n]) => findings[n] = id
<1> USE DEF IInv, TypeOK
<1> DEFINE selector == entries[i]
           id == Named(selector)[1]
<1>1. i \in Entry /\ phase = "resolve" /\ Len(Named(selector)) = 1
  BY DEF Entry
<1>2. raw[i] \in RawSelectors /\ selector = Normalize(raw[i]) /\ Valid(selector)
  BY <1>1, ElementOfSeq DEF Checked, HasChecked, Resolving, Entry
<1>3. selector \in Identities /\ selector.key \in Keys
  BY <1>2, Normalized
<1>4. CASE HasPosition(selector)
  <2>1. selector \in available /\ Named(selector) = <<selector>>
    BY <1>1, <1>4 DEF Named
  <2>2. id = selector /\ selector \in Findings
    BY <2>1
  <2>3. Named(selector) \in Seq(Findings)
    BY <2>1, <2>2
  <2>4. \E n \in Found : findings[n] = selector
    BY <2>1 DEF Available
  <2>5. \A f : Names(i, f) <=> f = selector
    BY <1>2, <1>4 DEF Names
  <2>6. QED
    BY <2>2, <2>3, <2>4, <2>5
<1>5. CASE ~ HasPosition(selector)
  <2>1. Named(selector) = matches[selector.key] /\ id = matches[selector.key][1]
    BY <1>5 DEF Named
  <2>2. Named(selector) \in Seq(Findings) /\ id \in Findings
    BY <1>1, <1>3, <2>1, ElementOfSeq
  <2>3. id.key = selector.key /\ \E n \in Found : findings[n] = id
    BY <1>1, <1>3, <2>1 DEF Indexed
  <2>4. \A n \in Found : findings[n].key = selector.key => findings[n] = id
    BY <1>1, <1>3, <2>1 DEF Indexed, HasIndexed, Resolving
  <2>5. QED
    BY <1>2, <1>5, <2>2, <2>3, <2>4 DEF Names
<1>6. QED
  BY <1>4, <1>5

\* A refused allowlist: no later loop runs.
LEMMA RejectStep ==
  ASSUME NEW reason, IInv, phase \in {"validate", "resolve"}, Reject(reason),
         UNCHANGED <<entries, seen, resolved>>
  PROVE  IInv'
<1> USE DEF IInv, TypeOK, Reject, Resolving
<1>1. TypeOK'
  OBVIOUS
<1>2. Checked'
  BY DEF Checked, HasChecked, Entry
<1>3. Available'
  BY DEF Available, HasIndexed, Found
<1>4. Indexed'
  BY DEF Indexed, HasIndexed, Found
<1>5. Counted'
  BY DEF Counted
<1>6. Chosen'
  BY DEF Chosen, Names, Found
<1>7. Filtered'
  BY DEF Filtered, HasFiltered, Skipped, Taken, Found
<1>8. QED
  BY <1>1, <1>2, <1>3, <1>4, <1>5, <1>6, <1>7

\* A valid, new selector is normalised in place.
LEMMA KeepEntryStep == IInv /\ KeepEntry => IInv'
<1> SUFFICES ASSUME IInv, KeepEntry PROVE IInv'
  OBVIOUS
<1> USE DEF IInv, TypeOK, KeepEntry, Resolving
<1>1. TypeOK'
  <2> DEFINE selector == Normalize(entries[i])
  <2>1. i \in Entry /\ i \in 1 .. Len(entries)
    BY DEF Entry
  <2>2. entries[i] = raw[i] /\ raw[i] \in RawSelectors
    BY <2>1, ElementOfSeq DEF Checked
  <2>3. selector \in Identities
    BY <2>2, Normalized
  <2>4. entries' = [entries EXCEPT ![i] = selector]
    OBVIOUS
  <2>5. entries \in Seq(RawSelectors \cup Identities)
    OBVIOUS
  <2>6. selector \in RawSelectors \cup Identities
    BY <2>3
  <2>7. entries' \in Seq(RawSelectors \cup Identities) /\ Len(entries') = Len(entries)
    <3> HIDE DEF selector, IInv, TypeOK, KeepEntry
    <3> QED BY <2>1, <2>4, <2>5, <2>6, ExceptSeq
  <2>8. QED
    BY <2>3, <2>7
<1>2. Checked'
  BY DEF Checked, HasChecked, Entry
<1>3. Available'
  BY DEF Available, HasIndexed, Found
<1>4. Indexed'
  BY DEF Indexed, HasIndexed, Found
<1>5. Counted'
  BY DEF Counted
<1>6. Chosen'
  BY DEF Chosen, Names, Found
<1>7. Filtered'
  BY DEF Filtered, HasFiltered, Skipped, Taken, Found
<1>8. QED
  BY <1>1, <1>2, <1>3, <1>4, <1>5, <1>6, <1>7

\* All selectors are normalised and valid.
LEMMA EndValidationStep == IInv /\ EndValidation => IInv'
<1> SUFFICES ASSUME IInv, EndValidation PROVE IInv'
  OBVIOUS
<1> USE DEF IInv, TypeOK, EndValidation, Resolving
<1>1. TypeOK'
  OBVIOUS
<1>2. Checked'
  BY DEF Checked, HasChecked, Entry
<1>3. Available'
  BY DEF Available, HasIndexed, Found
<1>4. Indexed'
  BY DEF Indexed, HasIndexed, Found
<1>5. Counted'
  BY DEF Counted
<1>6. Chosen'
  BY DEF Chosen, Names, Found
<1>7. Filtered'
  BY DEF Filtered, HasFiltered, Skipped, Taken, Found
<1>8. QED
  BY <1>1, <1>2, <1>3, <1>4, <1>5, <1>6, <1>7

\* A finding enters legacyMatches.
LEMMA IndexFindingStep == IInv /\ IndexFinding => IInv'
<1> SUFFICES ASSUME IInv, IndexFinding PROVE IInv'
  OBVIOUS
<1> USE DEF IInv, TypeOK, IndexFinding, Resolving
<1>1. TypeOK'
  <2>1. findings[i] \in Findings /\ findings[i].key \in Keys
    BY ElementOfSeq DEF Findings, Identities
  <2>2. Append(matches[findings[i].key], findings[i]) \in Seq(Findings)
    BY <2>1, AppendProperties
  <2>3. matches' \in [Keys -> Seq(Findings)]
    BY <2>1, <2>2
  <2>4. QED
    BY <2>1, <2>3
<1>2. Checked'
  BY DEF Checked, HasChecked, Entry
<1>3. Available'
  BY DEF Available, HasIndexed, Found
<1>4. Indexed'
  <2> SUFFICES ASSUME NEW k \in Keys
               PROVE  /\ \A m \in 1 .. Len(matches'[k]) :
                           /\ matches'[k][m].key = k
                           /\ \E n \in Found : findings[n] = matches'[k][m]
                      /\ \A n \in Found : HasIndexed(n)' /\ findings[n].key = k =>
                           /\ Len(matches'[k]) # 0
                           /\ Len(matches'[k]) = 1 => findings[n] = matches'[k][1]
    BY SMTT(30) DEF Indexed, Found
  <2> DEFINE f == findings[i]
  <2>1. i \in Found /\ f \in Findings /\ f.key \in Keys
    BY ElementOfSeq DEF Findings, Identities, Found
  <2>2. \A n \in Found : HasIndexed(n)' <=> HasIndexed(n) \/ n = i
    BY <2>1 DEF HasIndexed, Found
  <2>3. CASE k = f.key
    <3> DEFINE old == matches[k]
    <3>1. old \in Seq(Findings) /\ matches'[k] = Append(old, f)
      BY <2>1, <2>3
    <3>2. /\ Len(matches'[k]) = Len(old) + 1 /\ Len(old) \in Nat
          /\ \A m \in 1 .. Len(old) : matches'[k][m] = old[m]
          /\ matches'[k][Len(old) + 1] = f
      BY <2>1, <3>1, AppendProperties, LenProperties
    <3>3. ASSUME NEW m \in 1 .. Len(matches'[k])
          PROVE  matches'[k][m].key = k /\ \E n \in Found : findings[n] = matches'[k][m]
      <4>1. CASE m = Len(old) + 1
        BY <2>1, <2>3, <3>2, <4>1
      <4>2. CASE m \in 1 .. Len(old)
        BY <3>2, <4>2 DEF Indexed
      <4>3. QED
        BY <3>2, <4>1, <4>2
    <3>4. ASSUME NEW n \in Found, HasIndexed(n)', findings[n].key = k
          PROVE  /\ Len(matches'[k]) # 0
                 /\ Len(matches'[k]) = 1 => findings[n] = matches'[k][1]
      <4>1. CASE n = i
        BY <3>2, <4>1
      <4>2. CASE HasIndexed(n)
        BY <3>2, <3>4, <4>2 DEF Indexed
      <4>3. QED
        BY <2>2, <3>4, <4>1, <4>2
    <3>5. QED
      BY <3>3, <3>4
  <2>4. CASE k # f.key
    <3>1. matches'[k] = matches[k]
      BY <2>1, <2>4
    <3>2. QED
      BY <2>2, <2>4, <3>1 DEF Indexed
  <2>5. QED
    BY <2>3, <2>4
<1>5. Counted'
  BY DEF Counted
<1>6. Chosen'
  BY DEF Chosen, Names, Found
<1>7. Filtered'
  BY DEF Filtered, HasFiltered, Skipped, Taken, Found
<1>8. QED
  BY <1>1, <1>2, <1>3, <1>4, <1>5, <1>6, <1>7

\* All findings are indexed.
LEMMA EndIndexStep == IInv /\ EndIndex => IInv'
<1> SUFFICES ASSUME IInv, EndIndex PROVE IInv'
  OBVIOUS
<1> USE DEF IInv, TypeOK, EndIndex, Resolving
<1>1. TypeOK'
  OBVIOUS
<1>2. Checked'
  BY DEF Checked, HasChecked, Entry
<1>3. Available'
  BY DEF Available, HasIndexed, Found
<1>4. Indexed'
  BY DEF Indexed, HasIndexed, Found
<1>5. Counted'
  BY DEF Counted
<1>6. Chosen'
  BY DEF Chosen, Names, Found
<1>7. Filtered'
  BY DEF Filtered, HasFiltered, Skipped, Taken, Found
<1>8. QED
  BY <1>1, <1>2, <1>3, <1>4, <1>5, <1>6, <1>7

\* An entry resolves to the only identity it names.
LEMMA ResolveEntryStep == IInv /\ ResolveEntry => IInv'
<1> SUFFICES ASSUME IInv, ResolveEntry PROVE IInv'
  OBVIOUS
<1> USE DEF IInv, TypeOK, ResolveEntry, Resolving
<1>1. TypeOK'
  <2>1. Named(entries[i]) \in Seq(Findings)
    BY ResolveNamed
  <2>2. Append(resolved, Named(entries[i])[1]) \in Seq(Findings)
    BY <2>1, AppendProperties, ElementOfSeq
  <2>3. QED
    BY <2>2
<1>2. Checked'
  BY DEF Checked, HasChecked, Entry
<1>3. Available'
  BY DEF Available, HasIndexed, Found
<1>4. Indexed'
  BY DEF Indexed, HasIndexed, Found
<1>5. Counted'
  BY DEF Counted
<1>6. Chosen'
  <2> DEFINE id == Named(entries[i])[1]
  <2>1. /\ Named(entries[i]) \in Seq(Findings) /\ id \in Findings
        /\ \E n \in Found : findings[n] = id
        /\ Names(i, id)
        /\ \A n \in Found : Names(i, findings[n]) => findings[n] = id
    BY ResolveNamed
  <2>2. /\ Len(resolved') = Len(resolved) + 1 /\ Len(resolved) + 1 = i
        /\ \A j \in 1 .. Len(resolved) : resolved'[j] = resolved[j]
        /\ resolved'[i] = id
    BY <2>1, AppendProperties DEF Counted
  <2>3. \A j \in 1 .. Len(resolved) : resolved[j] # id
    BY DEF Taken
  <2>4. ASSUME NEW j \in 1 .. Len(resolved')
        PROVE  /\ \E n \in Found : findings[n] = resolved'[j]
               /\ Names(j, resolved'[j])
               /\ \A n \in Found : Names(j, findings[n]) => findings[n] = resolved'[j]
    <3>1. CASE j = i
      BY <2>1, <2>2, <3>1
    <3>2. CASE j \in 1 .. Len(resolved)
      <4>1. resolved'[j] = resolved[j]
        BY <2>2, <3>2
      <4>2. /\ \E n \in Found : findings[n] = resolved[j]
            /\ Names(j, resolved[j])
            /\ \A n \in Found : Names(j, findings[n]) => findings[n] = resolved[j]
        BY <3>2 DEF Chosen
      <4>3. QED
        BY <4>1, <4>2
    <3>3. QED
      BY <2>2, <3>1, <3>2
  <2>5. \A j, k \in 1 .. Len(resolved') : resolved'[j] = resolved'[k] => j = k
    BY <2>2, <2>3 DEF Chosen
  <2>6. QED
    BY <2>4, <2>5 DEF Chosen, Found, Names
<1>7. Filtered'
  BY DEF Filtered, HasFiltered, Skipped, Taken, Found
<1>8. QED
  BY <1>1, <1>2, <1>3, <1>4, <1>5, <1>6, <1>7

\* All entries are resolved.
LEMMA AcceptStep == IInv /\ Accept => IInv'
<1> SUFFICES ASSUME IInv, Accept PROVE IInv'
  OBVIOUS
<1> USE DEF IInv, TypeOK, Accept, Resolving
<1>1. TypeOK'
  OBVIOUS
<1>2. Checked'
  BY DEF Checked, HasChecked, Entry
<1>3. Available'
  BY DEF Available, HasIndexed, Found
<1>4. Indexed'
  BY DEF Indexed, HasIndexed, Found
<1>5. Counted'
  BY DEF Counted
<1>6. Chosen'
  BY DEF Chosen, Names, Found
<1>7. Filtered'
  BY DEF Filtered, HasFiltered, Skipped, Taken, Found
<1>8. QED
  BY <1>1, <1>2, <1>3, <1>4, <1>5, <1>6, <1>7

\* A finding is reported or skipped.
LEMMA FilterStep == IInv /\ Filter => IInv'
<1> SUFFICES ASSUME IInv, Filter PROVE IInv'
  OBVIOUS
<1> USE DEF IInv, TypeOK, Filter, Resolving
<1>1. TypeOK'
  OBVIOUS
<1>2. Checked'
  BY DEF Checked, HasChecked, Entry
<1>3. Available'
  BY DEF Available, HasIndexed, Found
<1>4. Indexed'
  BY DEF Indexed, HasIndexed, Found
<1>5. Counted'
  BY DEF Counted
<1>6. Chosen'
  BY DEF Chosen, Names, Found
<1>7. Filtered'
  <2> DEFINE f == findings[i]
  <2>1. i \in Found /\ f \in Findings
    BY ElementOfSeq DEF Found
  <2>2. \A g : Skipped(g)' <=> Skipped(g)
    BY DEF Skipped, Taken
  <2>3. \A n \in Found : HasFiltered(n)' => HasFiltered(n) \/ n = i
    BY DEF HasFiltered, Found
  <2>4. CASE Skipped(f)
    BY <2>1, <2>2, <2>3, <2>4 DEF Filtered, Found
  <2>5. CASE ~ Skipped(f)
    <3>1. /\ Len(violations') = Len(violations) + 1 /\ Len(violations) \in Nat
          /\ \A m \in 1 .. Len(violations) : violations'[m] = violations[m]
          /\ violations'[Len(violations) + 1] = f
      BY <2>1, <2>5, AppendProperties, LenProperties
    <3>2. /\ Filtered /\ Len(violations') \in Nat /\ f = findings[i]
          /\ phase' = "filter" /\ findings' = findings
      BY <3>1
    <3> HIDE DEF IInv, TypeOK, Filter, Resolving, f
    <3>3. ASSUME NEW n \in Found, HasFiltered(n)'
          PROVE  \/ Skipped(findings[n])
                 \/ \E m \in 1 .. Len(violations') : violations'[m] = findings[n]
      <4>1. CASE n = i
        BY <3>1, <3>2, <4>1
      <4>2. CASE HasFiltered(n)
        BY <3>1, <3>2, <4>2 DEF Filtered
      <4>3. QED
        BY <2>3, <3>3, <4>1, <4>2
    <3>4. ASSUME NEW m \in 1 .. Len(violations')
          PROVE  /\ ~ Skipped(violations'[m])
                 /\ \E n \in Found : findings[n] = violations'[m]
      <4>1. CASE m = Len(violations) + 1
        BY <2>1, <2>5, <3>1, <3>2, <4>1
      <4>2. CASE m \in 1 .. Len(violations)
        BY <3>1, <3>2, <4>2 DEF Filtered
      <4>3. QED
        BY <3>1, <4>1, <4>2
    <3>5. QED
      BY <2>2, <3>1, <3>3, <3>4, <3>2 DEF Filtered, Found
  <2>6. QED
    BY <2>4, <2>5
<1>8. QED
  BY <1>1, <1>2, <1>3, <1>4, <1>5, <1>6, <1>7

\* All findings are filtered.
LEMMA FinishStep == IInv /\ Finish => IInv'
<1> SUFFICES ASSUME IInv, Finish PROVE IInv'
  OBVIOUS
<1> USE DEF IInv, TypeOK, Finish, Resolving
<1>1. TypeOK'
  OBVIOUS
<1>2. Checked'
  BY DEF Checked, HasChecked, Entry
<1>3. Available'
  BY DEF Available, HasIndexed, Found
<1>4. Indexed'
  BY DEF Indexed, HasIndexed, Found
<1>5. Counted'
  BY DEF Counted
<1>6. Chosen'
  BY DEF Chosen, Names, Found
<1>7. Filtered'
  BY DEF Filtered, HasFiltered, Skipped, Taken, Found
<1>8. QED
  BY <1>1, <1>2, <1>3, <1>4, <1>5, <1>6, <1>7

\* Every step of the loops keeps the invariant.
LEMMA NextStep == IInv /\ [Next]_vars => IInv'
<1> SUFFICES ASSUME IInv, [Next]_vars PROVE IInv'
  OBVIOUS
<1>1. CASE UNCHANGED vars
  BY <1>1 DEF vars, IInv, TypeOK, Checked, HasChecked, Available, HasIndexed,
     Indexed, Counted, Chosen, Names, Filtered, HasFiltered, Skipped, Taken,
     Entry, Found
<1>2. CASE InvalidEntry \/ RepeatedEntry \/ UnresolvedEntry \/ AmbiguousEntry
             \/ TakenEntry
  BY <1>2, RejectStep
  DEF InvalidEntry, RepeatedEntry, UnresolvedEntry, AmbiguousEntry, TakenEntry
<1>3. CASE KeepEntry \/ EndValidation \/ IndexFinding \/ EndIndex
  BY <1>3, KeepEntryStep, EndValidationStep, IndexFindingStep, EndIndexStep
<1>4. CASE ResolveEntry \/ Accept \/ Filter \/ Finish
  BY <1>4, ResolveEntryStep, AcceptStep, FilterStep, FinishStep
<1>5. QED
  BY <1>1, <1>2, <1>3, <1>4 DEF Next

\* The invariant holds in every state of the loops.
THEOREM Invariance == Spec => []IInv
  BY InitIInv, NextStep, PTL DEF Spec

\* Every state of the loops over entries, findings and selectors is well
\* typed, which is the first conjunct of the invariant.
THEOREM TypeCorrect == Spec => []TypeOK
<1>1. IInv => TypeOK
  BY DEF IInv
<1>2. QED
  BY <1>1, Invariance, PTL

\* In an accepted allowlist every entry names one collected identity, which no
\* other entry names.
THEOREM EntriesAreFindings == Spec => []OneFindingPerEntry
<1>1. IInv => OneFindingPerEntry
  <2> SUFFICES ASSUME IInv, phase = "accepted", NEW j \in Entry
               PROVE  \E n \in Found :
                        /\ Names(j, findings[n])
                        /\ \A m \in Found : Names(j, findings[m]) => findings[m] = findings[n]
                        /\ \A k \in Entry : Names(k, findings[n]) => k = j
    BY DEF OneFindingPerEntry
  <2>1. Entry = 1 .. Len(resolved)
    BY DEF IInv, Counted, Entry
  <2>2. PICK n \in Found : findings[n] = resolved[j]
    BY <2>1 DEF IInv, Chosen
  <2>3. \A k \in Entry : Names(k, findings[n]) => k = j
    BY <2>1, <2>2 DEF IInv, Chosen
  <2>4. QED
    BY <2>1, <2>2, <2>3 DEF IInv, Chosen
<1>2. QED
  BY <1>1, Invariance, PTL

\* What is reported is what no nolint and no entry covers.
THEOREM TheRestIsReported == Spec => []ReportsTheRest
<1>1. IInv => ReportsTheRest
  <2> SUFFICES ASSUME IInv, phase = "accepted" PROVE ReportsTheRest
    BY DEF ReportsTheRest
  <2>1. Entry = 1 .. Len(resolved)
    BY DEF IInv, Counted, Entry
  <2>2. \A n \in Found : Taken(findings[n]) <=> \E j \in Entry : Names(j, findings[n])
    BY <2>1 DEF Taken, IInv, Chosen
  <2>3. \A n \in Found :
          (\E m \in 1 .. Len(violations) : violations[m] = findings[n]) <=>
            ~ Skipped(findings[n])
    BY DEF IInv, Filtered, HasFiltered
  <2>4. \A m \in 1 .. Len(violations) : \E n \in Found : violations[m] = findings[n]
    BY DEF IInv, Filtered
  <2>5. QED
    BY <2>2, <2>3, <2>4 DEF ReportsTheRest, Skipped
<1>2. QED
  BY <1>1, Invariance, PTL

-----------------------------------------------------------------------------
(* The verdict.  Next to IInv the loops keep what the rules say of the       *)
(* entries they have passed.                                                 *)

Several(S) == \E m, n \in S : m # n

\* resolveAllowlistIndex stops at an entry that names no finding of the list, or
\* several without a position, or one that an entry before it names.
Stopped(j) ==
  \/ Matching(j) = {}
  \/ ~ HasPosition(Normalize(raw[j])) /\ Several(Matching(j))
  \/ \E k \in 1 .. j - 1 : Matching(j) \cap Matching(k) # {}

VerdictByPosition ==
  LET refused == {j \in Entry : Refused(j)}
      stopped == {j \in Entry : Stopped(j)}
  IN  /\ phase = "accepted" => refused = {} /\ stopped = {}
      /\ phase = "rejected" =>
           IF refused # {} THEN IsFirst(verdict.entry, refused)
           ELSE IsFirst(verdict.entry, stopped)

IndexedWith(k) == {n \in Found : HasIndexed(n) /\ findings[n].key = k}

\* legacyMatches holds several findings of a key when several were collected.
Multiple ==
  phase # "rejected" => \A k \in Keys :
    /\ Len(matches[k]) # 0 => IndexedWith(k) # {}
    /\ Len(matches[k]) > 1 <=> Several(IndexedWith(k))

\* seenSelectors holds the entries before the index, as they are normalised.
Looked ==
  phase = "validate" =>
    /\ i <= Len(raw) + 1
    /\ seen = {Normalize(raw[k]) : k \in 1 .. i - 1}

\* The entries passed break no rule.
Passed ==
  /\ \A j \in Entry : HasChecked(j) => ~ Refused(j)
  /\ \A j \in 1 .. Len(resolved) : ~ Stopped(j)

JInv == Multiple /\ Looked /\ Passed /\ VerdictByPosition

\* Before any step no entry has been passed.
LEMMA InitJInv == Init => JInv
<1> SUFFICES ASSUME Init PROVE JInv
  OBVIOUS
<1>1. raw \in Seq(RawSelectors) /\ findings \in Seq(Findings) /\ phase = "validate" /\ i = 1
  BY InputAssumption DEF Init
<1>2. Multiple
  <2>1. \A k \in Keys : matches[k] = <<>>
    BY DEF Init
  <2>2. \A n : ~ HasIndexed(n)
    BY <1>1 DEF HasIndexed, Resolving
  <2>3. ASSUME NEW k \in Keys
        PROVE  /\ Len(matches[k]) # 0 => IndexedWith(k) # {}
               /\ Len(matches[k]) > 1 <=> Several(IndexedWith(k))
    <3>1. Len(matches[k]) = 0
      BY <2>1
    <3>2. IndexedWith(k) = {}
      BY <2>2 DEF IndexedWith
    <3> QED
      BY <3>1, <3>2 DEF Several
  <2> QED
    BY <2>3 DEF Multiple
<1>3. Looked
  BY <1>1 DEF Init, Looked
<1>4. Passed
  BY <1>1 DEF Init, Passed, HasChecked, Resolving, Entry
<1> QED
  BY <1>1, <1>2, <1>3, <1>4 DEF JInv, VerdictByPosition

\* The rules are about the input, which does not change.
LEMMA RulesStay ==
  ASSUME UNCHANGED <<raw, findings>>
  PROVE  /\ Entry' = Entry
         /\ \A j : Refused(j)' <=> Refused(j)
         /\ \A j : Stopped(j)' <=> Stopped(j)
<1>1. Entry' = Entry /\ Found' = Found
  BY DEF Entry, Found
<1>2. \A j : Refused(j)' <=> Refused(j)
  BY DEF Refused
<1>3. \A j : Matching(j)' = Matching(j)
  BY <1>1 DEF Matching, Names
<1>4. \A j : Stopped(j)' <=> Stopped(j)
  BY <1>3 DEF Stopped
<1> QED
  BY <1>1, <1>2, <1>4

\* An entry is refused by validateAllowlist, after others that it kept.
LEMMA RefusedEntryStep == IInv /\ JInv /\ (InvalidEntry \/ RepeatedEntry) => JInv'
<1> SUFFICES ASSUME IInv, JInv, InvalidEntry \/ RepeatedEntry PROVE JInv'
  OBVIOUS
<1>1. /\ phase = "validate" /\ phase' = "rejected" /\ verdict'.entry = i /\ i \in Entry
      /\ UNCHANGED <<raw, findings, resolved>>
  BY DEF InvalidEntry, RepeatedEntry, Reject, IInv, TypeOK, Entry
<1>2. raw[i] = entries[i] /\ Len(raw) \in Nat /\ i \in Nat \ {0}
  <2>1. raw \in Seq(RawSelectors) /\ i \in Nat \ {0} /\ Checked
    BY DEF IInv, TypeOK
  <2> QED
    BY <1>1, <2>1 DEF Checked
<1>3. Refused(i)
  <2>1. CASE InvalidEntry
    BY <1>2, <2>1 DEF InvalidEntry, Refused
  <2>2. CASE RepeatedEntry
    <3>1. Normalize(raw[i]) \in seen
      BY <1>2, <2>2 DEF RepeatedEntry
    <3>2. \E k \in 1 .. i - 1 : Normalize(raw[k]) = Normalize(raw[i])
      BY <1>1, <3>1 DEF JInv, Looked
    <3> QED
      BY <3>2 DEF Refused
  <2> QED
    BY <2>1, <2>2
<1>4. \A j \in Entry : Refused(j) => i <= j
  BY <1>1, <1>2 DEF JInv, Passed, HasChecked, Entry
<1>5. VerdictByPosition'
  BY <1>1, <1>3, <1>4, RulesStay DEF VerdictByPosition, IsFirst
<1>6. Passed'
  BY <1>1, RulesStay DEF JInv, Passed, HasChecked, Resolving
<1> QED
  BY <1>1, <1>5, <1>6 DEF JInv, Multiple, Looked

\* What an entry names, in the list of findings and among those indexed.
LEMMA NamedFacts ==
  ASSUME IInv, Multiple, phase = "resolve", i <= Len(entries)
  PROVE  /\ i \in Entry
         /\ Len(Named(entries[i])) = 0 => Matching(i) = {}
         /\ Len(Named(entries[i])) > 1 =>
              /\ ~ HasPosition(Normalize(raw[i]))
              /\ Several(Matching(i))
         /\ Len(Named(entries[i])) = 1 =>
              \/ HasPosition(Normalize(raw[i]))
              \/ ~ Several(Matching(i))
         /\ Len(Named(entries[i])) \in Nat
<1> DEFINE selector == entries[i]
<1>1. i \in Entry /\ raw \in Seq(RawSelectors)
  BY DEF IInv, TypeOK, Entry
<1>2. raw[i] \in RawSelectors /\ selector = Normalize(raw[i]) /\ Valid(selector)
  BY <1>1, ElementOfSeq DEF IInv, Checked, HasChecked, Resolving, Entry
<1>3. selector \in Identities /\ selector.key \in Keys
  BY <1>2, Normalized
<1>4. \A n \in Found : HasIndexed(n)
  BY DEF HasIndexed, Resolving
<1>5. CASE HasPosition(selector)
  <2>1. Named(selector) = IF selector \in available THEN <<selector>> ELSE <<>>
    BY <1>5 DEF Named
  <2>2. Len(Named(selector)) = 0 \/ Len(Named(selector)) = 1
    BY <2>1
  <2>3. Len(Named(selector)) = 0 => selector \notin available
    BY <2>1
  <2>4. \A n \in Found : Names(i, findings[n]) <=> findings[n] = selector
    BY <1>2, <1>5 DEF Names
  <2>5. Len(Named(selector)) = 0 => Matching(i) = {}
    BY <1>4, <2>3, <2>4 DEF Matching, IInv, Available
  <2>6. HasPosition(Normalize(raw[i]))
    BY <1>2, <1>5
  <2>7. CASE Len(Named(selector)) = 0
    BY <1>1, <2>5, <2>6, <2>7
  <2>8. CASE Len(Named(selector)) = 1
    BY <1>1, <2>6, <2>8
  <2> QED
    BY <2>2, <2>7, <2>8
<1>6. CASE ~ HasPosition(selector)
  <2>1. Named(selector) = matches[selector.key]
    BY <1>6 DEF Named
  <2>2. \A n \in Found : Names(i, findings[n]) <=> findings[n].key = selector.key
    BY <1>2, <1>6 DEF Names
  <2>3. Matching(i) = IndexedWith(selector.key)
    BY <1>4, <2>2 DEF Matching, IndexedWith
  <2>4. matches[selector.key] \in Seq(Findings)
    BY <1>3 DEF IInv, TypeOK
  <2>5. Len(Named(selector)) \in Nat
    BY <2>1, <2>4
  <2>6. Len(Named(selector)) = 0 => Matching(i) = {}
    BY <1>3, <2>1, <2>3 DEF IInv, Indexed, IndexedWith
  <2>7. Len(Named(selector)) > 1 <=> Several(Matching(i))
    BY <1>3, <2>1, <2>3 DEF Multiple
  <2>8. ~ HasPosition(Normalize(raw[i]))
    BY <1>2, <1>6
  <2>9. Len(Named(selector)) = 1 => ~ Several(Matching(i))
    BY <2>5, <2>7
  <2> QED
    BY <1>1, <2>5, <2>6, <2>7, <2>8, <2>9
<1> QED
  BY <1>5, <1>6

\* An entry that names one identity shares it with an earlier entry exactly
\* when that entry was resolved to it.
LEMMA TakenFacts ==
  ASSUME IInv, phase = "resolve", i <= Len(entries), Len(Named(entries[i])) = 1
  PROVE  /\ Matching(i) # {}
         /\ Taken(Named(entries[i])[1]) <=>
              (\E k \in 1 .. i - 1 : Matching(i) \cap Matching(k) # {})
<1> DEFINE id == Named(entries[i])[1]
<1>1. PICK n \in Found : findings[n] = id
  BY ResolveNamed
<1>2. Names(i, id) /\ \A m \in Found : Names(i, findings[m]) => findings[m] = id
  BY ResolveNamed
<1>3. Len(resolved) = i - 1
  BY DEF IInv, Counted
<1> HIDE DEF id
<1>4. n \in Matching(i)
  BY <1>1, <1>2 DEF Matching
<1>5. ASSUME NEW k \in 1 .. Len(resolved), resolved[k] = id
      PROVE  n \in Matching(k)
  BY <1>1, <1>5 DEF IInv, Chosen, Matching
<1>6. ASSUME NEW k \in 1 .. Len(resolved), NEW m \in Matching(i) \cap Matching(k)
      PROVE  resolved[k] = id
  <2>1. m \in Found /\ Names(i, findings[m]) /\ Names(k, findings[m])
    BY <1>6 DEF Matching
  <2>2. findings[m] = id
    BY <1>2, <2>1
  <2>3. findings[m] = resolved[k]
    BY <1>6, <2>1 DEF IInv, Chosen
  <2> QED
    BY <2>2, <2>3
<1> QED
  BY <1>3, <1>4, <1>5, <1>6 DEF Taken, id

\* An entry is refused by resolveAllowlistIndex, after others that it resolved.
LEMMA UnresolvedEntryStep ==
  IInv /\ JInv /\ (UnresolvedEntry \/ AmbiguousEntry \/ TakenEntry) => JInv'
<1> SUFFICES ASSUME IInv, JInv, UnresolvedEntry \/ AmbiguousEntry \/ TakenEntry PROVE JInv'
  OBVIOUS
<1>1. /\ phase = "resolve" /\ phase' = "rejected" /\ verdict'.entry = i
      /\ i <= Len(entries) /\ i \in Nat \ {0}
      /\ UNCHANGED <<raw, findings, resolved>>
  BY DEF UnresolvedEntry, AmbiguousEntry, TakenEntry, Reject, IInv, TypeOK
<1>2. i \in Entry /\ Len(resolved) = i - 1
  BY <1>1 DEF IInv, Counted, TypeOK, Entry
<1>3. Stopped(i)
  <2>1. CASE UnresolvedEntry
    BY <1>1, <2>1, NamedFacts DEF UnresolvedEntry, Stopped, JInv
  <2>2. CASE AmbiguousEntry
    BY <1>1, <2>2, NamedFacts DEF AmbiguousEntry, Stopped, JInv
  <2>3. CASE TakenEntry
    BY <1>1, <2>3, TakenFacts DEF TakenEntry, Stopped
  <2> QED
    BY <2>1, <2>2, <2>3
<1>4. \A j \in Entry : ~ Refused(j)
  BY <1>1 DEF JInv, Passed, HasChecked, Resolving
<1>5. \A j \in Entry : Stopped(j) => i <= j
  BY <1>1, <1>2 DEF JInv, Passed, Entry
<1>6. VerdictByPosition'
  BY <1>1, <1>2, <1>3, <1>4, <1>5, RulesStay DEF VerdictByPosition, IsFirst
<1>7. Passed'
  BY <1>1, RulesStay DEF JInv, Passed, HasChecked, Resolving
<1> QED
  BY <1>1, <1>6, <1>7 DEF JInv, Multiple, Looked

\* An entry that is valid and new is not refused.
LEMMA KeptEntryStep == IInv /\ JInv /\ KeepEntry => JInv'
<1> SUFFICES ASSUME IInv, JInv, KeepEntry PROVE JInv'
  OBVIOUS
<1>1. /\ phase = "validate" /\ phase' = "validate" /\ i' = i + 1 /\ i \in Nat \ {0}
      /\ i <= Len(raw) /\ UNCHANGED <<raw, findings, resolved, matches>>
  BY DEF KeepEntry, IInv, TypeOK
<1>2. Len(raw) \in Nat /\ i \in Entry /\ raw[i] = entries[i]
  BY <1>1 DEF IInv, Checked, Entry, TypeOK
<1>3. ~ Refused(i)
  BY <1>1, <1>2 DEF KeepEntry, Refused, JInv, Looked
<1>4. Passed'
  BY <1>1, <1>2, <1>3, RulesStay DEF JInv, Passed, HasChecked, Resolving, Entry
<1>5. seen' = {Normalize(raw[k]) : k \in 1 .. i' - 1}
  BY <1>1, <1>2 DEF KeepEntry, JInv, Looked
<1>6. Multiple'
  BY <1>1 DEF JInv, Multiple, IndexedWith, HasIndexed, Resolving, Found
<1> QED
  BY <1>1, <1>2, <1>4, <1>5, <1>6 DEF JInv, Looked, VerdictByPosition

\* A finding is indexed: legacyMatches counts as the list of findings does.
LEMMA CountedStep == IInv /\ JInv /\ IndexFinding => JInv'
<1> SUFFICES ASSUME IInv, JInv, IndexFinding PROVE JInv'
  OBVIOUS
<1> DEFINE f == findings[i]
<1>1. /\ phase = "index" /\ phase' = "index" /\ i' = i + 1 /\ i \in Nat \ {0}
      /\ i <= Len(findings) /\ UNCHANGED <<raw, findings, resolved>>
      /\ matches' = [matches EXCEPT ![f.key] = Append(@, f)]
      /\ findings \in Seq(Findings) /\ matches \in [Keys -> Seq(Findings)]
  BY DEF IndexFinding, IInv, TypeOK
<1>2. i \in Found /\ f \in Findings /\ f.key \in Keys
  BY <1>1, ElementOfSeq DEF Findings, Identities, Found
<1> HIDE DEF f
<1>3. Found' = Found /\ \A n \in Found : HasIndexed(n)' <=> HasIndexed(n) \/ n = i
  BY <1>1, <1>2 DEF HasIndexed, Found, Resolving
<1>4. ~ HasIndexed(i)
  BY <1>1 DEF HasIndexed, Resolving
<1>5. ASSUME NEW k \in Keys
      PROVE  /\ Len(matches'[k]) # 0 => IndexedWith(k)' # {}
             /\ Len(matches'[k]) > 1 <=> Several(IndexedWith(k)')
  <2>1. CASE k = f.key
    <3>1. IndexedWith(k)' = IndexedWith(k) \cup {i} /\ i \notin IndexedWith(k)
      BY <1>1, <1>2, <1>3, <1>4, <2>1 DEF IndexedWith, f
    <3>2. matches'[k] = Append(matches[k], f) /\ matches[k] \in Seq(Findings)
      BY <1>1, <2>1
    <3>3. Len(matches'[k]) = Len(matches[k]) + 1 /\ Len(matches[k]) \in Nat
      BY <1>2, <3>2, AppendProperties, LenProperties
    <3>4. Len(matches[k]) # 0 <=> IndexedWith(k) # {}
      BY <1>1, <2>1 DEF JInv, Multiple, IInv, Indexed, IndexedWith
    <3>5. Len(matches'[k]) > 1 <=> IndexedWith(k) # {}
      BY <3>3, <3>4
    <3>6. Several(IndexedWith(k)') <=> IndexedWith(k) # {}
      BY <3>1, <1>1, <1>4 DEF Several, JInv, Multiple
    <3> QED
      BY <3>1, <3>5, <3>6
  <2>2. CASE k # f.key
    <3>1. IndexedWith(k)' = IndexedWith(k)
      BY <1>1, <1>2, <1>3, <2>2 DEF IndexedWith, f
    <3>2. matches'[k] = matches[k]
      BY <1>1, <1>2, <2>2
    <3> QED
      BY <1>1, <3>1, <3>2 DEF JInv, Multiple
  <2> QED
    BY <2>1, <2>2
<1>6. Passed'
  BY <1>1, RulesStay DEF JInv, Passed, HasChecked, Resolving
<1> QED
  BY <1>1, <1>5, <1>6 DEF JInv, Multiple, Looked, VerdictByPosition

\* An entry that is resolved breaks no rule.
LEMMA ResolvedEntryStep == IInv /\ JInv /\ ResolveEntry => JInv'
<1> SUFFICES ASSUME IInv, JInv, ResolveEntry PROVE JInv'
  OBVIOUS
<1>1. /\ phase = "resolve" /\ phase' = "resolve" /\ i <= Len(entries)
      /\ Len(Named(entries[i])) = 1 /\ ~ Taken(Named(entries[i])[1])
      /\ UNCHANGED <<raw, findings, matches>>
  BY DEF ResolveEntry
<1>2. ~ Stopped(i)
  BY <1>1, NamedFacts, TakenFacts DEF JInv, Stopped
<1>3. Named(entries[i]) \in Seq(Findings) /\ Named(entries[i])[1] \in Findings
  BY <1>1, ResolveNamed
<1>4. Len(resolved') = i /\ Len(resolved) = i - 1 /\ i \in Nat
  BY <1>1, <1>3, AppendProperties DEF ResolveEntry, IInv, Counted, TypeOK
<1>5. Passed'
  BY <1>1, <1>2, <1>4, RulesStay DEF JInv, Passed, HasChecked, Resolving
<1>6. Multiple'
  BY <1>1 DEF JInv, Multiple, IndexedWith, HasIndexed, Resolving, Found
<1> QED
  BY <1>1, <1>5, <1>6 DEF JInv, Looked, VerdictByPosition

\* A loop ends, or a finding is filtered: no rule is looked at.
LEMMA OtherStep ==
  IInv /\ JInv /\ (EndValidation \/ EndIndex \/ Accept \/ Filter \/ Finish) => JInv'
<1> SUFFICES ASSUME IInv, JInv,
                    EndValidation \/ EndIndex \/ Accept \/ Filter \/ Finish
             PROVE  JInv'
  OBVIOUS
<1>1. /\ UNCHANGED <<raw, findings, matches, resolved>>
      /\ phase # "rejected" /\ phase' \notin {"validate", "rejected"}
  BY DEF EndValidation, EndIndex, Accept, Filter, Finish
<1>2. \A j \in Entry : HasChecked(j)
  BY DEF EndValidation, EndIndex, Accept, Filter, Finish, HasChecked, Resolving,
     IInv, TypeOK, Entry
<1>3. \A n \in Found : HasIndexed(n)' <=> HasIndexed(n)
  BY DEF EndValidation, EndIndex, Accept, Filter, Finish, HasIndexed, Resolving,
     IInv, TypeOK, Found
<1>4. Found' = Found
  BY <1>1 DEF Found
<1>5. \A k : IndexedWith(k)' = IndexedWith(k)
  BY <1>1, <1>3, <1>4 DEF IndexedWith
<1>6. Multiple'
  BY <1>1, <1>5 DEF JInv, Multiple
<1>7. Passed'
  BY <1>1, <1>2, RulesStay DEF JInv, Passed
<1>8. phase' = "accepted" => Len(resolved) = Len(raw)
  BY DEF EndValidation, EndIndex, Accept, Filter, Finish, IInv, Counted
<1>9. VerdictByPosition'
  BY <1>1, <1>2, <1>8, RulesStay DEF VerdictByPosition, JInv, Passed, Entry
<1> QED
  BY <1>1, <1>6, <1>7, <1>9 DEF JInv, Looked

\* The code stops where a rule is broken or an identity was counted twice.
LEMMA StoppedByTheRules ==
  ASSUME NEW j PROVE Stopped(j) <=> Unresolvable(j) \/ CountedTwice(j)
<1>1. HasPosition(Normalize(raw[j])) =>
        \A m, n \in Matching(j) : findings[m] = findings[n]
  BY DEF Matching, Names
<1> QED
  BY <1>1 DEF Stopped, Unresolvable, CountedTwice, Several

\* Whatever the allowlist and the findings, it is accepted only if every entry
\* keeps every rule, and refused at the first entry that breaks one or whose
\* identity was counted twice, validateAllowlist before resolveAllowlistIndex.
THEOREM VerdictsByTheRules == Spec => []VerdictByTheRules
<1>1. ASSUME IInv, JInv, [Next]_vars PROVE JInv'
  <2>1. CASE UNCHANGED vars
    <3>1. Entry' = Entry /\ Found' = Found
      BY <2>1 DEF vars, Entry, Found
    <3>2. \A k : IndexedWith(k)' = IndexedWith(k)
      BY <2>1, <3>1 DEF vars, IndexedWith, HasIndexed
    <3>3. Multiple'
      BY <1>1, <2>1, <3>2 DEF vars, JInv, Multiple
    <3>4. Looked'
      BY <1>1, <2>1 DEF vars, JInv, Looked
    <3>5. Passed' /\ VerdictByPosition'
      BY <1>1, <2>1, <3>1, RulesStay
      DEF vars, JInv, Passed, HasChecked, VerdictByPosition
    <3> QED
      BY <3>3, <3>4, <3>5 DEF JInv
  <2> QED
    BY <1>1, <2>1, RefusedEntryStep, UnresolvedEntryStep, KeptEntryStep, CountedStep,
       ResolvedEntryStep, OtherStep DEF Next
<1>2. JInv => VerdictByTheRules
  <2> SUFFICES ASSUME JInv PROVE VerdictByTheRules
    OBVIOUS
  <2>1. {j \in Entry : Stopped(j)} =
          {j \in Entry : Unresolvable(j)} \cup {j \in Entry : CountedTwice(j)}
    BY StoppedByTheRules
  <2> QED
    BY <2>1 DEF JInv, VerdictByPosition, VerdictByTheRules, IsFirst
<1> QED
  BY <1>1, <1>2, InitJInv, Invariance, PTL DEF Spec

=============================================================================
