--------------------------- MODULE RepoWalkProofs ---------------------------
(***************************************************************************)
(* Theorems about RepoWalk, for any repository, roots and uses: the walk   *)
(* fails closed, collects by the rule, and its index by file is exact, so  *)
(* that the passes report between them what the audit finds.               *)
(***************************************************************************)
EXTENDS RepoWalk, FiniteSetTheorems, SequenceTheorems, WellFoundedInduction, TLAPS

-----------------------------------------------------------------------------
(* The invariant. *)

\* A file whose uses the walk adds: nothing it parses shadows any there.
Collectable(f) ==
  /\ InBuild(f)
  /\ ~ world[f].imports
  /\ \A g \in Files :
       InBuild(g) /\ DirOf[g] = DirOf[f] /\ world[g].package = world[f].package =>
         ~ world[g].declares

\* The roots before the one at hand.
Passed(f) == {n \in Covering(f) : n < root}

StopsAt(n) ==
  \/ RootOf[given[n]] = "gone"
  \/ RootOf[given[n]] \in Dirs /\ \E f \in Under(RootOf[given[n]]) : Refuses(f)

\* The loops over files run for a root that is a directory; when all is done no
\* root is left.
AtWork ==
  /\ phase \in {"walk", "collect"} => root <= Len(given) /\ Root \in Dirs
  /\ phase = "done" => root > Len(given)

\* Nothing stopped the walks of the roots before, and a failure had a cause.
Unstopped ==
  phase # "failed" => \A n \in 1 .. root - 1 : ~ StopsAt(n)

Stopped ==
  phase = "failed" => findings = <<>> /\ \E n \in 1 .. Len(given) : StopsAt(n)

\* The walk of a root has kept, of the files it met, those it should, and met
\* none that it refuses.
Met ==
  phase = "walk" =>
    LET met == {Walk[n] : n \in DOMAIN Walk \ todo} \cap Under(Root) IN
      /\ todo \subseteq {n \in DOMAIN Walk : Walk[n] \in Under(Root)}
      /\ \A f \in met : ~ Refuses(f)
      /\ kept = {f \in met : Keeps(f)}

Gathered ==
  phase = "collect" =>
    /\ \A f \in Under(Root) : ~ Refuses(f)
    /\ kept = {f \in Under(Root) : Keeps(f)}
    /\ todo \subseteq {n \in DOMAIN Sorted : Sorted[n] \in kept}

\* Each use of a collectable file was collected once for every root before that
\* covers it, and for the root at hand if its file was met.
Collected(f) == phase = "collect" /\ f \in kept /\ Place(f) \notin todo

Times(f) ==
  IF Collectable(f)
  THEN Cardinality(Passed(f)) + (IF Collected(f) THEN 1 ELSE 0)
  ELSE 0

Counted ==
  phase # "failed" =>
    \A f \in Files : \A n \in DOMAIN UsesOf[f] :
      Cardinality(Occurrences(findings, FindingsIn(f)[n])) = Times(f)

IInv ==
  /\ TypeOK /\ AtWork /\ Unstopped /\ Stopped
  /\ Met /\ Gathered /\ Counted /\ SlicesAreFiles

-----------------------------------------------------------------------------
(* Least and greatest numbers. *)

\* A set of naturals has a least element.
LEMMA MinFacts ==
  ASSUME NEW S \in SUBSET Nat, S # {}
  PROVE  Min(S) \in S /\ \A n \in S : Min(S) <= n
<1> DEFINE Less == {ss \in Nat \X Nat : ss[1] < ss[2]}
<1>1. IsWellFoundedOn(Less, Nat)
  <2>1. OpToRel(<, Nat) = Less
    BY DEF OpToRel
  <2> QED
    BY <2>1, NatLessThanWellFounded
<1>2. \E n \in S : \A m \in S : <<m, n>> \notin Less
  <2> HIDE DEF Less
  <2> QED
    BY <1>1, WFMin
<1>3. \E n \in S : \A m \in S : n <= m
  <2>1. PICK n \in S : \A m \in S : <<m, n>> \notin Less
    BY <1>2
  <2>2. ASSUME NEW m \in S PROVE n <= m
    <3>1. <<m, n>> \notin Less /\ m \in Nat /\ n \in Nat
      BY <2>1
    <3> QED
      BY <3>1
  <2> QED
    BY <2>2
<1> QED
  BY <1>3 DEF Min

\* A bounded set of naturals has a greatest element.
LEMMA MaxFacts ==
  ASSUME NEW b \in Nat, NEW S \in SUBSET (1 .. b), S # {}
  PROVE  Max(S) \in S /\ \A n \in S : n <= Max(S)
<1> DEFINE T == {k \in Nat : \A n \in S : n <= k}
           top == Min(T)
<1>1. T \in SUBSET Nat /\ b \in T
  OBVIOUS
<1>2. top \in T /\ \A k \in T : top <= k
  BY <1>1, MinFacts
<1>3. top \in S
  <2> SUFFICES ASSUME top \notin S PROVE FALSE
    OBVIOUS
  <2>1. \A n \in S : n <= top /\ n # top /\ n \in Nat /\ n >= 1
    <3> HIDE DEF top
    <3> QED
      BY <1>2
  <2>2. top \in Nat /\ top >= 1
    <3>1. PICK n \in S : TRUE
      OBVIOUS
    <3>2. top \in Nat
      BY <1>2
    <3> HIDE DEF top
    <3> QED
      BY <2>1, <3>1, <3>2
  <2>3. top - 1 \in T
    BY <2>1, <2>2
  <2> QED
    BY <1>2, <2>2, <2>3
<1>4. \E n \in S : \A m \in S : n >= m
  BY <1>2, <1>3
<1> QED
  BY <1>4 DEF Max

-----------------------------------------------------------------------------
(* Files and findings. *)

\* Walk and Sorted number the files.
LEMMA FileFacts ==
  /\ DOMAIN Walk = 1 .. Len(Walk) /\ Len(Walk) \in Nat
  /\ DOMAIN Sorted = 1 .. Len(Sorted) /\ Len(Sorted) \in Nat
  /\ \A n \in DOMAIN Walk : Walk[n] \in Files
  /\ \A f \in Files : \E n \in DOMAIN Walk : Walk[n] = f
  /\ \A n \in DOMAIN Sorted : Sorted[n] \in Files /\ Place(Sorted[n]) = n
  /\ \A f \in Files : Place(f) \in DOMAIN Sorted /\ Sorted[Place(f)] = f
<1>1. Walk \in Seq(Files) /\ Sorted \in Seq(Files) /\ Range(Sorted) = Files
      /\ IsInjective(Sorted)
  BY WalkAssumption
<1>2. \A f \in Files : \E n \in DOMAIN Sorted : Sorted[n] = f
  BY <1>1 DEF Range
<1>3. \A f \in Files : Place(f) \in DOMAIN Sorted /\ Sorted[Place(f)] = f
  BY <1>2 DEF Place
<1>4. \A n \in DOMAIN Sorted : Sorted[n] \in Files
  BY <1>1
<1>5. \A n \in DOMAIN Sorted : Place(Sorted[n]) = n
  BY <1>1, <1>3, <1>4 DEF IsInjective
<1>6. \A f \in Files : \E n \in DOMAIN Walk : Walk[n] = f
  BY DEF Files, Range
<1> QED
  BY <1>1, <1>3, <1>4, <1>5, <1>6

\* The findings of a file are its uses.
LEMMA FindingsInFacts ==
  ASSUME NEW f \in Files
  PROVE  /\ FindingsIn(f) \in Seq(Findings)
         /\ DOMAIN FindingsIn(f) = DOMAIN UsesOf[f]
         /\ DOMAIN UsesOf[f] = 1 .. Len(UsesOf[f]) /\ Len(UsesOf[f]) \in Nat
         /\ Len(FindingsIn(f)) = Len(UsesOf[f])
         /\ \A n \in DOMAIN UsesOf[f] :
              /\ FindingsIn(f)[n].file = f
              /\ FindingsIn(f)[n].line = UsesOf[f][n].line
              /\ FindingsIn(f)[n].line \in Nat
         /\ \A m, n \in DOMAIN UsesOf[f] :
              FindingsIn(f)[m].line = FindingsIn(f)[n].line => m = n
<1>1. UsesOf[f] \in Seq([line : Nat, owner : STRING])
  BY UsesAssumption
<1>2. DOMAIN UsesOf[f] = 1 .. Len(UsesOf[f]) /\ Len(UsesOf[f]) \in Nat
      /\ \A n \in DOMAIN UsesOf[f] : UsesOf[f][n].line \in Nat
  <2>1. DOMAIN UsesOf[f] = 1 .. Len(UsesOf[f]) /\ Len(UsesOf[f]) \in Nat
    BY <1>1
  <2>2. ASSUME NEW n \in DOMAIN UsesOf[f] PROVE UsesOf[f][n] \in [line : Nat, owner : STRING]
    BY <1>1, <2>1, ElementOfSeq
  <2> QED
    BY <2>1, <2>2
<1>3. \A n \in DOMAIN UsesOf[f] : FindingsIn(f)[n] \in Findings
  BY <1>2 DEF Findings, FindingsIn, Range
<1>4. FindingsIn(f) \in [1 .. Len(UsesOf[f]) -> Findings]
  BY <1>2, <1>3 DEF FindingsIn
<1>5. FindingsIn(f) \in Seq(Findings) /\ Len(FindingsIn(f)) = Len(UsesOf[f])
  BY <1>2, <1>4
<1>6. \A n \in DOMAIN UsesOf[f] : /\ FindingsIn(f)[n].file = f
                                  /\ FindingsIn(f)[n].line = UsesOf[f][n].line
  BY <1>2 DEF FindingsIn
<1> QED
  BY <1>2, <1>4, <1>5, <1>6, UsesAssumption

\* A finding is a use of its file, and its position tells which.
LEMMA FindingFacts ==
  /\ \A x \in Findings : /\ x.file \in Files /\ x.line \in Nat
                         /\ \E n \in DOMAIN UsesOf[x.file] : x = FindingsIn(x.file)[n]
  /\ \A x, y \in Findings : x.file = y.file /\ x.line = y.line => x = y
<1>1. ASSUME NEW x \in Findings
      PROVE  /\ x.file \in Files /\ x.line \in Nat
             /\ \E n \in DOMAIN UsesOf[x.file] : x = FindingsIn(x.file)[n]
  <2>1. PICK f \in Files : x \in Range(FindingsIn(f))
    BY DEF Findings
  <2>2. PICK n \in DOMAIN UsesOf[f] : x = FindingsIn(f)[n]
    BY <2>1, FindingsInFacts DEF Range
  <2> QED
    BY <2>2, FindingsInFacts
<1>2. ASSUME NEW x \in Findings, NEW y \in Findings, x.file = y.file, x.line = y.line
      PROVE  x = y
  <2>1. PICK m \in DOMAIN UsesOf[x.file] : x = FindingsIn(x.file)[m]
    BY <1>1
  <2>2. PICK n \in DOMAIN UsesOf[x.file] : y = FindingsIn(x.file)[n]
    BY <1>1, <1>2
  <2>3. m = n
    BY <1>1, <1>2, <2>1, <2>2, FindingsInFacts
  <2> QED
    BY <2>1, <2>2, <2>3
<1> QED
  BY <1>1, <1>2

\* Before orders findings, and leaves none open.
LEMMA BeforeFacts ==
  /\ \A x, y \in Findings : Before(x, y) => ~ Before(y, x)
  /\ \A x, y, z \in Findings : Before(x, y) /\ Before(y, z) => Before(x, z)
  /\ \A x, y \in Findings : x = y \/ Before(x, y) \/ Before(y, x)
<1>1. \A x \in Findings : /\ x.file \in Files /\ x.line \in Nat
                          /\ Place(x.file) \in Nat
  BY FindingFacts, FileFacts
<1>2. \A x, y \in Findings : Place(x.file) = Place(y.file) => x.file = y.file
  BY <1>1, FileFacts
<1>3. \A x, y \in Findings : Before(x, y) => ~ Before(y, x)
  BY <1>1 DEF Before
<1>4. \A x, y, z \in Findings : Before(x, y) /\ Before(y, z) => Before(x, z)
  BY <1>1 DEF Before
<1>5. \A x, y \in Findings : x = y \/ Before(x, y) \/ Before(y, x)
  BY <1>1, <1>2, FindingFacts DEF Before
<1> QED
  BY <1>3, <1>4, <1>5

-----------------------------------------------------------------------------
(* Occurrences. *)

\* There are finitely many.
LEMMA OccurrencesFinite ==
  ASSUME NEW s \in Seq(Findings), NEW x
  PROVE  IsFiniteSet(Occurrences(s, x)) /\ Cardinality(Occurrences(s, x)) \in Nat
<1>1. DOMAIN s = 1 .. Len(s) /\ Len(s) \in Nat
  OBVIOUS
<1>2. IsFiniteSet(1 .. Len(s))
  BY <1>1, FS_Interval
<1>3. Occurrences(s, x) \in SUBSET (1 .. Len(s))
  BY <1>1 DEF Occurrences
<1> QED
  BY <1>2, <1>3, FS_Subset, FS_CardinalityType

\* To collect a file adds one occurrence of each of its uses and of no other.
LEMMA OccurrencesAppend ==
  ASSUME NEW s \in Seq(Findings), NEW f \in Files, NEW g \in Files,
         NEW k \in DOMAIN UsesOf[g]
  PROVE  Cardinality(Occurrences(s \o FindingsIn(f), FindingsIn(g)[k])) =
           Cardinality(Occurrences(s, FindingsIn(g)[k])) + (IF f = g THEN 1 ELSE 0)
<1> DEFINE t == FindingsIn(f)
           x == FindingsIn(g)[k]
<1>1. t \in Seq(Findings) /\ Len(s) \in Nat /\ Len(t) \in Nat
      /\ DOMAIN s = 1 .. Len(s) /\ DOMAIN t = 1 .. Len(t)
  BY FindingsInFacts
<1>2. /\ DOMAIN (s \o t) = 1 .. Len(s) + Len(t)
      /\ \A n \in 1 .. Len(s) : (s \o t)[n] = s[n]
      /\ \A n \in Len(s) + 1 .. Len(s) + Len(t) : (s \o t)[n] = t[n - Len(s)]
  BY <1>1, ConcatProperties
<1>3. \A n \in 1 .. Len(t) : t[n] = x <=> (f = g /\ n = k)
  <2>1. ASSUME NEW n \in 1 .. Len(t), t[n] = x PROVE f = g /\ n = k
    <3>1. f = g
      BY <2>1, FindingsInFacts
    <3>2. n = k
      BY <2>1, <3>1, FindingsInFacts
    <3> QED
      BY <3>1, <3>2
  <2> QED
    BY <2>1
<1>4. f = g => k \in 1 .. Len(t)
  BY FindingsInFacts
<1> HIDE DEF t, x
<1>5. Occurrences(s \o t, x) =
        Occurrences(s, x) \cup (IF f = g THEN {Len(s) + k} ELSE {})
  <2>1. ASSUME NEW n \in Occurrences(s \o t, x)
        PROVE  n \in Occurrences(s, x) \/ (f = g /\ n = Len(s) + k)
    <3>1. n \in 1 .. Len(s) + Len(t) /\ (s \o t)[n] = x
      BY <1>2 DEF Occurrences
    <3>2. CASE n <= Len(s)
      BY <1>1, <1>2, <3>1, <3>2 DEF Occurrences
    <3>3. CASE n > Len(s)
      <4>1. n - Len(s) \in 1 .. Len(t) /\ n \in Len(s) + 1 .. Len(s) + Len(t)
        BY <1>1, <3>1, <3>3
      <4>2. t[n - Len(s)] = x
        BY <1>2, <3>1, <4>1
      <4>3. f = g /\ n - Len(s) = k
        BY <1>3, <4>1, <4>2
      <4> QED
        BY <1>1, <3>1, <4>3
    <3> QED
      BY <1>1, <3>1, <3>2, <3>3
  <2>2. ASSUME NEW n \in Occurrences(s, x) PROVE n \in Occurrences(s \o t, x)
    BY <1>1, <1>2 DEF Occurrences
  <2>3. ASSUME f = g PROVE Len(s) + k \in Occurrences(s \o t, x)
    <3>1. k \in 1 .. Len(t) /\ t[k] = x
      BY <1>3, <1>4, <2>3
    <3>2. Len(s) + k \in Len(s) + 1 .. Len(s) + Len(t)
          /\ Len(s) + k \in 1 .. Len(s) + Len(t) /\ (Len(s) + k) - Len(s) = k
      BY <1>1, <3>1
    <3> QED
      BY <1>2, <3>1, <3>2 DEF Occurrences
  <2> QED
    BY <2>1, <2>2, <2>3
<1>6. f = g => Len(s) + k \notin Occurrences(s, x)
  BY <1>1, <1>4 DEF Occurrences
<1>7. IsFiniteSet(Occurrences(s, x)) /\ Cardinality(Occurrences(s, x)) \in Nat
  BY OccurrencesFinite
<1>8. CASE f = g
  BY <1>5, <1>6, <1>7, <1>8, FS_AddElement DEF t, x
<1>9. CASE f # g
  BY <1>5, <1>7, <1>9 DEF t, x
<1> QED
  BY <1>8, <1>9

-----------------------------------------------------------------------------
(* The sort and the index. *)

Ascending(t) == \A m, n \in DOMAIN t : m < n => ~ Before(t[n], t[m])

RankOf(s) == [n \in DOMAIN s |->
                Cardinality({m \in DOMAIN s : m = n \/ Precedes(s, m, n)})]

\* The elements of a sequence have ranks of their own, in their order.
LEMMA RankFacts ==
  ASSUME NEW s \in Seq(Findings)
  PROVE  /\ RankOf(s) \in Bijection(DOMAIN s, DOMAIN s)
         /\ \A m, n \in DOMAIN s : Precedes(s, m, n) => RankOf(s)[m] < RankOf(s)[n]
<1> DEFINE D == DOMAIN s
           Upto(n) == {m \in D : m = n \/ Precedes(s, m, n)}
<1>1. D = 1 .. Len(s) /\ Len(s) \in Nat /\ IsFiniteSet(D) /\ Cardinality(D) = Len(s)
      /\ \A n \in D : s[n] \in Findings /\ n \in Nat
  <2>1. D = 1 .. Len(s) /\ Len(s) \in Nat
    OBVIOUS
  <2>2. IsFiniteSet(1 .. Len(s)) /\ Cardinality(1 .. Len(s)) = Len(s)
    BY <2>1, FS_Interval
  <2> QED
    BY <2>1, <2>2
<1>2. \A m, n \in D : Precedes(s, m, n) <=> Before(s[m], s[n]) \/ (s[m] = s[n] /\ m < n)
  BY <1>1, BeforeFacts DEF Precedes
<1>3. \A l, m, n \in D : Precedes(s, l, m) /\ Precedes(s, m, n) => Precedes(s, l, n)
  <2> HIDE DEF D
  <2>1. ASSUME NEW l \in D, NEW m \in D, NEW n \in D, Precedes(s, l, m), Precedes(s, m, n)
        PROVE  Precedes(s, l, n)
    <3>1. s[l] \in Findings /\ s[m] \in Findings /\ s[n] \in Findings
          /\ l \in Nat /\ m \in Nat /\ n \in Nat
      BY <1>1
    <3>2. Before(s[l], s[m]) \/ (s[l] = s[m] /\ l < m)
      BY <1>2, <2>1
    <3>3. Before(s[m], s[n]) \/ (s[m] = s[n] /\ m < n)
      BY <1>2, <2>1
    <3>4. Before(s[l], s[n]) \/ (s[l] = s[n] /\ l < n)
      BY <3>1, <3>2, <3>3, BeforeFacts
    <3> QED
      BY <1>2, <3>4
  <2> QED
    BY <2>1
<1>4. \A m, n \in D : Precedes(s, m, n) => ~ Precedes(s, n, m) /\ m # n
  <2> HIDE DEF D
  <2> QED
    BY <1>1, <1>2, BeforeFacts
<1>5. \A m, n \in D : m = n \/ Precedes(s, m, n) \/ Precedes(s, n, m)
  <2> HIDE DEF D
  <2>1. ASSUME NEW m \in D, NEW n \in D PROVE m = n \/ Precedes(s, m, n) \/ Precedes(s, n, m)
    <3>1. s[m] \in Findings /\ s[n] \in Findings /\ m \in Nat /\ n \in Nat
      BY <1>1
    <3>2. s[m] = s[n] \/ Before(s[m], s[n]) \/ Before(s[n], s[m])
      BY <3>1, BeforeFacts
    <3> QED
      BY <1>2, <3>1, <3>2
  <2> QED
    BY <2>1
<1>6. \A n \in D : RankOf(s)[n] = Cardinality(Upto(n))
  BY DEF RankOf
<1>7. RankOf(s) = [n \in D |-> Cardinality(Upto(n))]
  BY DEF RankOf
<1> HIDE DEF D
<1>8. \A n \in D : /\ IsFiniteSet(Upto(n)) /\ Cardinality(Upto(n)) \in 1 .. Len(s)
                    /\ n \in Upto(n) /\ Upto(n) \subseteq D
  <2>1. ASSUME NEW n \in D PROVE IsFiniteSet(Upto(n)) /\ Cardinality(Upto(n)) \in 1 .. Len(s)
    <3>1. Upto(n) \in SUBSET D /\ Upto(n) # {}
      OBVIOUS
    <3> HIDE DEF Upto
    <3>2. IsFiniteSet(Upto(n)) /\ Cardinality(Upto(n)) <= Len(s)
      BY <1>1, <3>1, FS_Subset
    <3>3. Cardinality(Upto(n)) \in Nat /\ Cardinality(Upto(n)) # 0
      BY <3>1, <3>2, FS_CardinalityType, FS_EmptySet
    <3> QED
      BY <1>1, <3>2, <3>3
  <2> QED
    BY <2>1
<1>9. ASSUME NEW m \in D, NEW n \in D, Precedes(s, m, n)
      PROVE  Cardinality(Upto(m)) < Cardinality(Upto(n))
  <2>1. Upto(m) \in SUBSET Upto(n)
    BY <1>3, <1>9
  <2>2. n \in Upto(n) /\ n \notin Upto(m)
    BY <1>4, <1>9
  <2>3. IsFiniteSet(Upto(n)) /\ IsFiniteSet(Upto(m))
    BY <1>8
  <2> HIDE DEF Upto
  <2>4. Cardinality(Upto(m)) <= Cardinality(Upto(n))
        /\ Cardinality(Upto(m)) # Cardinality(Upto(n))
    BY <2>1, <2>2, <2>3, FS_Subset
  <2>5. Cardinality(Upto(m)) \in Nat /\ Cardinality(Upto(n)) \in Nat
    BY <2>3, FS_CardinalityType
  <2> QED
    BY <2>4, <2>5
<1> HIDE DEF Upto
<1>10. RankOf(s) \in [D -> D]
  BY <1>1, <1>7, <1>8
<1>11. \A m, n \in D : RankOf(s)[m] = RankOf(s)[n] => m = n
  <2>1. ASSUME NEW m \in D, NEW n \in D, RankOf(s)[m] = RankOf(s)[n], m # n PROVE FALSE
    <3>1. Cardinality(Upto(m)) \in Nat /\ Cardinality(Upto(n)) \in Nat
      BY <1>8
    <3>2. Cardinality(Upto(m)) < Cardinality(Upto(n)) \/ Cardinality(Upto(n)) < Cardinality(Upto(m))
      BY <1>5, <1>9, <2>1
    <3> QED
      BY <1>6, <2>1, <3>1, <3>2
  <2> QED
    BY <2>1
<1>12. RankOf(s) \in Injection(D, D)
  BY <1>10, <1>11 DEF Injection, IsInjective
<1>13. RankOf(s) \in Surjection(D, D)
  BY <1>1, <1>12, FS_Injection
<1>14. RankOf(s) \in Bijection(D, D)
  BY <1>12, <1>13 DEF Bijection
<1> QED
  BY <1>6, <1>9, <1>14 DEF D

\* Sorting rearranges the findings so that they ascend.
LEMMA InOrderFacts ==
  ASSUME NEW s \in Seq(Findings)
  PROVE  LET t == InOrder(s) IN
           /\ t \in Seq(Findings) /\ Ascending(t)
           /\ \A x : Cardinality(Occurrences(t, x)) = Cardinality(Occurrences(s, x))
<1> DEFINE t == InOrder(s)
           D == DOMAIN s
           rank == RankOf(s)
           p == [r \in D |-> CHOOSE n \in D : rank[n] = r]
<1>1. D = 1 .. Len(s) /\ Len(s) \in Nat /\ \A n \in D : s[n] \in Findings
  OBVIOUS
<1>2. rank \in [D -> D] /\ (\A m, n \in D : rank[m] = rank[n] => m = n)
      /\ (\A r \in D : \E n \in D : rank[n] = r)
  BY RankFacts DEF Bijection, Injection, Surjection, IsInjective
<1>3. t = [r \in D |-> s[p[r]]]
  BY DEF InOrder, RankOf
<1> HIDE DEF D, rank, t
<1>4. \A r \in D : p[r] \in D /\ rank[p[r]] = r
  BY <1>2
<1>5. \A n \in D : p[rank[n]] = n
  BY <1>2, <1>4
<1> HIDE DEF p
<1>6. t \in [1 .. Len(s) -> Findings]
  BY <1>1, <1>3, <1>4
<1>7. t \in Seq(Findings) /\ DOMAIN t = D
  BY <1>1, <1>6
<1>8. Ascending(t)
  <2> SUFFICES ASSUME NEW q \in D, NEW r \in D, q < r, Before(t[r], t[q]) PROVE FALSE
    BY <1>7 DEF Ascending
  <2>1. p[q] \in D /\ p[r] \in D /\ t[q] = s[p[q]] /\ t[r] = s[p[r]]
    BY <1>3, <1>4
  <2>2. Precedes(s, p[r], p[q])
    BY <2>1 DEF Precedes
  <2>3. rank[p[r]] < rank[p[q]]
    BY <2>1, <2>2, RankFacts DEF D, rank
  <2>4. r < q
    BY <1>4, <2>3
  <2> QED
    BY <1>1, <2>4
<1>9. ASSUME NEW x PROVE Cardinality(Occurrences(t, x)) = Cardinality(Occurrences(s, x))
  <2> DEFINE S == Occurrences(s, x)
             T == Occurrences(t, x)
             move == [n \in S |-> rank[n]]
  <2>1. S = {n \in D : s[n] = x} /\ T = {n \in D : t[n] = x}
    BY <1>7 DEF Occurrences, D
  <2> HIDE DEF S, T
  <2>2. \A n \in S : n \in D /\ rank[n] \in D /\ t[rank[n]] = x
    BY <1>2, <1>3, <1>5, <2>1
  <2>3. move \in [S -> T]
    BY <2>1, <2>2
  <2>4. \A m, n \in S : move[m] = move[n] => m = n
    BY <1>2, <2>2
  <2>5. \A r \in T : p[r] \in S /\ move[p[r]] = r
    BY <1>3, <1>4, <2>1
  <2> HIDE DEF move
  <2>6. move \in Bijection(S, T)
    BY <2>3, <2>4, <2>5 DEF Bijection, Injection, Surjection, IsInjective
  <2>7. ExistsBijection(S, T)
    BY <2>6 DEF ExistsBijection
  <2>8. IsFiniteSet(S)
    BY OccurrencesFinite DEF S
  <2> QED
    BY <2>7, <2>8, FS_Bijection DEF S, T
<1> QED
  BY <1>7, <1>8, <1>9 DEF t

\* In an ascending sequence the findings of a file are neighbours, so that its
\* range holds them all.
LEMMA RangesFacts ==
  ASSUME NEW t \in Seq(Findings), Ascending(t), NEW f
  PROVE  LET own == {n \in DOMAIN t : t[n].file = f}
             ranges_ == RangesOf(t)
         IN  /\ DOMAIN ranges_ = {t[n].file : n \in DOMAIN t}
             /\ own = IF f \in DOMAIN ranges_ THEN ranges_[f].start .. ranges_[f].end ELSE {}
             /\ f \in DOMAIN ranges_ => ranges_[f] \in [start : Nat, end : Nat]
<1> DEFINE D == DOMAIN t
           own == {n \in D : t[n].file = f}
           starts == {n \in D : t[n].file = f /\ (n = 1 \/ t[n - 1].file # f)}
           ends == {n \in D : t[n].file = f /\ (n = Len(t) \/ t[n + 1].file # f)}
           after == {n \in ends : n >= Max(starts)}
<1>1. D = 1 .. Len(t) /\ Len(t) \in Nat /\ \A n \in D : n \in Nat /\ t[n] \in Findings
  OBVIOUS
<1>2. DOMAIN RangesOf(t) = {t[n].file : n \in D}
  BY DEF RangesOf
<1>3. f \in DOMAIN RangesOf(t) <=> own # {}
  BY <1>2
<1>4. f \in DOMAIN RangesOf(t) =>
        RangesOf(t)[f] = [start |-> Max(starts), end |-> Min(after)]
  BY DEF RangesOf
<1> HIDE DEF D
<1>5. ASSUME NEW k \in D, NEW l \in D, NEW n \in D, k <= l, l <= n,
             t[k].file = f, t[n].file = f
      PROVE  t[l].file = f
  <2>1. t[k] \in Findings /\ t[l] \in Findings /\ t[n] \in Findings
        /\ k \in Nat /\ l \in Nat /\ n \in Nat
    BY <1>1
  <2>2. /\ Place(t[k].file) \in Nat /\ Place(t[l].file) \in Nat
        /\ t[l].file \in Files /\ f \in Files
    BY <1>5, <2>1, FindingFacts, FileFacts
  <2>3. k = l \/ ~ Before(t[l], t[k])
    BY <1>5, <2>1 DEF Ascending, D
  <2>4. l = n \/ ~ Before(t[n], t[l])
    BY <1>5, <2>1 DEF Ascending, D
  <2>5. k = l \/ ~ (Place(t[l].file) < Place(f))
    BY <1>5, <2>3 DEF Before
  <2>6. l = n \/ ~ (Place(f) < Place(t[l].file))
    BY <1>5, <2>4 DEF Before
  <2>7. CASE k = l \/ l = n
    BY <1>5, <2>7
  <2>8. CASE k # l /\ l # n
    <3>1. Place(t[l].file) = Place(f)
      BY <1>5, <2>2, <2>5, <2>6, <2>8
    <3> QED
      BY <2>2, <3>1, FileFacts
  <2> QED
    BY <2>7, <2>8
<1>6. ASSUME own # {}
      PROVE  own = Max(starts) .. Min(after) /\ Max(starts) \in Nat /\ Min(after) \in Nat
  <2> DEFINE a == Min(own)
             b == Max(own)
  <2>1. own \in SUBSET Nat /\ own \in SUBSET (1 .. Len(t))
    BY <1>1
  <2>2. a \in own /\ \A n \in own : a <= n
    BY <1>6, <2>1, MinFacts
  <2>3. b \in own /\ \A n \in own : n <= b
    BY <1>1, <1>6, <2>1, MaxFacts
  <2> HIDE DEF a, b
  <2>4. a \in 1 .. Len(t) /\ b \in 1 .. Len(t) /\ a \in D /\ b \in D
        /\ t[a].file = f /\ t[b].file = f
    BY <1>1, <2>2, <2>3
  <2>5. own = a .. b
    <3>1. ASSUME NEW n \in a .. b PROVE n \in own
      <4>1. n \in D /\ a <= n /\ n <= b
        BY <1>1, <2>4
      <4> QED
        BY <1>5, <2>4, <4>1
    <3>2. \A n \in own : n \in a .. b
      BY <1>1, <2>2, <2>3, <2>4
    <3> QED
      BY <3>1, <3>2
  <2> HIDE DEF own
  <2>6. \A n \in D : t[n].file = f <=> n \in a .. b
    BY <2>5 DEF own
  <2>7. starts = {a}
    <3>1. a \in starts
      <4>1. a = 1 \/ (a - 1 \in D /\ a - 1 \notin a .. b)
        BY <1>1, <2>4
      <4> QED
        BY <2>4, <2>6, <4>1
    <3>2. ASSUME NEW n \in starts PROVE n = a
      <4>1. n \in D /\ n \in a .. b /\ (n = 1 \/ t[n - 1].file # f)
        BY <2>6
      <4>2. n = a \/ (n - 1 \in D /\ n - 1 \in a .. b /\ n # 1)
        BY <1>1, <2>4, <4>1
      <4> QED
        BY <2>6, <4>1, <4>2
    <3> QED
      BY <3>1, <3>2
  <2>8. ends = {b}
    <3>1. b \in ends
      <4>1. b = Len(t) \/ (b + 1 \in D /\ b + 1 \notin a .. b)
        BY <1>1, <2>4
      <4> QED
        BY <2>4, <2>6, <4>1
    <3>2. ASSUME NEW n \in ends PROVE n = b
      <4>1. n \in D /\ n \in a .. b /\ (n = Len(t) \/ t[n + 1].file # f)
        BY <2>6
      <4>2. n = b \/ (n + 1 \in D /\ n + 1 \in a .. b /\ n # Len(t))
        BY <1>1, <2>4, <4>1
      <4> QED
        BY <2>6, <4>1, <4>2
    <3> QED
      BY <3>1, <3>2
  <2> HIDE DEF starts, ends
  <2>9. Max(starts) = a
    <3>1. starts \in SUBSET (1 .. Len(t)) /\ starts # {}
      BY <2>4, <2>7
    <3>2. Max(starts) \in starts
      BY <1>1, <3>1, MaxFacts
    <3> QED
      BY <2>7, <3>2
  <2>10. after = {b}
    BY <2>2, <2>3, <2>4, <2>8, <2>9
  <2>11. Min(after) = b
    <3> HIDE DEF after
    <3>1. after \in SUBSET Nat /\ after # {}
      BY <2>4, <2>10
    <3>2. Min(after) \in after
      BY <3>1, MinFacts
    <3> QED
      BY <2>10, <3>2
  <2> QED
    BY <2>4, <2>5, <2>9, <2>11
<1> HIDE DEF starts, ends, after
<1>7. own = IF f \in DOMAIN RangesOf(t) THEN RangesOf(t)[f].start .. RangesOf(t)[f].end ELSE {}
  <2> HIDE DEF own
  <2>1. CASE own # {}
    <3>1. RangesOf(t)[f] = [start |-> Max(starts), end |-> Min(after)]
      BY <1>3, <1>4, <2>1
    <3>2. RangesOf(t)[f].start = Max(starts) /\ RangesOf(t)[f].end = Min(after)
      BY <3>1
    <3> QED
      BY <1>3, <1>6, <2>1, <3>2
  <2>2. CASE own = {}
    BY <1>3, <2>2
  <2> QED
    BY <2>1, <2>2
<1>8. f \in DOMAIN RangesOf(t) => RangesOf(t)[f] \in [start : Nat, end : Nat]
  BY <1>3, <1>4, <1>6
<1> QED
  BY <1>2, <1>7, <1>8 DEF D

-----------------------------------------------------------------------------
(* The roots. *)

\* What the types say of the roots and of the files.
LEMMA TypeFacts ==
  ASSUME TypeOK
  PROVE  /\ given \in Seq(RawRoots) /\ DOMAIN given = 1 .. Len(given) /\ Len(given) \in Nat
         /\ root \in Nat /\ 1 <= root /\ root <= Len(given) + 1
         /\ \A n \in 1 .. Len(given) : RootOf[given[n]] \in Dirs \cup {Blank, "gone"}
         /\ world \in [Files -> [status : Status, package : STRING,
                                 declares : BOOLEAN, imports : BOOLEAN]]
<1>1. given \in Seq(RawRoots) /\ RootOf \in [RawRoots -> Dirs \cup {Blank, "gone"}]
      /\ world \in [Files -> [status : Status, package : STRING,
                              declares : BOOLEAN, imports : BOOLEAN]]
  BY WalkAssumption DEF TypeOK
<1>2. DOMAIN given = 1 .. Len(given) /\ Len(given) \in Nat
  BY <1>1
<1>3. root \in Nat /\ 1 <= root /\ root <= Len(given) + 1
  BY <1>2 DEF TypeOK
<1>4. \A n \in 1 .. Len(given) : given[n] \in RawRoots
  BY <1>1, ElementOfSeq
<1> QED
  BY <1>1, <1>2, <1>3, <1>4

\* Finitely many roots cover a file, and the root at hand adds itself to those
\* before it.
LEMMA PassedFacts ==
  ASSUME TypeOK, NEW f
  PROVE  /\ Cardinality(Passed(f)) \in Nat
         /\ root <= Len(given) =>
              Cardinality({n \in Covering(f) : n < root + 1}) =
                Cardinality(Passed(f)) + (IF Root \in Dirs /\ f \in Under(Root) THEN 1 ELSE 0)
<1> DEFINE next == {n \in Covering(f) : n < root + 1}
<1>1. Len(given) \in Nat /\ root \in Nat /\ 1 <= root
  BY TypeFacts
<1>2. Covering(f) \in SUBSET (1 .. Len(given))
  BY DEF Covering
<1>3. IsFiniteSet(Passed(f)) /\ Cardinality(Passed(f)) \in Nat /\ root \notin Passed(f)
  <2>1. Passed(f) \in SUBSET (1 .. Len(given)) /\ root \notin Passed(f)
    BY <1>1, <1>2 DEF Passed
  <2>2. IsFiniteSet(1 .. Len(given))
    BY <1>1, FS_Interval
  <2> QED
    BY <2>1, <2>2, FS_Subset, FS_CardinalityType
<1>4. ASSUME root <= Len(given)
      PROVE  next = Passed(f) \cup (IF Root \in Dirs /\ f \in Under(Root) THEN {root} ELSE {})
  <2>1. root \in Covering(f) <=> Root \in Dirs /\ f \in Under(Root)
    BY <1>1, <1>4 DEF Covering, Root
  <2>2. \A n \in Covering(f) : n < root + 1 <=> (n < root \/ n = root)
    BY <1>1, <1>2
  <2>3. next = Passed(f) \cup (IF root \in Covering(f) THEN {root} ELSE {})
    BY <1>1, <2>2 DEF Passed
  <2> QED
    BY <2>1, <2>3
<1> HIDE DEF next
<1>5. ASSUME root <= Len(given)
      PROVE  Cardinality(next) =
               Cardinality(Passed(f)) + (IF Root \in Dirs /\ f \in Under(Root) THEN 1 ELSE 0)
  <2>1. CASE Root \in Dirs /\ f \in Under(Root)
    BY <1>3, <1>4, <1>5, <2>1, FS_AddElement
  <2>2. CASE ~ (Root \in Dirs /\ f \in Under(Root))
    <3>1. next = Passed(f)
      BY <1>4, <1>5, <2>2
    <3> QED
      BY <1>3, <2>2, <3>1
  <2> QED
    BY <2>1, <2>2
<1> QED
  BY <1>3, <1>5 DEF next

\* Nothing a step does changes the files and the roots, and so the rules.
LEMMA InputFacts ==
  ASSUME UNCHANGED input
  PROVE  /\ \A f : (Refuses(f)' <=> Refuses(f)) /\ (Keeps(f)' <=> Keeps(f))
         /\ \A f : Collectable(f)' <=> Collectable(f)
         /\ \A f : Covering(f)' = Covering(f)
         /\ \A n : StopsAt(n)' <=> StopsAt(n)
<1>1. world' = world /\ excluded' = excluded /\ given' = given
  BY DEF input
<1>2. \A f : (Refuses(f)' <=> Refuses(f)) /\ (Keeps(f)' <=> Keeps(f))
  BY <1>1 DEF Refuses, Keeps
<1>3. \A f : Collectable(f)' <=> Collectable(f)
  BY <1>1 DEF Collectable, InBuild
<1>4. \A f : Covering(f)' = Covering(f)
  BY <1>1 DEF Covering, Under
<1>5. \A n : StopsAt(n)' <=> StopsAt(n)
  BY <1>1, <1>2 DEF StopsAt, Under
<1> QED
  BY <1>2, <1>3, <1>4, <1>5

\* The root at hand stops the walk exactly when it is missing or a file below
\* it is refused.
LEMMA StopFacts ==
  ASSUME TypeOK, root <= Len(given)
  PROVE  /\ Root = Blank => ~ StopsAt(root)
         /\ Root = "gone" => StopsAt(root)
         /\ Root \in Dirs => (StopsAt(root) <=> \E f \in Under(Root) : Refuses(f))
BY WalkAssumption DEF StopsAt, Root

-----------------------------------------------------------------------------
(* The steps. *)

\* To fail needs a cause among the roots.
LEMMA FailKeeps ==
  ASSUME IInv, Fail, NEW n \in 1 .. Len(given), StopsAt(n)
  PROVE  IInv'
<1>1. UNCHANGED input /\ given' = given /\ phase' = "failed" /\ findings' = <<>>
  BY DEF Fail, input
<1>2. TypeOK'
  <2>1. <<>> \in Seq(Findings)
    OBVIOUS
  <2> QED
    BY <2>1 DEF IInv, TypeOK, Fail, input
<1>3. Stopped'
  BY <1>1, InputFacts DEF Stopped
<1> QED
  BY <1>1, <1>2, <1>3
     DEF IInv, AtWork, Unstopped, Met, Gathered, Counted, SlicesAreFiles

\* A blank root is passed over and covers nothing.
LEMMA SkipRootKeeps ==
  ASSUME IInv, SkipRoot
  PROVE  IInv'
<1>1. /\ UNCHANGED <<input, todo, kept, findings, ranges, phase>> /\ phase = "roots"
      /\ root' = root + 1 /\ root <= Len(given) /\ Root = Blank /\ given' = given
      /\ UNCHANGED input
  BY DEF SkipRoot, AtRoot, input
<1>2. TypeOK
  BY DEF IInv
<1>3. TypeOK'
  BY <1>1, <1>2, TypeFacts DEF TypeOK, input
<1>4. Unstopped'
  <2>1. ASSUME NEW n \in 1 .. root PROVE ~ StopsAt(n)
    <3>1. CASE n = root
      BY <1>1, <1>2, <3>1, StopFacts
    <3>2. CASE n # root
      BY <1>1, <1>2, <3>2, TypeFacts DEF IInv, Unstopped
    <3> QED
      BY <3>1, <3>2
  <2>2. (root + 1) - 1 = root
    BY <1>2, TypeFacts
  <2> QED
    BY <1>1, <2>1, <2>2, InputFacts DEF Unstopped
<1>5. Counted'
  <2>1. ASSUME NEW f PROVE Times(f)' = Times(f)
    <3>1. Root \notin Dirs
      BY <1>1, WalkAssumption
    <3>2. Cardinality(Passed(f))' = Cardinality(Passed(f))
      BY <1>1, <1>2, <3>1, InputFacts, PassedFacts DEF Passed
    <3> QED
      BY <1>1, <3>2, InputFacts DEF Times, Collected
  <2> QED
    BY <1>1, <2>1 DEF IInv, Counted, Occurrences, FindingsIn
<1> QED
  BY <1>1, <1>3, <1>4, <1>5
     DEF IInv, AtWork, Stopped, Met, Gathered, SlicesAreFiles

\* The walk of a root begins with every file under it to meet and none met.
LEMMA EnterRootKeeps ==
  ASSUME IInv, EnterRoot
  PROVE  IInv'
<1>1. /\ UNCHANGED <<input, root, findings, ranges>> /\ given' = given
      /\ phase = "roots" /\ phase' = "walk" /\ root <= Len(given) /\ Root \in Dirs
      /\ todo' = {n \in DOMAIN Walk : Walk[n] \in Under(Root)} /\ kept' = {}
      /\ UNCHANGED input /\ root' = root /\ Root' = Root /\ Under(Root)' = Under(Root)
  BY DEF EnterRoot, AtRoot, input, Root, Under
<1>2. TypeOK'
  BY <1>1 DEF IInv, TypeOK, input
<1>3. Unstopped'
  BY <1>1, InputFacts DEF IInv, Unstopped
<1>4. Met'
  BY <1>1 DEF Met
<1>5. Counted'
  <2>1. ASSUME NEW f PROVE Times(f)' = Times(f)
    <3>1. ~ Collected(f) /\ ~ Collected(f)' /\ Passed(f)' = Passed(f)
      BY <1>1, InputFacts DEF Collected, Passed
    <3> QED
      BY <1>1, <3>1, InputFacts DEF Times
  <2> QED
    BY <1>1, <2>1 DEF IInv, Counted, Occurrences, FindingsIn
<1> QED
  BY <1>1, <1>2, <1>3, <1>4, <1>5
     DEF IInv, AtWork, Stopped, Gathered, SlicesAreFiles

\* The next file to meet lies under the root at hand.
LEMMA NextFileFacts ==
  ASSUME IInv, phase = "walk", todo # {}
  PROVE  /\ Min(todo) \in todo /\ Min(todo) \in DOMAIN Walk
         /\ Walk[Min(todo)] \in Under(Root) /\ Walk[Min(todo)] \in Files
<1>1. todo \subseteq {n \in DOMAIN Walk : Walk[n] \in Under(Root)}
  BY DEF IInv, Met
<1>2. todo \in SUBSET Nat
  BY <1>1, FileFacts
<1>3. Min(todo) \in todo
  BY <1>2, MinFacts
<1> QED
  BY <1>1, <1>3, FileFacts

\* A file that is not refused is kept or passed over, and met.
LEMMA VisitFileKeeps ==
  ASSUME IInv, VisitFile
  PROVE  IInv'
<1> DEFINE k == Min(todo)
           f == Walk[k]
<1>1. /\ UNCHANGED <<input, root, findings, ranges, phase>> /\ given' = given
      /\ phase = "walk" /\ todo # {} /\ ~ Refuses(f)
      /\ kept' = IF Keeps(f) THEN kept \cup {f} ELSE kept
      /\ todo' = todo \ {k}
      /\ UNCHANGED input /\ root' = root /\ Root' = Root /\ Under(Root)' = Under(Root)
  BY DEF VisitFile, input, Root, Under
<1>2. k \in todo /\ k \in DOMAIN Walk /\ f \in Under(Root) /\ f \in Files
  BY <1>1, NextFileFacts
<1> HIDE DEF k
<1>3. TypeOK'
  BY <1>1, <1>2 DEF IInv, TypeOK, input
<1>4. Unstopped'
  BY <1>1, InputFacts DEF IInv, Unstopped
<1>5. Met'
  <2> DEFINE met == {Walk[n] : n \in DOMAIN Walk \ todo} \cap Under(Root)
             next == {Walk[n] : n \in DOMAIN Walk \ todo'} \cap Under(Root)
  <2>1. next = met \cup {f}
    BY <1>1, <1>2
  <2>2. (\A g \in met : ~ Refuses(g)) /\ kept = {g \in met : Keeps(g)}
        /\ todo \subseteq {n \in DOMAIN Walk : Walk[n] \in Under(Root)}
    BY <1>1 DEF IInv, Met
  <2> HIDE DEF met, next, f
  <2>3. \A g \in next : ~ Refuses(g)
    BY <1>1, <2>1, <2>2
  <2>4. kept' = {g \in next : Keeps(g)}
    BY <1>1, <2>1, <2>2
  <2>5. todo' \subseteq {n \in DOMAIN Walk : Walk[n] \in Under(Root)}
    BY <1>1, <2>2
  <2> QED
    BY <1>1, <2>3, <2>4, <2>5, InputFacts DEF Met, next
<1>6. Counted'
  <2>1. ASSUME NEW g PROVE Times(g)' = Times(g)
    BY <1>1, InputFacts DEF Times, Collected, Passed
  <2> QED
    BY <1>1, <2>1 DEF IInv, Counted, Occurrences, FindingsIn
<1> QED
  BY <1>1, <1>3, <1>4, <1>5, <1>6
     DEF IInv, AtWork, Stopped, Gathered, SlicesAreFiles

\* When all files are met the walk has kept what the root asks for, and the
\* files kept are yet to be collected.
LEMMA EndWalkKeeps ==
  ASSUME IInv, EndWalk
  PROVE  IInv'
<1>1. /\ UNCHANGED <<input, root, kept, findings, ranges>> /\ given' = given
      /\ phase = "walk" /\ phase' = "collect" /\ todo = {}
      /\ todo' = {n \in DOMAIN Sorted : Sorted[n] \in kept}
      /\ UNCHANGED input /\ root' = root /\ kept' = kept
      /\ Root' = Root /\ Under(Root)' = Under(Root)
  BY DEF EndWalk, input, Root, Under
<1>2. TypeOK'
  BY <1>1 DEF IInv, TypeOK, input
<1>3. Unstopped'
  BY <1>1, InputFacts DEF IInv, Unstopped
<1>4. Gathered'
  <2> DEFINE met == {Walk[n] : n \in DOMAIN Walk \ todo} \cap Under(Root)
  <2>1. met = Under(Root)
    BY <1>1, FileFacts DEF Under
  <2>2. (\A f \in met : ~ Refuses(f)) /\ kept = {f \in met : Keeps(f)}
    BY <1>1 DEF IInv, Met
  <2> HIDE DEF met
  <2> QED
    BY <1>1, <2>1, <2>2, InputFacts DEF Gathered
<1>5. Counted'
  <2>1. ASSUME NEW f \in Files PROVE Times(f)' = Times(f)
    <3>1. ~ Collected(f) /\ ~ Collected(f)'
      BY <1>1, FileFacts DEF Collected
    <3> QED
      BY <1>1, <3>1, InputFacts DEF Times, Passed
  <2> QED
    BY <1>1, <2>1 DEF IInv, Counted, Occurrences, FindingsIn
<1> QED
  BY <1>1, <1>2, <1>3, <1>4, <1>5
     DEF IInv, AtWork, Stopped, Met, SlicesAreFiles

\* What shadows any in a kept file is what the rule names: the files of its
\* package lie in its directory, so the root that covers it covers them all.
LEMMA ShadowFacts ==
  ASSUME IInv, phase = "collect", NEW f \in kept
  PROVE  f \in Files /\ (Shadowed(f) <=> ~ Collectable(f))
<1>1. kept = {g \in Under(Root) : Keeps(g)}
  BY DEF IInv, Gathered
<1>2. f \in Files /\ DirOf[f] \in Below[Root] /\ Keeps(f)
  BY <1>1 DEF Under
<1>3. \A g \in Files : DirOf[g] = DirOf[f] => (g \in kept <=> Keeps(g))
  BY <1>1, <1>2 DEF Under
<1>4. \A g \in kept : g \in Files
  BY <1>1 DEF Under
<1>5. \A g : Keeps(g) <=> InBuild(g)
  BY DEF Keeps, InBuild
<1>6. \A g : SamePackage(f, g) <=> (DirOf[g] = DirOf[f] /\ world[g].package = world[f].package)
  BY DEF SamePackage
<1>7. (\E g \in kept : SamePackage(f, g) /\ world[g].declares)
        <=> ~ \A g \in Files :
                InBuild(g) /\ DirOf[g] = DirOf[f] /\ world[g].package = world[f].package =>
                  ~ world[g].declares
  BY <1>3, <1>4, <1>5, <1>6
<1> QED
  BY <1>2, <1>5, <1>7 DEF Shadowed, Collectable

\* A file adds its uses to what is collected if the rule admits it, and
\* nothing else.
LEMMA CollectFileKeeps ==
  ASSUME IInv, CollectFile
  PROVE  IInv'
<1> DEFINE k == Min(todo)
           f == Sorted[k]
<1>1. /\ UNCHANGED <<input, root, kept, ranges, phase>> /\ given' = given
      /\ phase = "collect" /\ todo # {}
      /\ findings' = IF Shadowed(f) THEN findings ELSE findings \o FindingsIn(f)
      /\ todo' = todo \ {k}
      /\ UNCHANGED input /\ root' = root /\ kept' = kept /\ phase' = phase
      /\ Root' = Root /\ Under(Root)' = Under(Root)
  BY DEF CollectFile, input, Root, Under
<1>2. k \in todo /\ k \in DOMAIN Sorted /\ f \in kept /\ f \in Files /\ Place(f) = k
  <2>1. todo \subseteq {n \in DOMAIN Sorted : Sorted[n] \in kept}
    BY <1>1 DEF IInv, Gathered
  <2>2. todo \in SUBSET Nat
    BY <2>1, FileFacts
  <2>3. k \in todo
    BY <1>1, <2>2, MinFacts
  <2> QED
    BY <2>1, <2>3, FileFacts
<1>3. Shadowed(f) <=> ~ Collectable(f)
  BY <1>1, <1>2, ShadowFacts
<1>4. findings \in Seq(Findings) /\ FindingsIn(f) \in Seq(Findings)
  BY <1>2, FindingsInFacts DEF IInv, TypeOK
<1> HIDE DEF k, f
<1>5. TypeOK'
  <2>1. findings' \in Seq(Findings)
    <3>1. findings \o FindingsIn(f) \in Seq(Findings)
      BY <1>4, ConcatProperties
    <3> QED
      BY <1>1, <1>4, <3>1
  <2> QED
    BY <1>1, <2>1 DEF IInv, TypeOK, input
<1>6. Unstopped'
  BY <1>1, InputFacts DEF IInv, Unstopped
<1>7. Gathered'
  BY <1>1, InputFacts DEF IInv, Gathered
<1>8. Counted'
  <2> SUFFICES ASSUME NEW g \in Files, NEW n \in DOMAIN UsesOf[g]
               PROVE  Cardinality(Occurrences(findings', FindingsIn(g)[n])) = Times(g)'
    BY DEF Counted, Occurrences, FindingsIn
  <2>1. Cardinality(Occurrences(findings, FindingsIn(g)[n])) = Times(g)
    BY <1>1 DEF IInv, Counted
  <2>2. Passed(g)' = Passed(g) /\ (Collectable(g)' <=> Collectable(g))
    BY <1>1, InputFacts DEF Passed
  <2>3. g # f => (Collected(g)' <=> Collected(g))
    <3>1. g # f => Place(g) # k
      BY <1>2, FileFacts DEF f
    <3> QED
      BY <1>1, <3>1 DEF Collected
  <2>4. g = f => ~ Collected(g) /\ Collected(g)'
    <3>1. g = f => g \in kept /\ Place(g) = k
      BY <1>2
    <3> QED
      BY <1>1, <1>2, <3>1 DEF Collected
  <2>5. CASE ~ Collectable(f)
    <3>1. findings' = findings
      BY <1>1, <1>3, <2>5
    <3> QED
      BY <2>1, <2>2, <2>3, <2>5, <3>1 DEF Times
  <2>6. CASE Collectable(f)
    <3>1. Cardinality(Occurrences(findings', FindingsIn(g)[n])) =
            Times(g) + (IF f = g THEN 1 ELSE 0)
      BY <1>1, <1>2, <1>3, <1>4, <2>1, <2>6, OccurrencesAppend
    <3>2. Times(g) \in Nat
      BY <2>1, <1>4, OccurrencesFinite
    <3>3. CASE f = g
      <4>1. Cardinality(Passed(g)) \in Nat
        BY PassedFacts DEF IInv
      <4>2. Times(g) = Cardinality(Passed(g)) + 0 /\ Times(g)' = Cardinality(Passed(g)) + 1
        BY <2>2, <2>4, <2>6, <3>3 DEF Times
      <4> QED
        BY <3>1, <3>3, <4>1, <4>2
    <3>4. CASE f # g
      <4>1. Times(g)' = Times(g)
        BY <2>2, <2>3, <3>4 DEF Times
      <4> QED
        BY <3>1, <3>2, <3>4, <4>1
    <3> QED
      BY <3>3, <3>4
  <2> QED
    BY <2>5, <2>6
<1> QED
  BY <1>1, <1>5, <1>6, <1>7, <1>8
     DEF IInv, AtWork, Stopped, Met, SlicesAreFiles

\* What was collected for the root at hand counts, from now on, as collected
\* for a root before.
LEMMA EndRootKeeps ==
  ASSUME IInv, EndRoot
  PROVE  IInv'
<1>1. /\ UNCHANGED <<input, todo, kept, findings, ranges>> /\ given' = given
      /\ phase = "collect" /\ phase' = "roots" /\ todo = {} /\ root' = root + 1
      /\ UNCHANGED input
  BY DEF EndRoot, input
<1>2. TypeOK /\ root <= Len(given) /\ Root \in Dirs
      /\ (\A f \in Under(Root) : ~ Refuses(f)) /\ kept = {f \in Under(Root) : Keeps(f)}
  BY <1>1 DEF IInv, AtWork, Gathered
<1>3. TypeOK'
  BY <1>1, <1>2, TypeFacts DEF TypeOK, input
<1>4. Unstopped'
  <2>1. ASSUME NEW n \in 1 .. root PROVE ~ StopsAt(n)
    <3>1. CASE n = root
      BY <1>2, <3>1, StopFacts
    <3>2. CASE n # root
      BY <1>1, <1>2, <3>2, TypeFacts DEF IInv, Unstopped
    <3> QED
      BY <3>1, <3>2
  <2>2. (root + 1) - 1 = root
    BY <1>2, TypeFacts
  <2> QED
    BY <1>1, <2>1, <2>2, InputFacts DEF Unstopped
<1>5. Counted'
  <2>1. ASSUME NEW f \in Files PROVE Times(f)' = Times(f)
    <3>1. Cardinality(Passed(f))' =
            Cardinality(Passed(f)) + (IF f \in Under(Root) THEN 1 ELSE 0)
          /\ Cardinality(Passed(f)) \in Nat
      BY <1>1, <1>2, InputFacts, PassedFacts DEF Passed
    <3>2. Collectable(f) => (Collected(f) <=> f \in Under(Root))
      BY <1>1, <1>2 DEF Collectable, InBuild, Keeps, Collected
    <3>3. ~ Collected(f)'
      BY <1>1 DEF Collected
    <3> QED
      BY <1>1, <3>1, <3>2, <3>3, InputFacts DEF Times
  <2> QED
    BY <1>1, <2>1 DEF IInv, Counted, Occurrences, FindingsIn
<1> QED
  BY <1>1, <1>3, <1>4, <1>5
     DEF IInv, AtWork, Stopped, Met, Gathered, SlicesAreFiles

\* The sort changes no count, and the index holds of what is sorted.
LEMMA EndRootsKeeps ==
  ASSUME IInv, EndRoots
  PROVE  IInv'
<1>1. /\ UNCHANGED <<input, root, todo, kept>> /\ given' = given /\ root' = root
      /\ phase = "roots" /\ phase' = "done" /\ root > Len(given)
      /\ findings' = InOrder(findings) /\ ranges' = RangesOf(findings')
      /\ UNCHANGED input
  BY DEF EndRoots, input
<1>2. findings \in Seq(Findings)
  BY DEF IInv, TypeOK
<1>3. /\ findings' \in Seq(Findings) /\ Ascending(findings')
      /\ \A x : Cardinality(Occurrences(findings', x)) = Cardinality(Occurrences(findings, x))
  BY <1>1, <1>2, InOrderFacts
<1>4. \A n \in DOMAIN findings' : findings'[n] \in Findings /\ n \in Nat
  BY <1>3
<1>5. TypeOK'
  <2>1. DOMAIN ranges' = {findings'[n].file : n \in DOMAIN findings'}
    BY <1>1, <1>3, RangesFacts
  <2>2. DOMAIN ranges' \subseteq Files
    BY <1>4, <2>1, FindingFacts
  <2>3. \A f \in DOMAIN ranges' : ranges'[f] \in [start : Nat, end : Nat]
    BY <1>1, <1>3, RangesFacts
  <2> QED
    BY <1>1, <1>3, <2>2, <2>3 DEF IInv, TypeOK, input
<1>6. Unstopped'
  BY <1>1, InputFacts DEF IInv, Unstopped
<1>7. Counted'
  <2>1. ASSUME NEW f PROVE Times(f)' = Times(f)
    <3>1. ~ Collected(f) /\ ~ Collected(f)' /\ Passed(f)' = Passed(f)
      BY <1>1, InputFacts DEF Collected, Passed
    <3> QED
      BY <1>1, <3>1, InputFacts DEF Times
  <2> QED
    BY <1>1, <1>3, <2>1 DEF IInv, Counted, Occurrences, FindingsIn
<1>8. SlicesAreFiles'
  <2> SUFFICES ASSUME NEW f \in Files
               PROVE  LET own == {n \in DOMAIN findings' : findings'[n].file = f} IN
                        /\ own = IF f \in DOMAIN ranges'
                                 THEN ranges'[f].start .. ranges'[f].end ELSE {}
                        /\ \A m, n \in own :
                             m <= n => findings'[m].line <= findings'[n].line
    BY DEF SlicesAreFiles
  <2>1. {n \in DOMAIN findings' : findings'[n].file = f} =
          IF f \in DOMAIN ranges' THEN ranges'[f].start .. ranges'[f].end ELSE {}
    BY <1>1, <1>3, RangesFacts
  <2>2. ASSUME NEW m \in DOMAIN findings', NEW n \in DOMAIN findings', m <= n,
               findings'[m].file = f, findings'[n].file = f
        PROVE  findings'[m].line <= findings'[n].line
    <3>1. findings'[m] \in Findings /\ findings'[n] \in Findings /\ m \in Nat /\ n \in Nat
      BY <1>4
    <3>2. findings'[m].line \in Nat /\ findings'[n].line \in Nat
      BY <3>1, FindingFacts
    <3>3. CASE m = n
      BY <3>2, <3>3
    <3>4. CASE m < n
      <4>1. ~ Before(findings'[n], findings'[m])
        BY <1>3, <3>4 DEF Ascending
      <4>2. ~ (findings'[n].line < findings'[m].line)
        BY <2>2, <4>1 DEF Before
      <4> QED
        BY <3>2, <4>2
    <3> QED
      BY <2>2, <3>1, <3>3, <3>4
  <2> QED
    BY <2>1, <2>2
<1> QED
  BY <1>1, <1>5, <1>6, <1>7, <1>8
     DEF IInv, AtWork, Stopped, Met, Gathered

-----------------------------------------------------------------------------
(* The theorems. *)

\* The invariant holds of every state: the counts, the files met and kept, and
\* the index, from any list of roots over any repository.
THEOREM Invariance == Spec => []IInv
<1>1. Init => IInv
  <2> SUFFICES ASSUME Init PROVE IInv
    OBVIOUS
  <2>1. TypeOK
    <3>1. given \in Seq(RawRoots) /\ given # <<>>
      BY WalkAssumption DEF Init
    <3>2. root \in 1 .. Len(given) + 1
      BY <3>1 DEF Init
    <3>3. <<>> \in Seq(Findings) /\ DOMAIN <<>> = {}
      OBVIOUS
    <3> QED
      BY <3>2, <3>3 DEF Init, TypeOK
  <2>2. Unstopped
    BY DEF Init, Unstopped
  <2>3. Counted
    <3> SUFFICES ASSUME NEW f \in Files, NEW n \in DOMAIN UsesOf[f]
                 PROVE  Cardinality(Occurrences(findings, FindingsIn(f)[n])) = Times(f)
      BY DEF Counted
    <3>1. Occurrences(findings, FindingsIn(f)[n]) = {}
      BY DEF Occurrences, Init
    <3>2. Passed(f) = {}
      BY <2>1, TypeFacts DEF Passed, Covering, Init
    <3>3. ~ Collected(f)
      BY DEF Collected, Init
    <3> QED
      BY <3>1, <3>2, <3>3, FS_EmptySet DEF Times
  <2> QED
    BY <2>1, <2>2, <2>3 DEF Init, IInv, AtWork, Stopped, Met, Gathered, SlicesAreFiles
<1>2. IInv /\ [Next]_vars => IInv'
  <2> SUFFICES ASSUME IInv, [Next]_vars PROVE IInv'
    OBVIOUS
  <2>1. CASE SkipRoot
    BY <2>1, SkipRootKeeps
  <2>2. CASE MissingRoot
    <3>1. TypeOK /\ root <= Len(given) /\ Root = "gone" /\ Fail
      BY <2>2 DEF IInv, MissingRoot, AtRoot
    <3>2. root \in 1 .. Len(given) /\ StopsAt(root)
      BY <3>1, TypeFacts, StopFacts
    <3> QED
      BY <3>1, <3>2, FailKeeps
  <2>3. CASE EnterRoot
    BY <2>3, EnterRootKeeps
  <2>4. CASE RefuseFile
    <3>1. TypeOK /\ root <= Len(given) /\ Root \in Dirs /\ Fail
          /\ Refuses(Walk[Min(todo)]) /\ Walk[Min(todo)] \in Under(Root)
      BY <2>4, NextFileFacts DEF IInv, AtWork, RefuseFile
    <3>2. root \in 1 .. Len(given) /\ StopsAt(root)
      BY <3>1, TypeFacts, StopFacts
    <3> QED
      BY <3>1, <3>2, FailKeeps
  <2>5. CASE VisitFile
    BY <2>5, VisitFileKeeps
  <2>6. CASE EndWalk
    BY <2>6, EndWalkKeeps
  <2>7. CASE CollectFile
    BY <2>7, CollectFileKeeps
  <2>8. CASE EndRoot
    BY <2>8, EndRootKeeps
  <2>9. CASE EndRoots
    BY <2>9, EndRootsKeeps
  <2>10. CASE UNCHANGED vars
    <3>1. UNCHANGED input /\ given' = given /\ root' = root /\ todo' = todo /\ kept' = kept
          /\ findings' = findings /\ ranges' = ranges /\ phase' = phase
          /\ Root' = Root /\ Under(Root)' = Under(Root)
      BY <2>10 DEF vars, input, Root, Under
    <3>2. TypeOK' /\ AtWork' /\ SlicesAreFiles'
      BY <3>1 DEF IInv, TypeOK, AtWork, SlicesAreFiles, input
    <3>3. Unstopped' /\ Stopped' /\ Met' /\ Gathered'
      BY <3>1, InputFacts DEF IInv, Unstopped, Stopped, Met, Gathered
    <3>4. Counted'
      <4>1. ASSUME NEW f PROVE Times(f)' = Times(f)
        BY <3>1, InputFacts DEF Times, Collected, Passed
      <4> QED
        BY <3>1, <4>1 DEF IInv, Counted, Occurrences, FindingsIn
    <3> QED
      BY <3>2, <3>3, <3>4 DEF IInv
  <2> QED
    BY <2>1, <2>2, <2>3, <2>4, <2>5, <2>6, <2>7, <2>8, <2>9, <2>10 DEF Next
<1> QED
  BY <1>1, <1>2, PTL DEF Spec

\* WalkFailsClosed: no file that cannot be read or parsed, and no missing root,
\* is passed over, and a collection that fails has a cause and no finding.
THEOREM FailsClosed == Spec => []WalkFailsClosed
<1>1. IInv => WalkFailsClosed
  <2> SUFFICES ASSUME IInv PROVE WalkFailsClosed
    OBVIOUS
  <2> DEFINE Stops == \E n \in 1 .. Len(given) :
                 \/ RootOf[given[n]] = "gone"
                 \/ /\ RootOf[given[n]] \in Dirs
                    /\ \E f \in Under(RootOf[given[n]]) :
                         \/ world[f].status = "unreadable"
                         \/ world[f].status = "broken" /\ f \notin excluded
  <2>1. Stops <=> \E n \in 1 .. Len(given) : StopsAt(n)
    BY DEF StopsAt, Refuses
  <2> HIDE DEF Stops
  <2>2. phase = "done" => ~ Stops
    <3>1. phase = "done" => 1 .. Len(given) = 1 .. root - 1
      BY TypeFacts DEF IInv, AtWork
    <3> QED
      BY <2>1, <3>1 DEF IInv, Unstopped
  <2>3. phase = "failed" => Stops /\ findings = <<>>
    BY <2>1 DEF IInv, Stopped
  <2> QED
    BY <2>2, <2>3 DEF WalkFailsClosed, IInv, Stops
<1> QED
  BY <1>1, Invariance, PTL

\* What the walk adds is what is documented, or declared out of its sight.
LEMMA CollectableFacts ==
  ASSUME NEW f PROVE Collectable(f) <=> Documented(f) \/ ShadowUnseen(f)
<1>1. (\A g \in Files :
         InBuild(g) /\ DirOf[g] = DirOf[f] /\ world[g].package = world[f].package =>
           ~ world[g].declares)
        <=> Shadowing(f) \subseteq excluded
  BY DEF Shadowing, InBuild
<1> QED
  BY <1>1 DEF Collectable, Documented, ShadowUnseen

\* CollectsByTheRule: whatever the order of the roots and of the walk, each use
\* of a documented file, and of one whose shadow is out of sight, is a finding
\* once per root that covers the file, and no other use is one.
THEOREM CollectedByTheRule == Spec => []CollectsByTheRule
<1>1. IInv => CollectsByTheRule
  <2> SUFFICES ASSUME IInv, phase = "done", NEW f \in Files, NEW n \in DOMAIN UsesOf[f]
               PROVE  Cardinality(Occurrences(findings, FindingsIn(f)[n])) =
                        IF Collectable(f) THEN Cardinality(Covering(f)) ELSE 0
    BY CollectableFacts DEF CollectsByTheRule
  <2>1. Passed(f) = Covering(f)
    BY TypeFacts DEF IInv, AtWork, Passed, Covering
  <2>2. ~ Collected(f)
    BY DEF Collected
  <2>3. Cardinality(Covering(f)) \in Nat
    BY <2>1, PassedFacts DEF IInv
  <2> QED
    BY <2>1, <2>2, <2>3 DEF IInv, Counted, Times
<1> QED
  BY <1>1, Invariance, PTL

\* SlicesAreFiles: the index by file gives each file its own findings, all of
\* them, in the order of their lines.
THEOREM SlicesExact == Spec => []SlicesAreFiles
<1>1. IInv => SlicesAreFiles
  BY DEF IInv
<1> QED
  BY <1>1, Invariance, PTL

\* PassesReportAll: the diagnostics of the passes, package by package, add up to
\* what the repo-wide audit collects.
THEOREM PassesReportTheWalk == Spec => []PassesReportAll
<1>1. ASSUME IInv, CollectsByTheRule, phase = "done"
      PROVE  UNION {PassReports(p) : p \in Packages} = Range(findings)
  <2>1. findings \in Seq(Findings) /\ DOMAIN findings = 1 .. Len(findings)
        /\ Len(findings) \in Nat
    BY <1>1 DEF IInv, TypeOK
  <2>2. ASSUME NEW f \in Files
        PROVE  Range(Slice(f)) = {findings[n] : n \in {m \in DOMAIN findings : findings[m].file = f}}
    <3> DEFINE own == {m \in DOMAIN findings : findings[m].file = f}
               a == ranges[f].start
               b == ranges[f].end
    <3>1. own = IF f \in DOMAIN ranges THEN a .. b ELSE {}
      BY <1>1 DEF IInv, SlicesAreFiles
    <3>2. f \in DOMAIN ranges => a \in Nat /\ b \in Nat
      BY <1>1 DEF IInv, TypeOK
    <3>3. own \subseteq 1 .. Len(findings)
      BY <2>1
    <3> HIDE DEF own, a, b
    <3>4. CASE f \in DOMAIN ranges
      <4>1. Slice(f) = SubSeq(findings, a, b)
        BY <3>4 DEF Slice, a, b
      <4>2. DOMAIN Slice(f) = 1 .. (1 + b) - a
            /\ \A i \in 1 .. (1 + b) - a : Slice(f)[i] = findings[(i + a) - 1]
        BY <2>1, <3>1, <3>2, <3>3, <3>4, <4>1
      <4>3. ASSUME NEW i \in DOMAIN Slice(f) PROVE \E n \in own : Slice(f)[i] = findings[n]
        <5>1. (i + a) - 1 \in own
          BY <3>1, <3>2, <3>4, <4>2
        <5> QED
          BY <4>2, <5>1
      <4>4. ASSUME NEW n \in own PROVE \E i \in DOMAIN Slice(f) : Slice(f)[i] = findings[n]
        <5>1. (n - a) + 1 \in 1 .. (1 + b) - a /\ (((n - a) + 1) + a) - 1 = n
          BY <3>1, <3>2, <3>4
        <5> QED
          BY <4>2, <5>1
      <4> QED
        BY <4>3, <4>4 DEF Range, own
    <3>5. CASE f \notin DOMAIN ranges
      BY <3>1, <3>5 DEF Slice, Range, own
    <3> QED
      BY <3>4, <3>5
  <2>3. ASSUME NEW p \in Packages, NEW x \in PassReports(p) PROVE x \in Range(findings)
    <3>1. PICK f \in p : x \in Range(Slice(f))
      BY DEF PassReports
    <3>2. f \in Files
      BY DEF Packages
    <3> QED
      BY <2>2, <3>1, <3>2 DEF Range
  <2>4. ASSUME NEW x \in Range(findings) PROVE \E p \in Packages : x \in PassReports(p)
    <3>1. PICK n \in DOMAIN findings : findings[n] = x
      BY DEF Range
    <3>2. x \in Findings
      BY <2>1, <3>1
    <3> DEFINE f == x.file
    <3>3. f \in Files /\ \E k \in DOMAIN UsesOf[f] : x = FindingsIn(f)[k]
      BY <3>2, FindingFacts
    <3> HIDE DEF f
    <3>4. Collectable(f) /\ Covering(f) # {}
      <4>1. PICK k \in DOMAIN UsesOf[f] : x = FindingsIn(f)[k]
        BY <3>3
      <4>2. Cardinality(Occurrences(findings, x)) =
              IF Collectable(f) THEN Cardinality(Covering(f)) ELSE 0
        BY <1>1, <3>3, <4>1, CollectableFacts DEF CollectsByTheRule
      <4>3. IsFiniteSet(Occurrences(findings, x)) /\ n \in Occurrences(findings, x)
        BY <2>1, <3>1, OccurrencesFinite DEF Occurrences
      <4>4. Cardinality(Occurrences(findings, x)) # 0
        BY <4>3, FS_EmptySet
      <4> QED
        BY <4>2, <4>4, FS_EmptySet
    <3>5. IsWithinRoots(f) /\ f \notin excluded
      BY <3>4 DEF Covering, IsWithinRoots, Collectable, InBuild
    <3>6. x \in Range(Slice(f))
      BY <2>2, <3>1, <3>3 DEF f
    <3> DEFINE p == {g \in Files : SamePackage(f, g)}
    <3>7. p \in Packages /\ f \in p
      BY <3>3 DEF Packages, SamePackage
    <3>8. x \in PassReports(p)
      BY <3>5, <3>6, <3>7 DEF PassReports
    <3> QED
      BY <3>7, <3>8
  <2> QED
    BY <2>3, <2>4
<1>2. IInv /\ CollectsByTheRule => PassesReportAll
  BY <1>1 DEF PassesReportAll
<1> QED
  BY <1>2, Invariance, CollectedByTheRule, PTL

=============================================================================
