---------------------- MODULE CustomLinterBuildProofs ----------------------
(***************************************************************************)
(* Theorems about CustomLinterBuild, for any number of shells, edits and   *)
(* kills: the fingerprint never runs ahead of the binary, and a smoke test *)
(* runs a linter of sources it has seen.                                   *)
(***************************************************************************)
EXTENDS CustomLinterBuild, TLAPS

-----------------------------------------------------------------------------
(* The invariant.                                                           *)

\* No two builds were at work at once, and the sources only went forward.
Quiet == Serial /\ "revert" \notin troubles

\* Places where a build holds a fingerprint.
Deep == {"snapshot", "build"} \cup Installing

\* A build past its fingerprint is alone.
Alone == \A r, q \in Runners : pc[r] \in Deep /\ pc[q] \in Deep => r = q

\* Nothing is newer than the sources, and the fingerprint not than the binary.
Forward ==
  /\ sources = newest
  /\ binary \in Versions => binary <= sources
  /\ label \in Versions => label <= sources
  /\ label \in Versions /\ binary \in Versions => label <= binary

\* What a build has in hand, in order of age: the label before it, its
\* fingerprint, its snapshot, the sources.
InOrder(r) ==
  /\ pc[r] \in Deep => print[r] \in Versions /\ print[r] <= sources
  /\ pc[r] \in Deep /\ pc[r] # "labelling" =>
       (label \in Versions => label <= print[r])
  /\ pc[r] \in {"build", "move", "moving"} =>
       /\ snapshot[r] \in Versions
       /\ print[r] <= snapshot[r] /\ snapshot[r] <= sources
  /\ pc[r] \in {"label", "labelling"} => binary \in Versions /\ print[r] <= binary
  /\ pc[r] = "labelling" => label = Empty

\* What a smoke script has seen: all sources from one on, among them whatever
\* it compares, builds and uses, and whatever others build under its hands.
Watches(r) ==
  /\ pc[r] # "idle" =>
       /\ sources \in since[r]
       /\ \A v \in since[r], w \in Versions : v <= w /\ w <= sources => w \in since[r]
  /\ pc[r] = "compare" => print[r] \in since[r] /\ binary \in Versions \cup {Torn}
  /\ pc[r] \in Deep => print[r] \in since[r]
  /\ pc[r] = "use" =>
       /\ binary \in since[r] \cup {Torn}
       /\ \A q \in Runners : pc[q] \in Deep => print[q] \in since[r]

Settled ==
  /\ Forward
  /\ \A r \in Runners : InOrder(r)
  /\ \A r \in Smokes : Watches(r)

\* Nothing happened that parts a label from its binary, though the sources may
\* have gone back.
Calm == troubles \cap {"overlap", "kill", "slip"} = {}

Paired ==
  /\ \A r \in Runners :
       /\ pc[r] \in {"build", "move", "moving"} => snapshot[r] = print[r]
       /\ pc[r] \in {"label", "labelling"} => binary = print[r]
  /\ label \in Versions /\ (\A r \in Runners : pc[r] \notin Installing) => binary = label

IInv ==
  /\ TypeOK
  /\ Serial => Alone
  /\ Quiet => Settled
  /\ Calm => Paired

-----------------------------------------------------------------------------
(* Lemmas. *)

\* Versions are numbers, and what stands for no version is none.
LEMMA VersionFacts ==
  /\ \A v \in Versions : v \in Nat
  /\ MaxEdits \in Nat /\ 0 \in Versions
  /\ None \notin Versions /\ Torn \notin Versions /\ Empty \notin Versions
BY FileAssumption, BoundAssumption DEF Versions

\* The sources are a version, and so are older ones.
LEMMA SourcesFacts ==
  ASSUME TypeOK
  PROVE  /\ sources \in Versions /\ newest \in Versions
         /\ \A v \in 0 .. newest : v \in Versions
BY BoundAssumption DEF TypeOK, Versions

\* Each step keeps the types.
LEMMA TypeStep ==
  ASSUME TypeOK, [Next]_vars
  PROVE  TypeOK'
<1> USE VersionFacts, SourcesFacts, BoundAssumption
    DEF TypeOK, Unknown, Places, Building, Installing, Troubles, MaxAttempts
<1>1. ASSUME NEW r \in Runners, Call(r) PROVE TypeOK'
  BY <1>1 DEF Call, Goto, files
<1>2. ASSUME NEW r \in Runners, LookForFiles(r) PROVE TypeOK'
  BY <1>2 DEF LookForFiles, Goto, files
<1>3. ASSUME NEW r \in Runners, Compare(r) PROVE TypeOK'
  BY <1>3 DEF Compare, Goto, files
<1>4. ASSUME NEW r \in Runners, Fingerprint(r) PROVE TypeOK'
  BY <1>4 DEF Fingerprint, Goto, files
<1>5. ASSUME NEW r \in Runners, Snapshot(r) PROVE TypeOK'
  <2>1. /\ pc' \in [Runners -> Places] /\ attempt' \in [Runners -> 0 .. 3]
        /\ snapshot' \in [Runners -> Unknown]
    BY <1>5 DEF Snapshot, Goto, files
  <2>2. troubles' \subseteq Troubles
    BY <1>5 DEF Snapshot
  <2> QED
    BY <2>1, <2>2, <1>5 DEF Snapshot, files
<1>6. ASSUME NEW r \in Runners, Build(r) PROVE TypeOK'
  BY <1>6 DEF Build, Goto, files
<1>7. ASSUME NEW r \in Runners, BuildFails(r) PROVE TypeOK'
  <2>1. CASE attempt[r] < MaxAttempts /\ attempt' = [attempt EXCEPT ![r] = attempt[r] + 1]
             /\ UNCHANGED <<pc, print, snapshot, since>>
    <3>1. attempt[r] \in 0 .. 3
      OBVIOUS
    <3>2. attempt[r] + 1 \in 0 .. 3
      BY <3>1, <2>1
    <3>3. attempt' \in [Runners -> 0 .. 3]
      BY <3>2, <2>1
    <3> QED
      BY <3>3, <2>1, <1>7 DEF BuildFails, files
  <2>2. CASE Quit(r)
    BY <2>2, <1>7 DEF BuildFails, Quit, files
  <2> QED
    BY <2>1, <2>2, <1>7 DEF BuildFails
<1>8. ASSUME NEW r \in Runners, MoveBegins(r) PROVE TypeOK'
  BY <1>8 DEF MoveBegins, Goto
<1>9. ASSUME NEW r \in Runners, MoveEnds(r) PROVE TypeOK'
  BY <1>9 DEF MoveEnds, Goto
<1>10. ASSUME NEW r \in Runners, LabelBegins(r) PROVE TypeOK'
  BY <1>10 DEF LabelBegins, Goto
<1>11. ASSUME NEW r \in Runners, LabelEnds(r) PROVE TypeOK'
  BY <1>11 DEF LabelEnds, Quit, Goto
<1>12. ASSUME NEW r \in Runners, Use(r) PROVE TypeOK'
  BY <1>12 DEF Use, Quit, files
<1>13. ASSUME NEW r \in Runners, Kill(r) PROVE TypeOK'
  <2>1. kills' \in 0 .. MaxKills
    BY <1>13 DEF Kill
  <2>2. troubles' \subseteq Troubles
    BY <1>13 DEF Kill
  <2> QED
    BY <2>1, <2>2, <1>13 DEF Kill, Quit, files
<1>14. CASE Edit
  <2>1. /\ newest' \in Versions /\ sources' \in Versions
        /\ sources' \in 0 .. newest'
    BY <1>14 DEF Edit, ChangeTo, Versions
  <2>2. since' \in [Runners -> SUBSET Versions]
    BY <2>1, <1>14 DEF Edit, ChangeTo
  <2> QED
    BY <2>1, <2>2, <1>14 DEF Edit, ChangeTo
<1>15. ASSUME NEW v \in Versions, Revert(v) PROVE TypeOK'
  BY <1>15 DEF Revert, ChangeTo
<1>16. CASE UNCHANGED vars
  BY <1>16 DEF vars
<1> QED
  BY <1>1, <1>2, <1>3, <1>4, <1>5, <1>6, <1>7, <1>8, <1>9, <1>10, <1>11, <1>12, <1>13,
     <1>14, <1>15, <1>16
  DEF Next, Work

\* What has happened does not go away: a step that ends quiet or calm began so.
LEMMA TroublesStay ==
  ASSUME [Next]_vars
  PROVE  troubles \subseteq troubles'
<1>1. ASSUME NEW r \in Runners, Call(r) \/ Work(r) \/ Build(r)
      PROVE  troubles \subseteq troubles'
  BY <1>1
  DEF Work, Call, LookForFiles, Compare, Fingerprint, Snapshot, Build, MoveBegins,
      MoveEnds, LabelBegins, LabelEnds, Use
<1>2. ASSUME NEW r \in Runners, BuildFails(r) \/ Kill(r)
      PROVE  troubles \subseteq troubles'
  BY <1>2 DEF BuildFails, Kill
<1>3. CASE Edit
  BY <1>3 DEF Edit
<1>4. ASSUME NEW v \in Versions, Revert(v) PROVE troubles \subseteq troubles'
  BY <1>4 DEF Revert
<1>5. CASE UNCHANGED vars
  BY <1>5 DEF vars
<1> QED
  BY <1>1, <1>2, <1>3, <1>4, <1>5 DEF Next

\* While no two builds are at work, a build stays alone.
LEMMA AloneStep ==
  ASSUME TypeOK, Serial', Serial => Alone, [Next]_vars
  PROVE  Alone'
<1> USE DEF Deep, Installing
<1>0. pc \in [Runners -> Places]
  BY DEF TypeOK
<1>1. ASSUME NEW r \in Runners, Call(r) PROVE Alone'
  BY <1>0, <1>1 DEF Call, Goto, Serial, Alone
<1>2. ASSUME NEW r \in Runners, LookForFiles(r) PROVE Alone'
  BY <1>0, <1>2 DEF LookForFiles, Goto, Serial, Alone
<1>3. ASSUME NEW r \in Runners, Compare(r) PROVE Alone'
  BY <1>0, <1>3 DEF Compare, Goto, Serial, Alone
<1>4. ASSUME NEW r \in Runners, Fingerprint(r) PROVE Alone'
  <2>1. \A q \in Runners \ {r} : pc[q] \notin Building
    BY <1>4 DEF Fingerprint, Serial
  <2>2. \A q \in Runners \ {r} : pc'[q] \notin Deep
    BY <2>1, <1>0, <1>4 DEF Fingerprint, Goto, Building
  <2> QED
    BY <2>2 DEF Alone
<1>5. ASSUME NEW r \in Runners, Snapshot(r) PROVE Alone'
  BY <1>0, <1>5 DEF Snapshot, Goto, Serial, Alone
<1>6. ASSUME NEW r \in Runners, Build(r) PROVE Alone'
  BY <1>0, <1>6 DEF Build, Goto, Serial, Alone
<1>7. ASSUME NEW r \in Runners, BuildFails(r) PROVE Alone'
  BY <1>0, <1>7 DEF BuildFails, Quit, Serial, Alone
<1>8. ASSUME NEW r \in Runners, MoveBegins(r) PROVE Alone'
  BY <1>0, <1>8 DEF MoveBegins, Goto, Serial, Alone
<1>9. ASSUME NEW r \in Runners, MoveEnds(r) PROVE Alone'
  BY <1>0, <1>9 DEF MoveEnds, Goto, Serial, Alone
<1>10. ASSUME NEW r \in Runners, LabelBegins(r) PROVE Alone'
  BY <1>0, <1>10 DEF LabelBegins, Goto, Serial, Alone
<1>11. ASSUME NEW r \in Runners, LabelEnds(r) PROVE Alone'
  BY <1>0, <1>11 DEF LabelEnds, Quit, Goto, Serial, Alone
<1>12. ASSUME NEW r \in Runners, Use(r) PROVE Alone'
  BY <1>0, <1>12 DEF Use, Quit, Serial, Alone
<1>13. ASSUME NEW r \in Runners, Kill(r) PROVE Alone'
  BY <1>0, <1>13 DEF Kill, Quit, Serial, Alone
<1>14. CASE Edit
  BY <1>14 DEF Edit, ChangeTo, Serial, Alone
<1>15. ASSUME NEW v \in Versions, Revert(v) PROVE Alone'
  BY <1>15 DEF Revert, ChangeTo, Serial, Alone
<1>16. CASE UNCHANGED vars
  BY <1>16 DEF vars, Serial, Alone
<1> QED
  BY <1>1, <1>2, <1>3, <1>4, <1>5, <1>6, <1>7, <1>8, <1>9, <1>10, <1>11, <1>12, <1>13,
     <1>14, <1>15, <1>16
  DEF Next, Work

\* Each step keeps the order of things.
LEMMA SettledStep ==
  ASSUME TypeOK, TypeOK', Alone, Alone', Settled, Quiet, Quiet', [Next]_vars
  PROVE  Settled'
<1> USE VersionFacts, SourcesFacts, RunnerAssumption DEF Deep, Installing
<1>0. pc \in [Runners -> Places] /\ print \in [Runners -> Unknown]
     /\ snapshot \in [Runners -> Unknown]
     /\ since \in [Runners -> SUBSET Versions]
     /\ sources \in Nat /\ binary \in Versions \cup {None, Torn}
     /\ label \in Versions \cup {None, Empty}
  BY DEF TypeOK, Unknown
<1>1. ASSUME NEW r \in Runners, Call(r) PROVE Settled'
  <2>1. Forward'
    BY <1>0, <1>1 DEF Call, Goto, files, Settled, Forward, InOrder
  <2>2. ASSUME NEW q \in Runners PROVE InOrder(q)'
    BY <1>0, <1>1 DEF Call, Goto, files, Settled, Alone, Forward, InOrder
  <2>3. ASSUME NEW q \in Smokes PROVE Watches(q)'
    BY <1>0, <1>1
    DEF Call, Goto, files, Settled, Alone, Forward, InOrder, Watches, Runners
  <2> QED
    BY <2>1, <2>2, <2>3 DEF Settled
<1>2. ASSUME NEW r \in Runners, LookForFiles(r) PROVE Settled'
  <2>1. Forward'
    BY <1>0, <1>2 DEF LookForFiles, Goto, files, Settled, Forward, InOrder
  <2>2. ASSUME NEW q \in Runners PROVE InOrder(q)'
    BY <1>0, <1>2 DEF LookForFiles, Goto, files, Settled, Alone, Forward, InOrder
  <2>3. ASSUME NEW q \in Smokes PROVE Watches(q)'
    <3>1. Watches(q)
      BY DEF Settled
    <3>2. CASE q = r
      BY <3>1, <3>2, <1>0, <1>2 DEF LookForFiles, Goto, files, Watches
    <3>3. CASE q # r
      BY <3>1, <3>3, <1>0, <1>2 DEF LookForFiles, Goto, files, Watches, Runners
    <3> QED
      BY <3>2, <3>3
  <2> QED
    BY <2>1, <2>2, <2>3 DEF Settled
<1>3. ASSUME NEW r \in Runners, Compare(r) PROVE Settled'
  <2>1. Forward'
    BY <1>0, <1>3 DEF Compare, Goto, files, Settled, Forward, InOrder
  <2>2. ASSUME NEW q \in Runners PROVE InOrder(q)'
    BY <1>0, <1>3 DEF Compare, Goto, files, Settled, Alone, Forward, InOrder
  <2>3. ASSUME NEW q \in Smokes PROVE Watches(q)'
    <3>1. Watches(q) /\ q \in Runners
      BY DEF Settled, Runners
    <3>2. CASE q = r /\ pc'[r] = "use"
      <4>1. /\ label = print[r] /\ label \in since[r] /\ label \in Versions
            /\ binary \in Versions \cup {Torn}
            /\ sources \in Versions
            /\ \A w \in Versions : label <= w /\ w <= sources => w \in since[r]
        BY <3>1, <3>2, <1>0, <1>3 DEF Compare, Goto, Watches
      <4>2. binary \in since[r] \cup {Torn}
        BY <4>1 DEF Settled, Forward
      <4>3. ASSUME NEW p \in Runners, pc[p] \in Deep PROVE print[p] \in since[r]
        BY <4>1, <4>3 DEF Settled, InOrder
      <4> QED
        BY <3>1, <3>2, <4>2, <4>3, <1>0, <1>3 DEF Compare, Goto, files, Watches
    <3>3. CASE ~ (q = r /\ pc'[r] = "use")
      BY <3>1, <3>3, <1>0, <1>3 DEF Compare, Goto, files, Watches
    <3> QED
      BY <3>2, <3>3
  <2> QED
    BY <2>1, <2>2, <2>3 DEF Settled
<1>4. ASSUME NEW r \in Runners, Fingerprint(r) PROVE Settled'
  <2>1. Forward'
    BY <1>0, <1>4 DEF Fingerprint, Goto, files, Settled, Forward, InOrder
  <2>2. ASSUME NEW q \in Runners PROVE InOrder(q)'
    <3>1. CASE q = r
      BY <3>1, <1>0, <1>4 DEF Fingerprint, Goto, files, Settled, Forward, InOrder
    <3>2. CASE q # r
      BY <3>2, <1>0, <1>4 DEF Fingerprint, Goto, files, Settled, InOrder
    <3> QED
      BY <3>1, <3>2
  <2>3. ASSUME NEW q \in Smokes PROVE Watches(q)'
    BY <1>0, <1>4
    DEF Fingerprint, Goto, files, Settled, Alone, Forward, InOrder, Watches, Runners
  <2> QED
    BY <2>1, <2>2, <2>3 DEF Settled
<1>5. ASSUME NEW r \in Runners, Snapshot(r) PROVE Settled'
  <2>1. Forward'
    BY <1>0, <1>5 DEF Snapshot, Goto, files, Settled, Forward, InOrder
  <2>2. ASSUME NEW q \in Runners PROVE InOrder(q)'
    <3>1. CASE q = r
      <4>1. InOrder(r) /\ pc'[r] = "build" /\ snapshot'[r] = sources
        BY <1>0, <1>5 DEF Snapshot, Goto, Settled
      <4> QED
        BY <3>1, <4>1, <1>0, <1>5 DEF Snapshot, Goto, files, InOrder
    <3>2. CASE q # r
      BY <3>2, <1>0, <1>5 DEF Snapshot, Goto, files, Settled, InOrder
    <3> QED
      BY <3>1, <3>2
  <2>3. ASSUME NEW q \in Smokes PROVE Watches(q)'
    BY <1>0, <1>5
    DEF Snapshot, Goto, files, Settled, Alone, Forward, InOrder, Watches, Runners
  <2> QED
    BY <2>1, <2>2, <2>3 DEF Settled
<1>6. ASSUME NEW r \in Runners, Build(r) PROVE Settled'
  <2>1. Forward'
    BY <1>0, <1>6 DEF Build, Goto, files, Settled, Forward, InOrder
  <2>2. ASSUME NEW q \in Runners PROVE InOrder(q)'
    BY <1>0, <1>6 DEF Build, Goto, files, Settled, Alone, Forward, InOrder
  <2>3. ASSUME NEW q \in Smokes PROVE Watches(q)'
    BY <1>0, <1>6
    DEF Build, Goto, files, Settled, Alone, Forward, InOrder, Watches, Runners
  <2> QED
    BY <2>1, <2>2, <2>3 DEF Settled
<1>7. ASSUME NEW r \in Runners, BuildFails(r) PROVE Settled'
  <2>1. Forward'
    BY <1>0, <1>7 DEF BuildFails, Quit, files, Settled, Forward, InOrder
  <2>2. ASSUME NEW q \in Runners PROVE InOrder(q)'
    BY <1>0, <1>7 DEF BuildFails, Quit, files, Settled, Alone, Forward, InOrder
  <2>3. ASSUME NEW q \in Smokes PROVE Watches(q)'
    BY <1>0, <1>7
    DEF BuildFails, Quit, files, Settled, Alone, Forward, InOrder, Watches, Runners
  <2> QED
    BY <2>1, <2>2, <2>3 DEF Settled
<1>8. ASSUME NEW r \in Runners, MoveBegins(r) PROVE Settled'
  <2>1. Forward'
    BY <1>0, <1>8 DEF MoveBegins, Goto, Settled, Forward, InOrder
  <2>2. ASSUME NEW q \in Runners PROVE InOrder(q)'
    BY <1>0, <1>8 DEF MoveBegins, Goto, Settled, Alone, Forward, InOrder
  <2>3. ASSUME NEW q \in Smokes PROVE Watches(q)'
    BY <1>0, <1>8 DEF MoveBegins, Goto, Settled, Alone, Forward, InOrder, Watches, Runners
  <2> QED
    BY <2>1, <2>2, <2>3 DEF Settled
<1>9. ASSUME NEW r \in Runners, MoveEnds(r) PROVE Settled'
  <2>1. Forward'
    <3>1. /\ snapshot[r] \in Versions /\ print[r] \in Versions
          /\ print[r] <= snapshot[r] /\ snapshot[r] <= sources
          /\ label \in Versions => label <= print[r]
      BY <1>9 DEF MoveEnds, Settled, InOrder
    <3>2. ASSUME label \in Versions PROVE label <= snapshot[r]
      <4>1. label \in Nat /\ print[r] \in Nat /\ snapshot[r] \in Nat
        BY <3>1, <3>2
      <4> QED
        BY <3>1, <3>2, <4>1
    <3> QED
      BY <3>1, <3>2, <1>9 DEF MoveEnds, Settled, Forward
  <2>2. ASSUME NEW q \in Runners PROVE InOrder(q)'
    BY <1>0, <1>9 DEF MoveEnds, Goto, Settled, Alone, Forward, InOrder
  <2>3. ASSUME NEW q \in Smokes PROVE Watches(q)'
    BY <1>0, <1>9 DEF MoveEnds, Goto, Settled, Alone, Forward, InOrder, Watches, Runners
  <2> QED
    BY <2>1, <2>2, <2>3 DEF Settled
<1>10. ASSUME NEW r \in Runners, LabelBegins(r) PROVE Settled'
  <2>1. Forward'
    BY <1>0, <1>10 DEF LabelBegins, Goto, Settled, Forward, InOrder
  <2>2. ASSUME NEW q \in Runners PROVE InOrder(q)'
    BY <1>0, <1>10 DEF LabelBegins, Goto, Settled, Alone, Forward, InOrder
  <2>3. ASSUME NEW q \in Smokes PROVE Watches(q)'
    BY <1>0, <1>10
    DEF LabelBegins, Goto, Settled, Alone, Forward, InOrder, Watches, Runners
  <2> QED
    BY <2>1, <2>2, <2>3 DEF Settled
<1>11. ASSUME NEW r \in Runners, LabelEnds(r) PROVE Settled'
  <2>1. Forward'
    BY <1>0, <1>11 DEF LabelEnds, Quit, Goto, Settled, Forward, InOrder
  <2>2. ASSUME NEW q \in Runners PROVE InOrder(q)'
    BY <1>0, <1>11 DEF LabelEnds, Quit, Goto, Settled, Alone, Forward, InOrder
  <2>3. ASSUME NEW q \in Smokes PROVE Watches(q)'
    <3>1. Watches(q) /\ q \in Runners
      BY DEF Settled, Runners
    <3>2. CASE q = r
      <4>1. /\ print[r] \in since[r] /\ print[r] \in Versions
            /\ binary \in Versions /\ print[r] <= binary /\ binary <= sources
        BY <3>1, <3>2, <1>11 DEF LabelEnds, Watches, Settled, InOrder, Forward
      <4>2. binary \in since[r]
        BY <3>1, <3>2, <4>1, <1>11 DEF LabelEnds, Watches
      <4>3. pc' = [pc EXCEPT ![r] = "use"] /\ since' = since
        BY <3>2, <1>11, RunnerAssumption DEF LabelEnds, Goto
      <4>4. \A p \in Runners : pc'[p] \notin Deep
        BY <4>3, <1>0, <1>11 DEF LabelEnds, Settled, Alone
      <4> QED
        BY <3>1, <3>2, <4>2, <4>3, <4>4, <1>0, <1>11 DEF LabelEnds, Watches
    <3>3. CASE q # r
      <4>1. \A p \in Runners : pc'[p] \notin Deep
        BY <1>0, <1>11 DEF LabelEnds, Quit, Goto, Settled, Alone
      <4>2. pc'[q] = pc[q] /\ since'[q] = since[q] /\ print'[q] = print[q]
        BY <3>1, <3>3, <1>0, <1>11 DEF LabelEnds, Quit, Goto
      <4> QED
        BY <3>1, <4>1, <4>2, <1>11 DEF LabelEnds, Watches
    <3> QED
      BY <3>2, <3>3
  <2> QED
    BY <2>1, <2>2, <2>3 DEF Settled
<1>12. ASSUME NEW r \in Runners, Use(r) PROVE Settled'
  <2>1. Forward'
    BY <1>0, <1>12 DEF Use, Quit, files, Settled, Forward, InOrder
  <2>2. ASSUME NEW q \in Runners PROVE InOrder(q)'
    BY <1>0, <1>12 DEF Use, Quit, files, Settled, Alone, Forward, InOrder
  <2>3. ASSUME NEW q \in Smokes PROVE Watches(q)'
    BY <1>0, <1>12
    DEF Use, Quit, files, Settled, Alone, Forward, InOrder, Watches, Runners
  <2> QED
    BY <2>1, <2>2, <2>3 DEF Settled
<1>13. ASSUME NEW r \in Runners, Kill(r) PROVE Settled'
  <2>1. Forward'
    BY <1>0, <1>13 DEF Kill, Quit, files, Settled, Forward, InOrder
  <2>2. ASSUME NEW q \in Runners PROVE InOrder(q)'
    BY <1>0, <1>13 DEF Kill, Quit, files, Settled, Alone, Forward, InOrder
  <2>3. ASSUME NEW q \in Smokes PROVE Watches(q)'
    BY <1>0, <1>13
    DEF Kill, Quit, files, Settled, Alone, Forward, InOrder, Watches, Runners
  <2> QED
    BY <2>1, <2>2, <2>3 DEF Settled
<1>14. CASE Edit
  <2>1. Forward'
    BY <1>0, <1>14 DEF Edit, ChangeTo, Settled, Forward
  <2>2. ASSUME NEW q \in Runners PROVE InOrder(q)'
    <3>1. /\ sources \in Nat /\ sources' = sources + 1
          /\ UNCHANGED <<pc, print, snapshot, binary, label>>
      BY <1>0, <1>14 DEF Edit, ChangeTo, Settled, Forward
    <3>2. \A v \in Versions : v <= sources => v <= sources'
      BY <3>1
    <3> QED
      BY <3>1, <3>2, <1>0 DEF Settled, InOrder
  <2>3. ASSUME NEW q \in Smokes PROVE Watches(q)'
    <3>1. Watches(q) /\ q \in Runners
      BY DEF Settled, Runners
    <3>2. /\ sources \in Nat /\ sources' = sources + 1
          /\ UNCHANGED <<pc, print, binary>>
      BY <1>0, <1>14 DEF Edit, ChangeTo, Settled, Forward
    <3>3. pc[q] # "idle" => since'[q] = since[q] \cup {sources'}
      BY <3>1, <3>2, <1>0, <1>14 DEF Edit, ChangeTo, Watches, Settled, Forward
    <3>4. ASSUME pc[q] # "idle", NEW v \in since'[q], NEW w \in Versions,
                 v <= w, w <= sources'
          PROVE  w \in since'[q]
      <4>1. CASE v \in since[q] /\ w <= sources
        BY <3>1, <3>3, <3>4, <4>1 DEF Watches
      <4>2. CASE w = sources'
        BY <3>3, <3>4, <4>2
      <4>3. w \in Nat /\ v \in Nat
        BY <3>1, <3>2, <3>3, <3>4, <1>0
      <4>4. CASE v = sources' /\ w # sources'
        BY <3>2, <3>4, <4>3, <4>4
      <4> QED
        BY <3>2, <3>3, <3>4, <4>1, <4>2, <4>3, <4>4
    <3> QED
      BY <3>1, <3>2, <3>3, <3>4 DEF Watches
  <2> QED
    BY <2>1, <2>2, <2>3 DEF Settled
<1>15. ASSUME NEW v \in Versions, Revert(v) PROVE Settled'
  BY <1>15 DEF Revert, Quiet
<1>16. CASE UNCHANGED vars
  BY <1>16 DEF vars, Settled, Alone, Forward, InOrder, Watches
<1> QED
  BY <1>1, <1>2, <1>3, <1>4, <1>5, <1>6, <1>7, <1>8, <1>9, <1>10, <1>11, <1>12, <1>13,
     <1>14, <1>15, <1>16
  DEF Next, Work

\* Each step keeps label and binary together.
LEMMA PairedStep ==
  ASSUME TypeOK, Alone, Calm => Paired, Calm', [Next]_vars
  PROVE  Paired'
<1> USE VersionFacts DEF Deep, Installing, Calm
<1>0. /\ pc \in [Runners -> Places] /\ print \in [Runners -> Unknown]
      /\ snapshot \in [Runners -> Unknown]
  BY DEF TypeOK
<1>1. ASSUME NEW r \in Runners, Call(r) PROVE Paired'
  BY <1>0, <1>1 DEF Call, Goto, files, Paired, Alone
<1>2. ASSUME NEW r \in Runners, LookForFiles(r) PROVE Paired'
  BY <1>0, <1>2 DEF LookForFiles, Goto, files, Paired, Alone
<1>3. ASSUME NEW r \in Runners, Compare(r) PROVE Paired'
  BY <1>0, <1>3 DEF Compare, Goto, files, Paired, Alone
<1>4. ASSUME NEW r \in Runners, Fingerprint(r) PROVE Paired'
  BY <1>0, <1>4 DEF Fingerprint, Goto, files, Paired, Alone
<1>5. ASSUME NEW r \in Runners, Snapshot(r) PROVE Paired'
  BY <1>0, <1>5 DEF Snapshot, Goto, files, Paired, Alone
<1>6. ASSUME NEW r \in Runners, Build(r) PROVE Paired'
  BY <1>0, <1>6 DEF Build, Goto, files, Paired, Alone
<1>7. ASSUME NEW r \in Runners, BuildFails(r) PROVE Paired'
  BY <1>0, <1>7 DEF BuildFails, Quit, files, Paired, Alone
<1>8. ASSUME NEW r \in Runners, MoveBegins(r) PROVE Paired'
  BY <1>0, <1>8 DEF MoveBegins, Goto, Paired, Alone
<1>9. ASSUME NEW r \in Runners, MoveEnds(r) PROVE Paired'
  BY <1>0, <1>9 DEF MoveEnds, Goto, Paired, Alone
<1>10. ASSUME NEW r \in Runners, LabelBegins(r) PROVE Paired'
  BY <1>0, <1>10 DEF LabelBegins, Goto, Paired, Alone
<1>11. ASSUME NEW r \in Runners, LabelEnds(r) PROVE Paired'
  BY <1>0, <1>11 DEF LabelEnds, Quit, Goto, Paired, Alone
<1>12. ASSUME NEW r \in Runners, Use(r) PROVE Paired'
  BY <1>0, <1>12 DEF Use, Quit, files, Paired, Alone
<1>13. ASSUME NEW r \in Runners, Kill(r) PROVE Paired'
  BY <1>0, <1>13 DEF Kill, Quit, files, Paired, Alone
<1>14. CASE Edit
  BY <1>14 DEF Edit, ChangeTo, Paired
<1>15. ASSUME NEW v \in Versions, Revert(v) PROVE Paired'
  BY <1>15 DEF Revert, ChangeTo, Paired
<1>16. CASE UNCHANGED vars
  BY <1>16 DEF vars, Paired
<1> QED
  BY <1>1, <1>2, <1>3, <1>4, <1>5, <1>6, <1>7, <1>8, <1>9, <1>10, <1>11, <1>12, <1>13,
     <1>14, <1>15, <1>16
  DEF Next, Work

-----------------------------------------------------------------------------
(* Theorems. *)

\* The invariant holds at the start and of every step.
THEOREM Invariance == Spec => []IInv
<1>1. ASSUME Init PROVE IInv
  BY <1>1, BoundAssumption, FileAssumption
  DEF Init, IInv, TypeOK, Unknown, Versions, Places, Building, Troubles, MaxAttempts,
      Alone, Settled, Forward, InOrder, Watches, Paired, Deep, Installing, Runners
<1>2. ASSUME IInv, [Next]_vars PROVE IInv'
  <2>1. TypeOK'
    BY <1>2, TypeStep DEF IInv
  <2>2. Serial' => Alone'
    BY <1>2, AloneStep DEF IInv
  <2>3. ASSUME Quiet' PROVE Settled'
    <3>1. Quiet /\ Serial /\ Serial'
      BY <1>2, <2>3, TroublesStay DEF Quiet, Serial
    <3> QED
      BY <1>2, <2>1, <2>2, <2>3, <3>1, SettledStep DEF IInv
  <2>4. ASSUME Calm' PROVE Paired'
    <3>1. Serial /\ Calm
      BY <1>2, <2>4, TroublesStay DEF Calm, Serial
    <3> QED
      BY <1>2, <2>4, <3>1, PairedStep DEF IInv
  <2> QED
    BY <2>1, <2>2, <2>3, <2>4 DEF IInv
<1> QED
  BY <1>1, <1>2, PTL DEF Spec

\* The fingerprint beside the linter is never newer than the linter, if the
\* sources only go forward and builds do not overlap.
THEOREM LabelsStayBehind == Spec => []LabelNeverAhead
<1>1. IInv => LabelNeverAhead
  BY DEF IInv, Quiet, Settled, Forward, LabelNeverAhead
<1> QED
  BY <1>1, Invariance, PTL

\* Unless a script was killed while it installed, or an edit came between
\* fingerprint and copy, the fingerprint is that of the linter.
THEOREM LabelsAreBinaries == Spec => []LabelIsBinary
<1>1. IInv => LabelIsBinary
  BY DEF IInv, Calm, Paired, LabelIsBinary
<1> QED
  BY <1>1, Invariance, PTL

\* A smoke test runs a linter of sources that were there since it started.
THEOREM SmokesRunCurrent == Spec => []RunsCurrent
<1>1. IInv => RunsCurrent
  BY DEF IInv, Quiet, Settled, Watches, RunsCurrent
<1> QED
  BY <1>1, Invariance, PTL
=============================================================================
