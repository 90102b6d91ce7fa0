----------------------- MODULE ReleaseWorkflowProofs -----------------------
(***************************************************************************)
(* Theorems about ReleaseWorkflow, for any number of pull requests, tags   *)
(* and mishaps: the workflow implements the register of versions, tags are *)
(* where their versions are announced, and the colour of a run tells the   *)
(* truth.                                                                  *)
(***************************************************************************)
EXTENDS ReleaseWorkflow, FiniteSetTheorems, TLAPS

-----------------------------------------------------------------------------
(* The invariant.                                                           *)

\* Each commit but the first stems from a pull request of its own.
OneCommitEach ==
  \A c, d \in DOMAIN main : main[c].from = main[d].from => c = d

\* Runs belong to commits that were pushed.
RunsOfPushes == \A c \in Commits : run[c].step # "none" => c \in 2 .. Len(main)

\* A run that passed prepare works on the version its commit announces, ...
OnTag(c) ==
  run[c].step \in {"tag", "check", "publish"} =>
    run[c].tag \in Tags /\ run[c].tag = Announced(c)

\* ... is past the push only if the tag is on its commit, and finds it there
\* before the push only if somebody put it there by hand.
TagInHand(c) ==
  /\ run[c].step \in {"check", "publish"} => tags[run[c].tag] = c
  /\ run[c].step = "tag" /\ tags[run[c].tag] = c => run[c].tag \in byHand

\* Tags are on commits, and releases on the commits of their tags.
Pointed ==
  \A t \in Tags : /\ tags[t] # 0 => tags[t] \in DOMAIN main
                  /\ releases[t] \in {0, tags[t]}

IInv ==
  /\ TypeOK
  /\ OneCommitEach
  /\ RunsOfPushes
  /\ \A c \in Commits : OnTag(c) /\ TagInHand(c)
  /\ Pointed
  /\ TagsAnnounce
  /\ GreenIsPublished
  /\ RefusedForCause

-----------------------------------------------------------------------------
(* Lemmas. *)

OnMain == [title : Titles, heading : Headings \cup {NoHeading},
           notes : BOOLEAN, from : Proposals \cup {None}]

\* A signal is a version only if the commit announces it in full, and an error
\* only if it announces none.
LEMMA SignalFacts ==
  ASSUME NEW k \in OnMain, NEW before \in Headings \cup {NoHeading}
  PROVE  /\ Signal(k, before) \in Tags \cup {Skipped, Refused}
         /\ Signal(k, before) \in Tags =>
              /\ k.heading \in Headings /\ TagOf[k.heading] = Signal(k, before)
              /\ k.title \in {Plain, Signal(k, before)} /\ k.notes
         /\ Signal(k, before) = Refused =>
              \A t \in Tags : ~ (/\ k.heading \in Headings /\ TagOf[k.heading] = t
                                 /\ k.title \in {Plain, t} /\ k.notes)
BY HeadingAssumption DEF Signal, OnMain, Titles

\* What a merge puts on main is a commit.
LEMMA SquashType ==
  ASSUME TypeOK, NEW p \in DOMAIN change
  PROVE  p \in Proposals /\ Squash(p) \in OnMain /\ Top \in Headings \cup {NoHeading}
<1>1. p \in Proposals /\ change[p] \in Change
  BY ChangeAssumption DEF TypeOK
<1>2. main \in Seq(OnMain) /\ Len(main) \in 1 .. Len(main)
  BY DEF TypeOK, OnMain, Commits
<1>3. main[Len(main)] \in OnMain
  BY <1>2
<1> QED
  BY <1>1, <1>3 DEF Squash, Top, OnMain, Change

\* main only grows at its end.
LEMMA MainGrows ==
  ASSUME TypeOK, [Next]_vars
  PROVE  /\ main \in Seq(OnMain) /\ main' \in Seq(OnMain)
         /\ Len(main) <= Len(main')
         /\ \A c \in DOMAIN main : c \in DOMAIN main' /\ main'[c] = main[c]
<1>1. main' = main \/ \E p \in DOMAIN change : main' = Append(main, Squash(p))
  BY DEF Next, vars, Validate, Merge, Start, Work, Prepare, PushTag, CheckRelease,
      PublishRelease, StepFails, ReplyLost, Rerun, RerunAnyway, PushByHand
<1>2. main \in Seq(OnMain)
  BY DEF TypeOK, OnMain
<1>3. CASE main' = main
  BY <1>2, <1>3
<1>4. ASSUME NEW p \in DOMAIN change, main' = Append(main, Squash(p))
      PROVE  /\ main' \in Seq(OnMain) /\ Len(main') = Len(main) + 1
             /\ \A c \in DOMAIN main : c \in DOMAIN main' /\ main'[c] = main[c]
  BY <1>2, <1>4, SquashType
<1> QED
  BY <1>1, <1>2, <1>3, <1>4

\* What a commit announces does not change.
LEMMA AnnouncedForGood ==
  ASSUME TypeOK, [Next]_vars
  PROVE  /\ \A c \in 2 .. Len(main) : Announced(c)' = Announced(c)
         /\ \A c \in DOMAIN main : \A t \in Tags : Announces(c, t)' = Announces(c, t)
<1>1. DOMAIN main = 1 .. Len(main)
  BY DEF TypeOK
<1>2. ASSUME NEW c \in 2 .. Len(main) PROVE c \in DOMAIN main /\ c - 1 \in DOMAIN main
  BY <1>1
<1>3. ASSUME NEW c \in 2 .. Len(main) PROVE Announced(c)' = Announced(c)
  BY <1>2, <1>3, MainGrows DEF Announced, Signal
<1> QED
  BY <1>3, MainGrows DEF Announces

\* A tag that is set stays, and so does a release.
LEMMA TagsStay ==
  ASSUME TypeOK, [Next]_vars
  PROVE  /\ \A t \in Tags : tags[t] # 0 => tags'[t] = tags[t]
         /\ \A t \in Tags : releases[t] # 0 => releases'[t] = releases[t]
         /\ byHand \subseteq byHand'
BY DEF TypeOK, Next, vars, host, Validate, Merge, Start, Work, Prepare, PushTag,
       CheckRelease,
    PublishRelease, StepFails, ReplyLost, Rerun, RerunAnyway, PushByHand

\* Commits are numbered from 1.
LEMMA CommitFacts ==
  /\ Cardinality(Proposals) \in Nat
  /\ \A c \in Commits : c \in Nat /\ c # 0
  /\ TypeOK => \A c \in DOMAIN main : c \in Commits
BY BoundAssumption, FS_CardinalityType DEF Commits, TypeOK

\* Distinct commits stem from distinct pull requests, so there is room for
\* the commit of a pull request that was not merged.
LEMMA RoomToMerge ==
  ASSUME TypeOK, OneCommitEach, NEW p \in DOMAIN change, ~ Merged(p)
  PROVE  Len(main) + 1 \in Commits
<1> DEFINE From == [c \in 1 .. Len(main) + 1 |->
                      IF c = Len(main) + 1 THEN p ELSE main[c].from]
<1>1. main \in Seq(OnMain) /\ Len(main) \in Nat /\ DOMAIN main = 1 .. Len(main)
  BY DEF TypeOK, OnMain
<1>2. IsFiniteSet(Proposals \cup {None})
        /\ Cardinality(Proposals \cup {None}) <= Cardinality(Proposals) + 1
        /\ Cardinality(Proposals) \in Nat
        /\ Cardinality(Proposals \cup {None}) \in Nat
  <2>1. IsFiniteSet(Proposals)
    BY BoundAssumption
  <2>2. /\ IsFiniteSet(Proposals \cup {None})
        /\ Cardinality(Proposals \cup {None}) =
             IF None \in Proposals THEN Cardinality(Proposals) ELSE Cardinality(Proposals) + 1
    BY <2>1, FS_AddElement
  <2> QED
    BY <2>2, CommitFacts
<1>3. \A c \in 1 .. Len(main) : From[c] = main[c].from /\ From[c] # p
                                /\ From[c] \in Proposals \cup {None}
  <2> SUFFICES ASSUME NEW c \in 1 .. Len(main)
               PROVE  From[c] = main[c].from /\ From[c] # p
                        /\ From[c] \in Proposals \cup {None}
    OBVIOUS
  <2>1. c \in DOMAIN main /\ c # Len(main) + 1 /\ main[c] \in OnMain
    BY <1>1
  <2> QED
    BY <2>1 DEF Merged, OnMain
<1>4. From[Len(main) + 1] = p /\ p \in Proposals
  BY <1>1, SquashType
<1>c. \A c \in 1 .. Len(main) + 1 : c \in 1 .. Len(main) \/ c = Len(main) + 1
  BY <1>1
<1>d. DOMAIN From = 1 .. Len(main) + 1 /\ From = [c \in DOMAIN From |-> From[c]]
  OBVIOUS
<1> HIDE DEF From
<1>5. From \in Injection(1 .. Len(main) + 1, Proposals \cup {None})
  <2>1. From \in [1 .. Len(main) + 1 -> Proposals \cup {None}]
    BY <1>3, <1>4, <1>c, <1>d
  <2>2. ASSUME NEW c \in 1 .. Len(main) + 1, NEW d \in 1 .. Len(main) + 1, From[c] = From[d]
        PROVE  c = d
    <3>1. CASE c = Len(main) + 1
      BY <1>3, <1>4, <1>c, <2>2, <3>1
    <3>2. CASE d = Len(main) + 1
      BY <1>3, <1>4, <1>c, <2>2, <3>2
    <3>3. CASE c \in 1 .. Len(main) /\ d \in 1 .. Len(main)
      BY <1>1, <1>3, <2>2, <3>3 DEF OneCommitEach
    <3> QED
      BY <1>c, <3>1, <3>2, <3>3
  <2> QED
    BY <2>1, <2>2 DEF Injection, IsInjective
<1>6. IsFiniteSet(1 .. Len(main) + 1) /\ Cardinality(1 .. Len(main) + 1) = Len(main) + 1
  BY <1>1, FS_Interval
<1>7. Len(main) + 1 <= Cardinality(Proposals \cup {None})
  BY <1>2, <1>5, <1>6, FS_Injection
<1> QED
  BY <1>1, <1>2, <1>7 DEF Commits

\* Each step keeps the types.
LEMMA TypeStep ==
  ASSUME TypeOK, OneCommitEach, [Next]_vars
  PROVE  TypeOK'
<1> USE DEF TypeOK
<1>s. /\ {"none", "pending", "cancelled", "failed", "refused", "done"} \subseteq Steps
      /\ {"prepare", "tag", "check", "publish"} \subseteq Steps
  BY DEF Steps, Running
<1>m. mishaps \in Nat /\ MaxMishaps[change] \in Nat
        /\ (Mishap => mishaps' \in 0 .. MaxMishaps[change])
  BY BoundAssumption DEF Mishap
<1>q. \A c \in Commits : Queued(c) \in [Commits -> [step : Steps, tag : Tags \cup {None}]]
  BY <1>s DEF Queued, NoRun
<1>c. \A c \in DOMAIN main : c \in Commits
  BY CommitFacts
<1>g. \A c \in Commits, s \in Steps :
        [run EXCEPT ![c].step = s] \in [Commits -> [step : Steps, tag : Tags \cup {None}]]
  OBVIOUS
<1>1. ASSUME NEW p \in DOMAIN change, Validate(p) PROVE TypeOK'
  <2>1. p \in Proposals /\ Top \in Headings \cup {NoHeading}
          /\ Signal(Squash(p), Top) \in Tags \cup {Skipped, Refused}
    BY SquashType, SignalFacts
  <2>3. mishaps' \in 0 .. MaxMishaps[change]
    BY <1>1, <1>m DEF Validate
  <2>2. verdict' \in [Proposals -> [says : Tags \cup {None, Skipped, Refused},
                                    before : Headings \cup {NoHeading, None}]]
    <3>1. ASSUME NEW v \in Tags \cup {Skipped, Refused},
                 verdict' = [verdict EXCEPT ![p] =
                              [says |-> v, before |-> IF v \in Tags THEN Top ELSE None]]
          PROVE  verdict' \in [Proposals -> [says : Tags \cup {None, Skipped, Refused},
                                             before : Headings \cup {NoHeading, None}]]
      BY <2>1, <3>1
    <3> QED
      BY <1>1, <2>1, <3>1 DEF Validate
  <2> QED
    BY <1>1, <2>2, <2>3 DEF Validate, host
<1>2. ASSUME NEW p \in DOMAIN change, Merge(p) PROVE TypeOK'
  <2>1. Len(main') = Len(main) + 1 /\ Len(main') \in Commits
    BY <1>2, RoomToMerge, SquashType DEF Merge, OnMain
  <2>2. main' \in Seq(OnMain)
    BY <1>2, MainGrows DEF Next
  <2> QED
    BY <1>2, <1>q, <2>1, <2>2 DEF Merge, host, OnMain
<1>3. ASSUME NEW c \in Commits, Start(c) PROVE TypeOK'
  BY <1>3, <1>g, <1>s DEF Start, host
<1>4. ASSUME NEW c \in Commits, Prepare(c) PROVE TypeOK'
  <2>1. /\ \/ \E s \in {"done", "refused"} : run' = [run EXCEPT ![c].step = s]
           \/ \E t \in Tags, s \in {"tag", "check"} :
                run' = [run EXCEPT ![c] = [tag |-> t, step |-> s]]
        /\ UNCHANGED <<change, verdict, main, host, mishaps>>
    BY <1>4 DEF Prepare, Goto
  <2>2. run' \in [Commits -> [step : Steps, tag : Tags \cup {None}]]
    BY <1>g, <1>s, <2>1
  <2> QED
    BY <2>1, <2>2 DEF host
<1>5. ASSUME NEW c \in Commits, PushTag(c) PROVE TypeOK'
  <2>1. tags' \in [Tags -> Commits \cup {0}]
    BY <1>5 DEF PushTag
  <2>2. run' \in [Commits -> [step : Steps, tag : Tags \cup {None}]]
    <3>1. \/ run' = [run EXCEPT ![c].step = "check"]
          \/ run' = [run EXCEPT ![c].step = "refused"]
      BY <1>5 DEF PushTag, Goto
    <3> QED
      BY <1>g, <1>s, <3>1
  <2> QED
    BY <1>5, <2>1, <2>2 DEF PushTag
<1>6. ASSUME NEW c \in Commits, CheckRelease(c) PROVE TypeOK'
  <2>1. mishaps' \in 0 .. MaxMishaps[change]
    BY <1>6, <1>m DEF CheckRelease
  <2>2. run' \in [Commits -> [step : Steps, tag : Tags \cup {None}]]
    <3>1. \/ run' = [run EXCEPT ![c].step = "publish"]
          \/ run' = [run EXCEPT ![c].step = "done"]
      BY <1>6 DEF CheckRelease, Goto
    <3> QED
      BY <1>g, <1>s, <3>1
  <2> QED
    BY <1>6, <2>1, <2>2 DEF CheckRelease, host
<1>7. ASSUME NEW c \in Commits, PublishRelease(c) PROVE TypeOK'
  <2>1. releases' \in [Tags -> Commits \cup {0}]
    BY <1>7 DEF PublishRelease
  <2>2. run' \in [Commits -> [step : Steps, tag : Tags \cup {None}]]
    <3>1. \/ run' = [run EXCEPT ![c].step = "done"]
          \/ run' = [run EXCEPT ![c].step = "failed"]
      BY <1>7 DEF PublishRelease, Goto
    <3> QED
      BY <1>g, <1>s, <3>1
  <2> QED
    BY <1>7, <2>1, <2>2 DEF PublishRelease
<1>8. ASSUME NEW c \in Commits, StepFails(c) PROVE TypeOK'
  BY <1>8, <1>g, <1>m, <1>s DEF StepFails, Goto, host
<1>9. ASSUME NEW c \in Commits, ReplyLost(c) PROVE TypeOK'
  <2>1. releases' \in [Tags -> Commits \cup {0}] /\ tags' \in [Tags -> Commits \cup {0}]
    BY <1>9 DEF ReplyLost
  <2>2. run' \in [Commits -> [step : Steps, tag : Tags \cup {None}]]
    <3>1. run' = [run EXCEPT ![c].step = "failed"]
      BY <1>9 DEF ReplyLost, Goto
    <3> QED
      BY <1>g, <1>s, <3>1
  <2> QED
    BY <1>9, <1>m, <2>1, <2>2 DEF ReplyLost
<1>10. ASSUME NEW c \in Commits, Rerun(c) PROVE TypeOK'
  BY <1>10, <1>q DEF Rerun, host
<1>11. ASSUME NEW c \in Commits, RerunAnyway(c) PROVE TypeOK'
  BY <1>11, <1>m, <1>q DEF RerunAnyway, host
<1>12. ASSUME NEW t \in Tags, NEW c \in DOMAIN main, PushByHand(t, c) PROVE TypeOK'
  BY <1>12, <1>m, <1>c DEF PushByHand
<1>13. CASE UNCHANGED vars
  BY <1>13 DEF vars, host
<1> QED
  BY <1>1, <1>2, <1>3, <1>4, <1>5, <1>6, <1>7, <1>8, <1>9, <1>10, <1>11, <1>12, <1>13
  DEF Next, Work

\* A commit is made of one pull request that had none.
LEMMA OneCommitStep ==
  ASSUME TypeOK, OneCommitEach, [Next]_vars
  PROVE  OneCommitEach'
<1>1. main' = main \/ \E p \in DOMAIN change : ~ Merged(p) /\ main' = Append(main, Squash(p))
  BY DEF Next, vars, Validate, Merge, Start, Work, Prepare, PushTag, CheckRelease,
      PublishRelease, StepFails, ReplyLost, Rerun, RerunAnyway, PushByHand
<1>2. CASE main' = main
  BY <1>2 DEF OneCommitEach
<1>3. ASSUME NEW p \in DOMAIN change, ~ Merged(p), main' = Append(main, Squash(p))
      PROVE  OneCommitEach'
  <2>1. main \in Seq(OnMain)
    BY MainGrows
  <2>2. /\ DOMAIN main' = 1 .. Len(main) + 1 /\ DOMAIN main = 1 .. Len(main)
        /\ \A c \in DOMAIN main : main'[c] = main[c] /\ main'[c].from # p
        /\ main'[Len(main) + 1].from = p
    BY <1>3, <2>1, SquashType DEF Merged, Squash
  <2> QED
    BY <2>1, <2>2 DEF OneCommitEach
<1> QED
  BY <1>1, <1>2, <1>3

\* What a step makes of a run: nothing, a place before prepare or after a
\* failure, or what a step of the run itself makes of it.
LEMMA RunStep ==
  ASSUME TypeOK, OneCommitEach, RunsOfPushes, [Next]_vars, NEW d \in Commits
  PROVE  \/ run'[d] = run[d]
         \/ /\ run'[d].step \in {"pending", "cancelled", "prepare", "failed"}
            /\ d \in 2 .. Len(main')
         \/ Work(d)
<1> DEFINE Stays == run'[d] = run[d]
           Turns == /\ run'[d].step \in {"pending", "cancelled", "prepare", "failed"}
                    /\ d \in 2 .. Len(main')
<1> USE DEF TypeOK
<1>r. run[d].step # "none" => d \in 2 .. Len(main')
  BY MainGrows DEF RunsOfPushes
<1>q. ASSUME NEW c \in Commits, run' = Queued(c), c \in 2 .. Len(main')
      PROVE  Stays \/ Turns
  BY <1>q, <1>r DEF Queued
<1>g. ASSUME NEW c \in Commits, NEW s \in {"prepare", "failed"}, run[c].step # "none",
             run' = [run EXCEPT ![c].step = s]
      PROVE  Stays \/ Turns
  BY <1>g, <1>r
<1>1. ASSUME NEW p \in DOMAIN change, Validate(p) PROVE Stays
  BY <1>1 DEF Validate
<1>2. ASSUME NEW p \in DOMAIN change, Merge(p) PROVE Stays \/ Turns
  <2>1. Len(main) + 1 \in Commits
    BY <1>2, RoomToMerge DEF Merge
  <2>2. Len(main') = Len(main) + 1 /\ Len(main) \in Nat /\ Len(main) >= 1
    BY <1>2, SquashType DEF Merge, OnMain, Commits
  <2>3. run' = Queued(Len(main) + 1) /\ Len(main) + 1 \in 2 .. Len(main')
    BY <1>2, <2>2 DEF Merge
  <2> QED
    BY <1>q, <2>1, <2>3
<1>3. ASSUME NEW c \in Commits, Start(c) PROVE Stays \/ Turns
  BY <1>3, <1>g DEF Start
<1>4. ASSUME NEW c \in Commits, c # d, Work(c) PROVE Stays
  BY <1>4 DEF Work, Prepare, PushTag, CheckRelease, PublishRelease, Goto
<1>5. ASSUME NEW c \in Commits, StepFails(c) \/ ReplyLost(c) PROVE Stays \/ Turns
  <2>1. run[c].step # "none" /\ run' = [run EXCEPT ![c].step = "failed"]
    BY <1>5 DEF StepFails, ReplyLost, Goto, Running
  <2> QED
    BY <1>g, <2>1
<1>6. ASSUME NEW c \in Commits, Rerun(c) \/ RerunAnyway(c) PROVE Stays \/ Turns
  <2>1. run' = Queued(c) /\ c \in 2 .. Len(main')
    BY <1>6, MainGrows DEF Rerun, RerunAnyway, RunsOfPushes
  <2> QED
    BY <1>q, <2>1
<1>7. ASSUME NEW t \in Tags, NEW c \in DOMAIN main, PushByHand(t, c) PROVE Stays
  BY <1>7 DEF PushByHand
<1>8. CASE UNCHANGED vars
  BY <1>8 DEF vars
<1> QED
  BY <1>1, <1>2, <1>3, <1>4, <1>5, <1>6, <1>7, <1>8 DEF Next

\* What the commit of a run signals, in the words of Announces.
LEMMA AnnouncedFacts ==
  ASSUME TypeOK, NEW c \in 2 .. Len(main)
  PROVE  /\ Announced(c) \in Tags \cup {Skipped, Refused}
         /\ Announced(c) \in Tags => Announces(c, Announced(c))
         /\ Announced(c) = Refused => \A t \in Tags : ~ Announces(c, t)
<1>1. main \in Seq(OnMain) /\ c \in DOMAIN main /\ c - 1 \in DOMAIN main
  BY DEF TypeOK, OnMain
<1>2. main[c] \in OnMain /\ main[c - 1].heading \in Headings \cup {NoHeading}
  <2>1. main[c] \in OnMain /\ main[c - 1] \in OnMain
    BY <1>1
  <2> QED
    BY <2>1 DEF OnMain
<1> QED
  BY <1>2, SignalFacts DEF Announced, Announces

\* Every run stays a run of a pushed commit.
LEMMA RunsOfPushesStep ==
  ASSUME IInv, [Next]_vars
  PROVE  RunsOfPushes'
<1> SUFFICES ASSUME NEW d \in Commits, run'[d].step # "none"
             PROVE  d \in 2 .. Len(main')
  BY DEF RunsOfPushes, Commits
<1>1. CASE run'[d] = run[d]
  BY <1>1, MainGrows DEF IInv, RunsOfPushes
<1>2. CASE Work(d)
  <2>1. run[d].step # "none"
    BY <1>2 DEF Work, Prepare, PushTag, CheckRelease, PublishRelease
  <2> QED
    BY <2>1, MainGrows DEF IInv, RunsOfPushes
<1> QED
  BY <1>1, <1>2, RunStep DEF IInv

\* A release stays on a tag of its version.
LEMMA OnTagStep ==
  ASSUME IInv, [Next]_vars, NEW d \in Commits
  PROVE  OnTag(d)'
<1> USE DEF IInv
<1>r. run[d].step # "none" => d \in 2 .. Len(main) /\ Announced(d)' = Announced(d)
  BY AnnouncedForGood DEF RunsOfPushes
<1>1. CASE run'[d] = run[d]
  BY <1>1, <1>r DEF OnTag
<1>2. CASE run'[d].step \in {"pending", "cancelled", "prepare", "failed"}
  BY <1>2 DEF OnTag
<1>3. CASE Prepare(d)
  <2>1. run[d].step = "prepare" /\ run[d].step # "none" /\ run[d] \in [step : Steps, tag : Tags \cup {None}]
          /\ run \in [Commits -> [step : Steps, tag : Tags \cup {None}]]
    BY <1>3 DEF Prepare, TypeOK
  <2>2. CASE Goto(d, "done") \/ Goto(d, "refused")
    BY <2>1, <2>2 DEF Goto, OnTag
  <2>3. ASSUME NEW s \in {"tag", "check"}, Announced(d) \in Tags,
               run' = [run EXCEPT ![d] = [tag |-> Announced(d), step |-> s]]
        PROVE  OnTag(d)'
    BY <1>r, <2>1, <2>3 DEF OnTag
  <2> QED
    BY <1>3, <2>2, <2>3 DEF Prepare
<1>4. CASE PushTag(d) \/ CheckRelease(d) \/ PublishRelease(d)
  <2>1. /\ run[d].step \in {"tag", "check", "publish"} /\ run[d].step # "none"
        /\ run \in [Commits -> [step : Steps, tag : Tags \cup {None}]]
        /\ \E s \in {"check", "refused", "publish", "done", "failed"} : Goto(d, s)
    BY <1>4 DEF PushTag, CheckRelease, PublishRelease, TypeOK
  <2>2. run'[d].tag = run[d].tag
    BY <2>1 DEF Goto
  <2> QED
    BY <1>r, <2>1, <2>2 DEF OnTag
<1> QED
  BY <1>1, <1>2, <1>3, <1>4, RunStep DEF Work

\* Who moves a tag: somebody by hand, to a commit of main, or the run of the
\* commit the tag then points to, which leaves the push behind.
LEMMA TagMoves ==
  ASSUME IInv, [Next]_vars, NEW t \in Tags, tags'[t] # tags[t]
  PROVE  /\ tags[t] = 0 /\ UNCHANGED releases
         /\ \E c : tags' = [tags EXCEPT ![t] = c]
         /\ \/ t \in byHand' /\ tags'[t] \in DOMAIN main
            \/ \E c \in Commits : /\ tags'[t] = c /\ run[c].step = "tag" /\ run[c].tag = t
                                  /\ run'[c].step # "tag"
<1> USE DEF IInv, TypeOK
<1>1. ASSUME NEW c \in Commits, PushTag(c) \/ ReplyLost(c)
      PROVE  /\ tags[t] = 0 /\ UNCHANGED releases
             /\ tags' = [tags EXCEPT ![t] = c] /\ tags'[t] = c /\ run[c].step = "tag"
             /\ run[c].tag = t
             /\ run'[c].step # "tag"
  <2>1. /\ run[c].step = "tag" /\ tags[run[c].tag] = 0 /\ UNCHANGED releases
        /\ tags' = [tags EXCEPT ![run[c].tag] = c]
        /\ \E s \in {"check", "failed"} : run' = [run EXCEPT ![c].step = s]
    BY <1>1 DEF PushTag, ReplyLost, Goto
  <2> QED
    BY <2>1
<1>2. ASSUME NEW s \in Tags, NEW c \in DOMAIN main, PushByHand(s, c)
      PROVE  /\ tags[t] = 0 /\ UNCHANGED releases
             /\ tags' = [tags EXCEPT ![t] = c]
             /\ t \in byHand' /\ tags'[t] \in DOMAIN main
  BY <1>2 DEF PushByHand
<1> QED
  BY <1>1, <1>2
     DEF Next, vars, host, Validate, Merge, Start, Work, Prepare, CheckRelease,
      PublishRelease, StepFails, Rerun, RerunAnyway

\* A release is made by a run that has its tag.
LEMMA ReleaseMoves ==
  ASSUME IInv, [Next]_vars, NEW t \in Tags, releases'[t] # releases[t]
  PROVE  releases[t] = 0 /\ tags[t] # 0 /\ releases'[t] = tags[t] /\ UNCHANGED tags
           /\ releases' = [releases EXCEPT ![t] = tags[t]]
<1> USE DEF IInv, TypeOK
<1>1. ASSUME NEW c \in Commits, PublishRelease(c) \/ ReplyLost(c)
      PROVE  releases[t] = 0 /\ tags[t] # 0 /\ releases'[t] = tags[t] /\ UNCHANGED tags
               /\ releases' = [releases EXCEPT ![t] = tags[t]]
  <2>1. /\ run[c].step = "publish" /\ tags[run[c].tag] # 0 /\ releases[run[c].tag] = 0
        /\ releases' = [releases EXCEPT ![run[c].tag] = c] /\ UNCHANGED tags
    BY <1>1 DEF PublishRelease, ReplyLost
  <2>2. run[c].tag = t /\ tags[t] = c
    BY <2>1 DEF OnTag, TagInHand
  <2> QED
    BY <2>1, <2>2
<1> QED
  BY <1>1
     DEF Next, vars, host, Validate, Merge, Start, Work, Prepare, PushTag,
         CheckRelease,
      StepFails, Rerun, RerunAnyway, PushByHand

\* A run that goes on past its tag holds a tag that exists.
LEMMA TagInHandStep ==
  ASSUME IInv, [Next]_vars, NEW d \in Commits
  PROVE  TagInHand(d)'
<1> USE DEF IInv
<1>t. /\ run \in [Commits -> [step : Steps, tag : Tags \cup {None}]]
      /\ tags \in [Tags -> Commits \cup {0}] /\ d # 0
  BY CommitFacts DEF TypeOK
<1>1. CASE run'[d] = run[d]
  <2>1. ASSUME run[d].step \in {"check", "publish"} PROVE tags'[run[d].tag] = d
    BY <1>t, <2>1, TagsStay DEF OnTag, TagInHand
  <2>2. ASSUME run[d].step = "tag", tags'[run[d].tag] = d PROVE run[d].tag \in byHand'
    <3>1. CASE tags'[run[d].tag] = tags[run[d].tag]
      BY <2>2, <3>1, TagsStay DEF TagInHand
    <3>2. CASE tags'[run[d].tag] # tags[run[d].tag]
      BY <1>1, <2>2, <3>2, TagMoves DEF OnTag
    <3> QED
      BY <3>1, <3>2
  <2> QED
    BY <1>1, <2>1, <2>2 DEF TagInHand
<1>2. CASE run'[d].step \in {"pending", "cancelled", "prepare", "failed"}
  BY <1>2 DEF TagInHand
<1>3. CASE Prepare(d)
  <2>1. CASE Goto(d, "done") \/ Goto(d, "refused")
    BY <1>t, <2>1 DEF Goto, TagInHand
  <2>2. CASE /\ Announced(d) \in Tags /\ tags[Announced(d)] \in {0, d}
             /\ run' = [run EXCEPT ![d] =
                  [tag |-> Announced(d),
                   step |-> IF tags[Announced(d)] = 0 THEN "tag" ELSE "check"]]
    <3>1. UNCHANGED tags
      BY <1>3 DEF Prepare, host
    <3> QED
      BY <1>t, <2>2, <3>1 DEF TagInHand
  <2> QED
    BY <1>3, <2>1, <2>2 DEF Prepare
<1>4. CASE PushTag(d)
  <2>1. run[d].step = "tag" /\ run[d].tag \in Tags
    BY <1>4 DEF PushTag, OnTag
  <2> QED
    BY <1>4, <1>t, <2>1 DEF PushTag, Goto, TagInHand
<1>5. CASE CheckRelease(d) \/ PublishRelease(d)
  <2>1. /\ run[d].step \in {"check", "publish"} /\ UNCHANGED tags
        /\ \E s \in {"publish", "done", "failed"} : run' = [run EXCEPT ![d].step = s]
    BY <1>5 DEF CheckRelease, PublishRelease, Goto, host
  <2> QED
    BY <1>t, <2>1 DEF TagInHand
<1> QED
  BY <1>1, <1>2, <1>3, <1>4, <1>5, RunStep DEF Work

\* A tag stays where it points.
LEMMA PointedStep ==
  ASSUME IInv, [Next]_vars
  PROVE  Pointed'
<1> SUFFICES ASSUME NEW t \in Tags
             PROVE  (tags'[t] # 0 => tags'[t] \in DOMAIN main') /\ releases'[t] \in {0, tags'[t]}
  BY DEF Pointed
<1> USE DEF IInv
<1>1. ASSUME tags'[t] # 0 PROVE tags'[t] \in DOMAIN main'
  <2>1. CASE tags'[t] = tags[t]
    BY <1>1, <2>1, MainGrows DEF Pointed
  <2>2. CASE tags'[t] # tags[t]
    <3>1. \A c \in Commits : run[c].step = "tag" => c \in DOMAIN main
      BY DEF RunsOfPushes, TypeOK
    <3> QED
      BY <2>2, <3>1, TagMoves, MainGrows
  <2> QED
    BY <2>1, <2>2
<1>2. releases'[t] \in {0, tags'[t]}
  <2>1. CASE releases'[t] = releases[t]
    BY <2>1, TagsStay DEF Pointed
  <2>2. CASE releases'[t] # releases[t]
    BY <2>2, ReleaseMoves
  <2> QED
    BY <2>1, <2>2
<1> QED
  BY <1>1, <1>2

\* Tags stay announced by the commits they point at.
LEMMA TagsAnnounceStep ==
  ASSUME IInv, [Next]_vars
  PROVE  TagsAnnounce'
<1> USE DEF IInv
<1>1. TypeOK'
  BY TypeStep
<1>2. ASSUME NEW t \in Tags, t \notin byHand', tags'[t] # 0
      PROVE  Announces(tags[t], t)'
  <2>1. CASE tags'[t] = tags[t]
    <3>1. tags[t] \in DOMAIN main /\ Announces(tags[t], t)
      BY <1>2, <2>1, TagsStay DEF Pointed, TagsAnnounce
    <3> QED
      BY <2>1, <3>1, MainGrows DEF Announces
  <2>2. CASE tags'[t] # tags[t]
    <3>1. PICK c \in Commits : tags'[t] = c /\ run[c].step = "tag" /\ run[c].tag = t
      BY <1>2, <2>2, TagMoves
    <3>2. c \in 2 .. Len(main) /\ Announced(c) = t
      BY <3>1 DEF RunsOfPushes, OnTag
    <3>3. Announces(c, t) /\ c \in DOMAIN main
      BY <3>2, AnnouncedFacts DEF TypeOK
    <3> QED
      BY <3>1, <3>3, MainGrows DEF Announces
  <2> QED
    BY <2>1, <2>2
<1> QED
  BY <1>1, <1>2 DEF TagsAnnounce

\* A green run stays backed by what it found or published.
LEMMA GreenStep ==
  ASSUME IInv, [Next]_vars
  PROVE  GreenIsPublished'
<1> USE DEF IInv
<1> SUFFICES ASSUME NEW d \in DOMAIN main', run'[d].step = "done", Announced(d)' \in Tags
             PROVE  tags'[Announced(d)'] = d /\ releases'[Announced(d)'] = d
  BY DEF GreenIsPublished
<1>t. /\ run \in [Commits -> [step : Steps, tag : Tags \cup {None}]]
      /\ tags \in [Tags -> Commits \cup {0}] /\ releases \in [Tags -> Commits \cup {0}]
      /\ d \in Commits /\ d # 0
  BY TypeStep, CommitFacts DEF TypeOK, Commits
<1>r. run[d].step # "none" =>
        /\ d \in 2 .. Len(main) /\ d \in DOMAIN main /\ Announced(d) = Announced(d)'
  BY <1>t, AnnouncedForGood DEF RunsOfPushes, TypeOK
<1>1. CASE run'[d] = run[d]
  <2>1. tags[Announced(d)] = d /\ releases[Announced(d)] = d
    BY <1>1, <1>r DEF GreenIsPublished
  <2> QED
    BY <1>1, <1>r, <1>t, <2>1, TagsStay
<1>2. CASE Prepare(d)
  <2>1. Announced(d) = Skipped
    BY <1>2, <1>t DEF Prepare, Goto
  <2>2. run[d].step # "none"
    BY <1>2 DEF Prepare
  <2> QED
    BY <1>r, <2>1, <2>2, HeadingAssumption
<1>3. CASE PushTag(d)
  BY <1>3, <1>t DEF PushTag, Goto
<1>4. CASE CheckRelease(d) \/ PublishRelease(d)
  <2>1. run[d].tag = Announced(d) /\ Announced(d) \in Tags /\ Announced(d)' = Announced(d)
          /\ tags[Announced(d)] = d
    BY <1>4, <1>r, <1>t DEF CheckRelease, PublishRelease, OnTag, TagInHand
  <2>2. CASE CheckRelease(d)
    <3>1. releases[run[d].tag] # 0 /\ UNCHANGED <<tags, releases>>
      BY <1>t, <2>2 DEF CheckRelease, Goto, host
    <3> QED
      BY <2>1, <3>1 DEF Pointed
  <2>3. CASE PublishRelease(d)
    BY <1>t, <2>1, <2>3 DEF PublishRelease, Goto
  <2> QED
    BY <1>4, <2>2, <2>3
<1> QED
  BY <1>1, <1>2, <1>3, <1>4, <1>t, RunStep DEF Work

\* A refusal keeps its cause.
LEMMA RefusedStep ==
  ASSUME IInv, [Next]_vars
  PROVE  RefusedForCause'
<1> USE DEF IInv
<1> SUFFICES ASSUME NEW d \in DOMAIN main', run'[d].step = "refused"
             PROVE  \/ \A t \in Tags : ~ Announces(d, t)'
                    \/ \E t \in byHand' : Announces(d, t)'
                    \/ \E t \in Tags : Announces(d, t)' /\ tags'[t] \notin {0, d}
  BY DEF RefusedForCause
<1>t. /\ run \in [Commits -> [step : Steps, tag : Tags \cup {None}]]
      /\ tags \in [Tags -> Commits \cup {0}] /\ d \in Commits /\ d # 0
  BY TypeStep, CommitFacts DEF TypeOK, Commits
<1>r. run[d].step # "none" =>
        /\ d \in 2 .. Len(main) /\ d \in DOMAIN main
        /\ \A t \in Tags : Announces(d, t)' = Announces(d, t)
  <2>1. run[d].step # "none" => d \in 2 .. Len(main)
    BY <1>t DEF RunsOfPushes
  <2>2. d \in 2 .. Len(main) => d \in DOMAIN main
    BY DEF TypeOK
  <2> QED
    BY <2>1, <2>2, AnnouncedForGood
<1>1. CASE run'[d] = run[d]
  <2>1. /\ byHand \subseteq Tags
        /\ \/ \A t \in Tags : ~ Announces(d, t)
           \/ \E t \in byHand : Announces(d, t)
           \/ \E t \in Tags : Announces(d, t) /\ tags[t] \notin {0, d}
    BY <1>1, <1>r DEF RefusedForCause, TypeOK
  <2> QED
    BY <1>1, <1>r, <2>1, TagsStay
<1>2. CASE Prepare(d)
  <2>1. /\ run[d].step # "none" /\ UNCHANGED tags
        /\ \/ Announced(d) = Refused
           \/ Announced(d) \in Tags /\ tags[Announced(d)] \notin {0, d}
    BY <1>2, <1>t DEF Prepare, Goto, host
  <2> QED
    BY <1>r, <2>1, AnnouncedFacts
<1>3. CASE PushTag(d)
  <2>1. /\ run[d].step = "tag" /\ run[d].step # "none" /\ UNCHANGED <<tags, byHand>>
        /\ tags[run[d].tag] # 0 /\ run[d].tag = Announced(d) /\ Announced(d) \in Tags
    BY <1>3, <1>t DEF PushTag, Goto, OnTag
  <2>2. tags[Announced(d)] = d => Announced(d) \in byHand
    BY <2>1, <1>t DEF TagInHand
  <2> QED
    BY <1>r, <2>1, <2>2, AnnouncedFacts
<1>4. CASE CheckRelease(d) \/ PublishRelease(d)
  BY <1>4, <1>t DEF CheckRelease, PublishRelease, Goto
<1> QED
  BY <1>1, <1>2, <1>3, <1>4, <1>t, RunStep DEF Work

-----------------------------------------------------------------------------
(* Theorems. *)

\* The invariant holds at the start and of every step.
THEOREM Invariance == Spec => []IInv
<1>1. ASSUME Init PROVE IInv
  <2> DEFINE first == [title |-> Plain, heading |-> Released, notes |-> TRUE, from |-> None]
  <2>1. /\ first \in OnMain /\ 1 \in Commits
        /\ main = <<first>> /\ Len(main) = 1 /\ DOMAIN main = {1}
        /\ main \in Seq(OnMain)
    BY <1>1, HeadingAssumption, CommitFacts DEF Init, OnMain, Titles, Commits
  <2>2. mishaps \in 0 .. MaxMishaps[change]
    BY <1>1, BoundAssumption DEF Init
  <2>3. TypeOK
    BY <1>1, <2>1, <2>2 DEF Init, TypeOK, OnMain, NoVerdict, NoRun, Steps
  <2>4. OneCommitEach /\ RunsOfPushes /\ GreenIsPublished /\ RefusedForCause
    BY <1>1, <2>1, <2>3 DEF Init, OneCommitEach, RunsOfPushes, GreenIsPublished,
        RefusedForCause, NoRun, TypeOK
  <2>5. \A c \in Commits : OnTag(c) /\ TagInHand(c)
    BY <1>1 DEF Init, OnTag, TagInHand, NoRun
  <2>6. Pointed
    BY <1>1, <2>1 DEF Init, Pointed
  <2>7. TagsAnnounce
    BY <1>1, <2>1, <2>3, HeadingAssumption DEF Init, TagsAnnounce, Announces
  <2> QED
    BY <2>3, <2>4, <2>5, <2>6, <2>7 DEF IInv
<1>2. ASSUME IInv, [Next]_vars PROVE IInv'
  BY <1>2, TypeStep, OneCommitStep, RunsOfPushesStep, OnTagStep, TagInHandStep, PointedStep,
     TagsAnnounceStep, GreenStep, RefusedStep DEF IInv
<1> QED
  BY <1>1, <1>2, PTL DEF Spec

\* A tag that nobody pushed by hand is on a commit that announces its version.
THEOREM TagsAreAnnounced == Spec => []TagsAnnounce
<1>1. IInv => TagsAnnounce
  BY DEF IInv
<1> QED
  BY <1>1, Invariance, PTL

\* A run that ended well left its version tagged and published at its commit.
THEOREM GreenMeansPublished == Spec => []GreenIsPublished
<1>1. IInv => GreenIsPublished
  BY DEF IInv
<1> QED
  BY <1>1, Invariance, PTL

\* A run refuses only what is inconsistent, or tagged by others.
THEOREM RefusalsHaveCause == Spec => []RefusedForCause
<1>1. IInv => RefusedForCause
  BY DEF IInv
<1> QED
  BY <1>1, Invariance, PTL

\* Every behaviour of the workflow is one of the register: tags are set once,
\* and a release follows its tag, once, at the same commit.
THEOREM WorkflowIsRegister == Spec => ImplementsRegister
<1>1. Init => Register!Init
  BY HeadingAssumption DEF Init, Register!Init
<1>2. ASSUME IInv, [Next]_vars PROVE [Register!Next]_(Register!register)
  <2> USE DEF IInv
  <2>1. CASE UNCHANGED tags /\ UNCHANGED releases
    BY <2>1 DEF Register!register
  <2>2. CASE ~ UNCHANGED releases
    <3>1. PICK t \in Tags : releases'[t] # releases[t]
      BY <1>2, <2>2, TypeStep DEF TypeOK
    <3>2. Register!Publish(t)
      BY <1>2, <3>1, ReleaseMoves DEF Register!Publish
    <3> QED
      BY <3>2 DEF Register!Next
  <2>3. CASE UNCHANGED releases /\ ~ UNCHANGED tags
    <3>1. PICK t \in Tags : tags'[t] # tags[t]
      BY <1>2, <2>3, TypeStep DEF TypeOK
    <3>2. tags[t] = 0 /\ tags'[t] \in Commits
      BY <1>2, <3>1, TagMoves, CommitFacts
    <3>3. PICK c : tags' = [tags EXCEPT ![t] = c]
      BY <1>2, <3>1, TagMoves
    <3>4. c \in Commits
      BY <1>2, <3>2, <3>3 DEF TypeOK
    <3> QED
      BY <2>3, <3>2, <3>3, <3>4 DEF Register!Next, Register!Tag
  <2> QED
    BY <2>1, <2>2, <2>3
<1> QED
  BY <1>1, <1>2, Invariance, PTL DEF Spec, ImplementsRegister, Register!Spec
=============================================================================
