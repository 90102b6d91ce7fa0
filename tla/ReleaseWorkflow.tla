-------------------------- MODULE ReleaseWorkflow --------------------------
(***************************************************************************)
(* .github/workflows/release.yml and scripts/ci/prepare-github-release.sh. *)
(* Pull requests are validated, merged by squash, and every push to main   *)
(* has a run of the release job:                                           *)
(*                                                                         *)
(*   prepare -> tag -> check -> publish -> done                            *)
(*                                                                         *)
(* Runs share a concurrency group: one runs, one is pending, and a newer   *)
(* pending run cancels the older.  Any step may fail after or before it    *)
(* had its effect, and a run that ended may be run again.                  *)
(***************************************************************************)
EXTENDS Naturals, Sequences, FiniteSets

CONSTANTS
  Proposals,   \* pull requests
  Changes,     \* which of them are opened, and what they may change
  Tags,        \* version tags
  Headings,    \* top release headings of the changelog, version and date
  TagOf,       \* the tag a heading names, or Malformed
  Released,    \* the heading of the version that is released already
  NoHeading,   \* the changelog has no release section
  Same,        \* a pull request that leaves the changelog's heading alone
  Plain,       \* a title that does not begin with "release:"
  Malformed,   \* a title that does, or a heading, without a proper version
  None,        \* absent
  Skipped,     \* prepare: this commit is no release
  Refused,     \* prepare: exits with an error
  MaxMishaps   \* bound: failures, needless reruns and tags pushed by hand,
               \* for each of Changes

Titles == Tags \cup {Plain, Malformed}

Change == [title : Titles, heading : Headings \cup {Same, NoHeading}, notes : BOOLEAN]

ASSUME HeadingAssumption ==
  /\ TagOf \in [Headings -> Tags \cup {Malformed}]
  /\ Released \in Headings /\ TagOf[Released] \in Tags
  /\ {NoHeading, Same, None} \cap Headings = {}
  /\ {Plain, Malformed, None, Skipped, Refused} \cap Tags = {}
  /\ Plain # Malformed /\ Skipped # Refused

ASSUME ChangeAssumption ==
  \A f \in Changes : DOMAIN f \subseteq Proposals /\ f \in [DOMAIN f -> Change]

ASSUME BoundAssumption ==
  /\ IsFiniteSet(Proposals)
  /\ MaxMishaps \in [Changes -> Nat]

Commits == 1..Cardinality(Proposals) + 1

Running == {"prepare", "tag", "check", "publish"}
Steps == {"none", "pending", "cancelled", "failed", "refused", "done"} \cup Running

VARIABLES
  change,    \* what each pull request changes
  verdict,   \* what the last validation of each said, and for a release on which heading
  main,      \* the commits of main
  tags,      \* the commit each tag of origin points to, or 0
  releases,  \* the commit whose notes each GitHub release shows, or 0
  run,       \* the release run of each commit: its step and its tag
  byHand,    \* tags pushed by hand
  mishaps    \* failures, needless reruns and tags pushed by hand so far

host == <<tags, releases, byHand>>
vars == <<change, verdict, main, host, run, mishaps>>

Merged(p) == \E c \in DOMAIN main : main[c].from = p

Top == main[Len(main)].heading

NoVerdict == [says |-> None, before |-> None]

NoRun == [step |-> "none", tag |-> None]

Init ==
  /\ change \in Changes
  /\ verdict = [p \in Proposals |-> NoVerdict]
  /\ main = <<[title |-> Plain, heading |-> Released, notes |-> TRUE, from |-> None]>>
  /\ tags = [t \in Tags |-> IF t = TagOf[Released] THEN 1 ELSE 0]
  /\ releases = tags
  /\ run = [c \in Commits |-> NoRun]
  /\ byHand = {} /\ mishaps = 0

\* Something goes wrong, or somebody interferes.
Mishap == mishaps < MaxMishaps[change] /\ mishaps' = mishaps + 1

-----------------------------------------------------------------------------
(* prepare-github-release.sh. *)

\* Variant: the title is not compared with the changelog.
SignalByHeading(k, before) ==
  IF k.title = Malformed THEN Refused
  ELSE IF k.title = Plain /\ k.heading = before THEN Skipped
  ELSE IF k.heading \in Headings /\ k.notes THEN TagOf[k.heading] ELSE Refused

\* What commit k announces, on top of the heading before: the title or a
\* changed heading make it a release, and then all of it must fit.
Signal(k, before) ==
  LET detected == k.title # Plain \/ k.heading # before
      fits == /\ k.heading \in Headings /\ TagOf[k.heading] \in Tags
              /\ k.title \in {Plain, TagOf[k.heading]}
              /\ k.notes
  IN IF k.title = Malformed THEN Refused
     ELSE IF ~ detected THEN Skipped
     ELSE IF fits THEN TagOf[k.heading] ELSE Refused

\* The commit that merging p now would put on main.
Squash(p) ==
  [title |-> change[p].title, notes |-> change[p].notes, from |-> p,
   heading |-> IF change[p].heading = Same THEN Top ELSE change[p].heading]

\* Mode validate-pr, on the merge of p with the main of that moment, when p is
\* opened and again on every event of p: the tag must not exist, and not to
\* reach origin is an error.  A pull request that is edited is another change;
\* only its last one is modelled, the verdicts on earlier ones are not.
Validate(p) ==
  /\ ~ Merged(p)
  /\ LET signal == Signal(Squash(p), Top)
         taken == signal \in Tags /\ tags[signal] # 0
         Says(v) == verdict' = [verdict EXCEPT ![p] =
                      [says |-> v, before |-> IF v \in Tags THEN Top ELSE None]]
     IN \/ Says(IF taken THEN Refused ELSE signal) /\ UNCHANGED mishaps
        \/ signal \in Tags /\ Says(Refused) /\ Mishap
  /\ UNCHANGED <<change, main, host, run>>

-----------------------------------------------------------------------------
(* Runs of the workflow. *)

\* The runs once c is pending: a run that was pending before is cancelled.
Queued(c) ==
  [d \in Commits |->
     IF d = c THEN [NoRun EXCEPT !.step = "pending"]
     ELSE IF run[d].step = "pending" THEN [run[d] EXCEPT !.step = "cancelled"]
     ELSE run[d]]

\* A pull request is merged; the push triggers a run.
Merge(p) ==
  /\ ~ Merged(p)
  /\ main' = Append(main, Squash(p))
  /\ run' = Queued(Len(main) + 1)
  /\ UNCHANGED <<change, verdict, host, mishaps>>

\* The group is free.
Start(c) ==
  /\ run[c].step = "pending"
  /\ \A d \in Commits : run[d].step \notin Running
  /\ run' = [run EXCEPT ![c].step = "prepare"]
  /\ UNCHANGED <<change, verdict, main, host, mishaps>>

Goto(c, step) == run' = [run EXCEPT ![c].step = step]

Announced(c) == Signal(main[c], main[c - 1].heading)

\* Variant: the tag must be missing, whatever it points to.
PrepareOnce(c) ==
  /\ run[c].step = "prepare"
  /\ LET signal == Announced(c)
     IN \/ signal = Skipped /\ Goto(c, "done")
        \/ signal = Refused /\ Goto(c, "refused")
        \/ signal \in Tags /\ tags[signal] # 0 /\ Goto(c, "refused")
        \/ /\ signal \in Tags /\ tags[signal] = 0
           /\ run' = [run EXCEPT ![c] = [tag |-> signal, step |-> "tag"]]
  /\ UNCHANGED <<change, verdict, main, host, mishaps>>

\* The tag must be missing or point to the commit of this run.
Prepare(c) ==
  /\ run[c].step = "prepare"
  /\ LET signal == Announced(c)
     IN \/ signal = Skipped /\ Goto(c, "done")
        \/ signal = Refused /\ Goto(c, "refused")
        \/ /\ signal \in Tags
           /\ \/ tags[signal] \notin {0, c} /\ Goto(c, "refused")
              \/ /\ tags[signal] \in {0, c}
                 /\ run' = [run EXCEPT ![c] =
                      [tag |-> signal,
                       step |-> IF tags[signal] = 0 THEN "tag" ELSE "check"]]
  /\ UNCHANGED <<change, verdict, main, host, mishaps>>

\* Variant: git push --force.
PushTagForced(c) ==
  /\ run[c].step = "tag"
  /\ tags' = [tags EXCEPT ![run[c].tag] = c]
  /\ Goto(c, "check")
  /\ UNCHANGED <<change, verdict, main, releases, byHand, mishaps>>

\* origin refuses a tag that exists by then.
PushTag(c) ==
  /\ run[c].step = "tag"
  /\ LET t == run[c].tag
     IN \/ /\ tags[t] = 0
           /\ tags' = [tags EXCEPT ![t] = c]
           /\ Goto(c, "check")
        \/ /\ tags[t] # 0
           /\ Goto(c, "refused")
           /\ UNCHANGED tags
  /\ UNCHANGED <<change, verdict, main, releases, byHand, mishaps>>

\* Variant: a query that fails counts as a release that exists.
CheckReleaseLoosely(c) ==
  /\ run[c].step = "check"
  /\ \/ /\ Goto(c, IF releases[run[c].tag] = 0 THEN "publish" ELSE "done")
        /\ UNCHANGED mishaps
     \/ Mishap /\ Goto(c, "done")
  /\ UNCHANGED <<change, verdict, main, host>>

\* gh release view; when it fails for whatever reason the release is taken
\* to be missing.
CheckRelease(c) ==
  /\ run[c].step = "check"
  /\ \/ /\ Goto(c, IF releases[run[c].tag] = 0 THEN "publish" ELSE "done")
        /\ UNCHANGED mishaps
     \/ Mishap /\ Goto(c, "publish")
  /\ UNCHANGED <<change, verdict, main, host>>

\* gh release create --verify-tag fails without the tag and when there is
\* such a release.
PublishRelease(c) ==
  /\ run[c].step = "publish"
  /\ LET t == run[c].tag
     IN \/ /\ tags[t] # 0 /\ releases[t] = 0
           /\ releases' = [releases EXCEPT ![t] = c]
           /\ Goto(c, "done")
        \/ /\ tags[t] = 0 \/ releases[t] # 0
           /\ Goto(c, "failed")
           /\ UNCHANGED releases
  /\ UNCHANGED <<change, verdict, main, tags, byHand, mishaps>>

\* Variant: continue-on-error.
StepFailsQuietly(c) ==
  /\ run[c].step \in Running
  /\ Mishap
  /\ Goto(c, "done")
  /\ UNCHANGED <<change, verdict, main, host>>

\* The runner dies or a call fails, before it had its effect.
StepFails(c) ==
  /\ run[c].step \in Running
  /\ Mishap
  /\ Goto(c, "failed")
  /\ UNCHANGED <<change, verdict, main, host>>

\* The call has its effect and the answer is lost.
ReplyLost(c) ==
  /\ Mishap
  /\ LET t == run[c].tag
     IN \/ /\ run[c].step = "tag" /\ tags[t] = 0
           /\ tags' = [tags EXCEPT ![t] = c]
           /\ UNCHANGED releases
        \/ /\ run[c].step = "publish" /\ tags[t] # 0 /\ releases[t] = 0
           /\ releases' = [releases EXCEPT ![t] = c]
           /\ UNCHANGED tags
  /\ Goto(c, "failed")
  /\ UNCHANGED <<change, verdict, main, byHand>>

\* Somebody runs a failed or cancelled run again.
Rerun(c) ==
  /\ run[c].step \in {"failed", "cancelled"}
  /\ run' = Queued(c)
  /\ UNCHANGED <<change, verdict, main, host, mishaps>>

\* Or one that ended well, or that refused to go on.
RerunAnyway(c) ==
  /\ run[c].step \in {"done", "refused"}
  /\ Mishap
  /\ run' = Queued(c)
  /\ UNCHANGED <<change, verdict, main, host>>

\* Somebody pushes a version tag from a clone.
PushByHand(t, c) ==
  /\ Mishap
  /\ tags[t] = 0
  /\ tags' = [tags EXCEPT ![t] = c]
  /\ byHand' = byHand \cup {t}
  /\ UNCHANGED <<change, verdict, main, releases, run>>

Work(c) == Prepare(c) \/ PushTag(c) \/ CheckRelease(c) \/ PublishRelease(c)

Next ==
  \/ \E p \in DOMAIN change : Validate(p) \/ Merge(p)
  \/ \E c \in Commits :
       Start(c) \/ Work(c) \/ StepFails(c) \/ ReplyLost(c) \/ Rerun(c) \/ RerunAnyway(c)
  \/ \E t \in Tags, c \in DOMAIN main : PushByHand(t, c)

Spec == Init /\ [][Next]_vars

\* A run goes on, GitHub starts a pending run when the group is free, and
\* somebody reruns what failed or was cancelled.
FairSpec ==
  /\ Spec
  /\ \A c \in Commits : WF_vars(Work(c)) /\ SF_vars(Start(c)) /\ WF_vars(Rerun(c))

-----------------------------------------------------------------------------
(* Properties. *)

TypeOK ==
  /\ change \in Changes
  /\ verdict \in [Proposals -> [says : Tags \cup {None, Skipped, Refused},
                                before : Headings \cup {NoHeading, None}]]
  /\ main \in Seq([title : Titles, heading : Headings \cup {NoHeading},
                  notes : BOOLEAN, from : Proposals \cup {None}])
  /\ Len(main) \in Commits
  /\ tags \in [Tags -> Commits \cup {0}]
  /\ releases \in [Tags -> Commits \cup {0}]
  /\ run \in [Commits -> [step : Steps, tag : Tags \cup {None}]]
  /\ byHand \subseteq Tags /\ mishaps \in 0..MaxMishaps[change]

\* Commit c announces version t, as README.md puts it: the top section of its
\* changelog is a dated one for t with a text, and a title that speaks of a
\* release names t.
Announces(c, t) ==
  /\ main[c].heading \in Headings /\ TagOf[main[c].heading] = t
  /\ main[c].title \in {Plain, t}
  /\ main[c].notes

\* Whatever fails, is repeated or is pushed by hand in between, the tag the
\* workflow pushes is on a commit that announces its version.  The variables
\* have their types.
TagsAnnounce ==
  /\ TypeOK
  /\ \A t \in Tags \ byHand : tags[t] # 0 => Announces(tags[t], t)

\* A release run that ended well left its version tagged and published, both
\* at its own commit: no failure of an earlier attempt, no query that failed
\* and no other run makes it report success for less.
GreenIsPublished ==
  \A c \in DOMAIN main : run[c].step = "done" /\ Announced(c) \in Tags =>
    tags[Announced(c)] = c /\ releases[Announced(c)] = c

\* A run refuses only what is inconsistent or what another commit or a person
\* has tagged: an attempt that failed halfway is no obstacle to the next one.
RefusedForCause ==
  \A c \in DOMAIN main : run[c].step = "refused" =>
    \/ \A t \in Tags : ~ Announces(c, t)
    \/ \E t \in byHand : Announces(c, t)
    \/ \E t \in Tags : Announces(c, t) /\ tags[t] \notin {0, c}

\* The workflow as a register of versions: see ReleaseRegister.
Register == INSTANCE ReleaseRegister

ImplementsRegister == Register!Spec

\* The validation accepted p as a release, and p was merged on the heading it
\* was validated on.
Accepted(p) ==
  /\ verdict[p].says \in Tags
  /\ \E c \in DOMAIN main : main[c].from = p /\ main[c - 1].heading = verdict[p].before

Published(p) ==
  verdict[p].says \in Tags => releases[verdict[p].says] # 0 \/ verdict[p].says \in byHand

\* What the validation accepted is published, if runs that failed or were
\* cancelled are run again: by this run, or by that of another commit that
\* announces the version.  Only a tag pushed by hand can prevent it.
AcceptedIsPublished == \A p \in Proposals : Accepted(p) ~> Published(p)
=============================================================================
