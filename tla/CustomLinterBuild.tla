------------------------- MODULE CustomLinterBuild -------------------------
(***************************************************************************)
(* scripts/ci/run-golangci-plugin-smoke.sh, build-custom-gcl.sh and        *)
(* custom-gcl-fingerprint.sh: the custom linter is built again when the    *)
(* fingerprint recorded beside it is not that of the sources.              *)
(*                                                                         *)
(*   smoke: files -> compare ----------------------------------> use       *)
(*                      |                                         |        *)
(*   build:      fingerprint -> snapshot -> build -> move -> label         *)
(*                                                                         *)
(* Sources are edited and scripts are killed at any time, and two scripts  *)
(* may run at once.                                                        *)
(***************************************************************************)
EXTENDS Naturals, FiniteSets

CONSTANTS
  Smokes,    \* shells that run the smoke script
  Builders,  \* shells that run the build script on its own
  None,      \* no such file
  Torn,      \* a binary that was copied in part
  Empty,     \* a fingerprint file that was truncated and not written
  MaxEdits,  \* bound: new versions of the sources
  MaxKills   \* bound: scripts that are killed

Runners == Smokes \cup Builders

\* Versions of the hashed files, numbered as they first appear; sha256 is
\* taken to tell them apart.
Versions == 0..MaxEdits

MaxAttempts == 3

ASSUME RunnerAssumption == Smokes \cap Builders = {}

ASSUME FileAssumption == {None, Torn, Empty} \cap Nat = {}

ASSUME BoundAssumption == MaxEdits \in Nat /\ MaxKills \in Nat

VARIABLES
  sources,   \* the version in the working tree
  newest,    \* the newest version so far
  binary,    \* the version testdata/golangci/custom-gcl was built from
  label,     \* the version custom-gcl.fingerprint names
  pc,        \* where each shell is
  print,     \* the fingerprint it holds
  snapshot,  \* the copy of the sources it builds
  attempt,   \* the attempt at building it is in
  since,     \* versions of the sources since a smoke script was started
  kills,     \* scripts killed so far
  troubles   \* what has happened so far, for the properties only

vars == <<sources, newest, binary, label, pc, print, snapshot, attempt, since, kills, troubles>>

files == <<sources, newest, binary, label>>

Troubles == {"revert", "slip", "kill", "overlap"}

Installing == {"move", "moving", "label", "labelling"}
Building == {"fingerprint", "snapshot", "build"} \cup Installing
Places == {"idle", "files", "compare", "use"} \cup Building

Init ==
  /\ sources = 0 /\ newest = 0
  /\ binary = None /\ label = None
  /\ pc = [r \in Runners |-> "idle"]
  /\ print = [r \in Runners |-> None]
  /\ snapshot = [r \in Runners |-> None]
  /\ attempt = [r \in Runners |-> 0]
  /\ since = [r \in Runners |-> {}]
  /\ kills = 0 /\ troubles = {}

Goto(r, place) == pc' = [pc EXCEPT ![r] = place]

\* The shell is done with its script.
Quit(r) ==
  /\ pc' = [pc EXCEPT ![r] = "idle"]
  /\ print' = [print EXCEPT ![r] = None]
  /\ snapshot' = [snapshot EXCEPT ![r] = None]
  /\ attempt' = [attempt EXCEPT ![r] = 0]
  /\ since' = [since EXCEPT ![r] = {}]

Call(r) ==
  /\ pc[r] = "idle"
  /\ Goto(r, IF r \in Smokes THEN "files" ELSE "fingerprint")
  /\ since' = [since EXCEPT ![r] = IF r \in Smokes THEN {sources} ELSE {}]
  /\ UNCHANGED <<files, print, snapshot, attempt, kills, troubles>>

-----------------------------------------------------------------------------
(* custom_binary_is_stale *)

\* Variant: the binary is used when both files are there.
LookNoFurther(r) ==
  /\ pc[r] = "files"
  /\ Goto(r, IF binary = None \/ label = None THEN "fingerprint" ELSE "use")
  /\ UNCHANGED <<files, print, snapshot, attempt, since, kills, troubles>>

\* Without an executable or a fingerprint the binary is stale; a torn one may
\* be executable or not.
LookForFiles(r) ==
  /\ pc[r] = "files"
  /\ \/ /\ binary \in {None, Torn} \/ label = None
        /\ Goto(r, "fingerprint")
        /\ UNCHANGED print
     \/ /\ binary # None /\ label # None
        /\ Goto(r, "compare")
        /\ print' = [print EXCEPT ![r] = sources]
  /\ UNCHANGED <<files, snapshot, attempt, since, kills, troubles>>

\* Variant: any recorded fingerprint will do.
CompareNothing(r) ==
  /\ pc[r] = "compare"
  /\ Goto(r, IF label # Empty THEN "use" ELSE "fingerprint")
  /\ print' = [print EXCEPT ![r] = None]
  /\ UNCHANGED <<files, snapshot, attempt, since, kills, troubles>>

\* The recorded fingerprint must be that of the sources.
Compare(r) ==
  /\ pc[r] = "compare"
  /\ Goto(r, IF label = print[r] THEN "use" ELSE "fingerprint")
  /\ print' = [print EXCEPT ![r] = None]
  /\ UNCHANGED <<files, snapshot, attempt, since, kills, troubles>>

-----------------------------------------------------------------------------
(* build-custom-gcl.sh *)

Fingerprint(r) ==
  /\ pc[r] = "fingerprint"
  /\ print' = [print EXCEPT ![r] = sources]
  /\ troubles' = troubles \cup
       {t \in {"overlap"} : \E q \in Runners \ {r} : pc[q] \in Building}
  /\ Goto(r, "snapshot")
  /\ UNCHANGED <<files, snapshot, attempt, since, kills>>

\* Variant: the fingerprint of the build is taken when the sources are no
\* longer those that are copied.
SnapshotFirst(r) ==
  /\ pc[r] = "snapshot"
  /\ snapshot' = [snapshot EXCEPT ![r] = print[r]]
  /\ print' = [print EXCEPT ![r] = sources]
  /\ troubles' = troubles \cup {t \in {"slip"} : sources # print[r]}
  /\ attempt' = [attempt EXCEPT ![r] = 1]
  /\ Goto(r, "build")
  /\ UNCHANGED <<files, since, kills>>

\* tar copies the working tree, which may have changed since.  An edit falls
\* between two steps: the script also reads .custom-gcl.yml before it takes the
\* fingerprint and after it has copied, and the versions it reads there are
\* taken to be those of the fingerprint and of the copy.
Snapshot(r) ==
  /\ pc[r] = "snapshot"
  /\ snapshot' = [snapshot EXCEPT ![r] = sources]
  /\ troubles' = troubles \cup {t \in {"slip"} : sources # print[r]}
  /\ attempt' = [attempt EXCEPT ![r] = 1]
  /\ Goto(r, "build")
  /\ UNCHANGED <<files, print, since, kills>>

Build(r) ==
  /\ pc[r] = "build"
  /\ Goto(r, "move")
  /\ attempt' = [attempt EXCEPT ![r] = 0]
  /\ UNCHANGED <<files, print, snapshot, since, kills, troubles>>

\* Another attempt, or the script fails; set -e ends its caller as well.
BuildFails(r) ==
  /\ pc[r] = "build"
  /\ \/ /\ attempt[r] < MaxAttempts
        /\ attempt' = [attempt EXCEPT ![r] = attempt[r] + 1]
        /\ UNCHANGED <<pc, print, snapshot, since>>
     \/ /\ attempt[r] >= MaxAttempts
        /\ Quit(r)
  /\ UNCHANGED <<files, kills, troubles>>

\* mv -f from the temporary directory; between file systems it is a copy.
MoveBegins(r) ==
  /\ pc[r] = "move"
  /\ binary' = Torn
  /\ Goto(r, "moving")
  /\ UNCHANGED <<sources, newest, label, print, snapshot, attempt, since, kills, troubles>>

MoveEnds(r) ==
  /\ pc[r] = "moving"
  /\ binary' = snapshot[r]
  /\ snapshot' = [snapshot EXCEPT ![r] = None]
  /\ Goto(r, "label")
  /\ UNCHANGED <<sources, newest, label, print, attempt, since, kills, troubles>>

\* The shell truncates the file before printf writes it.
LabelBegins(r) ==
  /\ pc[r] = "label"
  /\ label' = Empty
  /\ Goto(r, "labelling")
  /\ UNCHANGED <<sources, newest, binary, print, snapshot, attempt, since, kills, troubles>>

\* Variant: the fingerprint recorded is that of the sources now.
LabelCurrent(r) ==
  /\ pc[r] = "labelling"
  /\ label' = sources
  /\ IF r \in Builders THEN Quit(r)
     ELSE /\ Goto(r, "use")
          /\ print' = [print EXCEPT ![r] = None]
          /\ UNCHANGED <<snapshot, attempt, since>>
  /\ UNCHANGED <<sources, newest, binary, kills, troubles>>

LabelEnds(r) ==
  /\ pc[r] = "labelling"
  /\ label' = print[r]
  /\ IF r \in Builders THEN Quit(r)
     ELSE /\ Goto(r, "use")
          /\ print' = [print EXCEPT ![r] = None]
          /\ UNCHANGED <<snapshot, attempt, since>>
  /\ UNCHANGED <<sources, newest, binary, kills, troubles>>

\* The smoke script runs the linter and compares what it prints.
Use(r) ==
  /\ pc[r] = "use"
  /\ Quit(r)
  /\ UNCHANGED <<files, kills, troubles>>

-----------------------------------------------------------------------------
(* The world around. *)

\* No two builds were at work at once.  Bound: nothing is claimed of builds
\* that were, so no edit is explored after them.
Serial == "overlap" \notin troubles

Kill(r) ==
  /\ pc[r] # "idle"
  /\ kills < MaxKills /\ kills' = kills + 1
  /\ troubles' = troubles \cup {t \in {"kill"} : pc[r] \in Installing}
  /\ Quit(r)
  /\ UNCHANGED files

ChangeTo(v) ==
  /\ sources' = v
  /\ since' = [r \in Runners |-> IF since[r] = {} THEN {} ELSE since[r] \cup {v}]
  /\ UNCHANGED <<binary, label, pc, print, snapshot, attempt, kills>>

Edit ==
  /\ newest < MaxEdits /\ Serial
  /\ newest' = newest + 1
  /\ ChangeTo(newest + 1)
  /\ UNCHANGED troubles

\* Back to a version that was there before: git checkout, git stash.
Revert(v) ==
  /\ v \in 0..newest /\ v # sources /\ Serial
  /\ ChangeTo(v)
  /\ troubles' = troubles \cup {"revert"}
  /\ UNCHANGED newest

Work(r) ==
  \/ LookForFiles(r) \/ Compare(r)
  \/ Fingerprint(r) \/ Snapshot(r)
  \/ MoveBegins(r) \/ MoveEnds(r) \/ LabelBegins(r) \/ LabelEnds(r)
  \/ Use(r)

Next ==
  \/ \E r \in Runners : Call(r) \/ Work(r) \/ Build(r) \/ BuildFails(r) \/ Kill(r)
  \/ Edit
  \/ \E v \in Versions : Revert(v)

Spec == Init /\ [][Next]_vars

\* A script goes on, the smoke script is run again and again, and a build that
\* is tried again and again succeeds.
FairSpec ==
  /\ Spec
  /\ \A r \in Runners : WF_vars(Work(r)) /\ SF_vars(Build(r))
  /\ \A r \in Smokes : WF_vars(Call(r))

-----------------------------------------------------------------------------
(* Properties. *)

Unknown == Versions \cup {None}

TypeOK ==
  /\ newest \in Versions /\ sources \in 0..newest
  /\ binary \in Unknown \cup {Torn}
  /\ label \in Unknown \cup {Empty}
  /\ pc \in [Runners -> Places]
  /\ print \in [Runners -> Unknown] /\ snapshot \in [Runners -> Unknown]
  /\ attempt \in [Runners -> 0..MaxAttempts]
  /\ since \in [Runners -> SUBSET Versions]
  /\ kills \in 0..MaxKills
  /\ troubles \subseteq Troubles

\* The fingerprint never names newer sources than those the binary was built
\* from, so a binary that passes for fresh is: scripts killed between any two
\* steps and edits at any moment do no harm, because the fingerprint is taken
\* before the copy and recorded after the move.  Going back to old sources
\* can, and so can two builds at once.
LabelNeverAhead ==
  Serial /\ "revert" \notin troubles =>
    (label \in Versions /\ binary \in Versions => label <= binary)

\* Whatever version the sources go back to, the fingerprint is that of the
\* binary, if no script was killed while it installed and no edit fell between
\* fingerprint and copy.
LabelIsBinary ==
  troubles \cap {"overlap", "kill", "slip"} = {} =>
    (label \in Versions /\ (\A r \in Runners : pc[r] \notin Installing) => binary = label)

\* A smoke test runs a linter built from sources that were in the tree while
\* it ran, unless what it finds is a torn copy that does not run at all.  The
\* variables have their types.
RunsCurrent ==
  /\ TypeOK
  /\ Serial /\ "revert" \notin troubles =>
       \A r \in Smokes : pc[r] = "use" => binary \in since[r] \cup {Torn}

\* When edits have come to an end the binary is at last that of the sources,
\* whatever was killed, and stays so; only a script killed in its move may
\* leave a copy that no later run replaces.
EventuallyFresh ==
  <>[](\/ ~ Serial \/ "revert" \in troubles
       \/ binary = sources
       \/ binary = Torn /\ ("kill" \in troubles \/ \E r \in Runners : pc[r] = "moving"))
=============================================================================
