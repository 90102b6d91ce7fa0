------------------------- MODULE MCReleaseWorkflow -------------------------
(* A small instance of ReleaseWorkflow for TLC. *)
EXTENDS ReleaseWorkflow, TLC

CONSTANTS p1, p2, p3, v0, v1, v2

MCTags == {v0, v1, v2}

\* Version v1 with two dates, and a heading without a proper version.
MCTagOf == "0" :> v0 @@ "1" :> v1 @@ "1b" :> v1 @@ "2" :> v2 @@ "bad" :> Malformed
MCHeadings == DOMAIN MCTagOf

Of(title, heading) == [title |-> title, heading |-> heading, notes |-> TRUE]

\* Releases as they should be; the others revert a release, announce by title
\* alone, contradict themselves, or have nothing to do with releases.
Releases == {Of(v1, "1"), Of(Plain, "1b"), Of(v2, "2")}
Others ==
  {Of(Plain, "0"), Of(v1, Same), Of(v2, "1"), Of(Plain, Same), Of(Malformed, "1"),
   Of(v1, "bad"), Of(v1, NoHeading), [Of(v1, "1") EXCEPT !.notes = FALSE]}

Pairs ==
  {p1 :> Of(v1, "1") @@ p2 :> b : b \in Releases} \cup
  {p1 :> a @@ p2 :> b : a \in {Of(v1, "1"), Of(Plain, "1b")}, b \in Others}

\* Three merges, for a pending run to be cancelled by a newer one.
Triples ==
  {p1 :> Of(v1, "1") @@ p2 :> Of(v2, "2") @@ p3 :> c : c \in {Of(Plain, "1b"), Of(Plain, "1")}}

MCChanges == Pairs \cup Triples

MCMaxMishaps ==
  [f \in MCChanges |->
     IF f \in Triples THEN 0 ELSE IF f[p2] \in {Of(v1, "1"), Of(v2, "2")} THEN 2 ELSE 1]
=============================================================================
