-------------------------- MODULE MCAnalyzerPasses --------------------------
(* Small instances of AnalyzerPasses for TLC. *)
EXTENDS AnalyzerPasses, TLC

\* Two Go files, in WalkDir order.
MCFiles == <<"A", "B">>

\* An empty allowlist, and one that allows the finding of the old A.
MCContents == {{}, {<<"A", "old">>}}

MCLists == {"list1", "list2"}

MCConfigs == {"ab", "ba", "dot", "a2"}

\* "ab" and "ba" name the same roots in a different order, "dot" another root
\* over the same files, with the same allowlist.
MCRoots == {"a,b", "."}

MCRootsOf == "ab" :> "a,b" @@ "ba" :> "a,b" @@ "dot" :> "." @@ "a2" :> "a,b"

MCCovers == "a,b" :> {"A", "B"} @@ "." :> {"A", "B"}

MCListOf == "ab" :> "list1" @@ "ba" :> "list1" @@ "dot" :> "list1" @@ "a2" :> "list2"

MCPasses == {"p1", "p2"}

\* Two packages of one configuration; both hold A, as a package and its test
\* variant do.
SharedFile ==
  [files |-> "p1" :> {"A"} @@ "p2" :> {"A", "B"},
   config |-> "p1" :> "ab" @@ "p2" :> "ab",
   escaping |-> {}, edits |-> 0, panics |-> FALSE]

\* The roots in another order: two configurations, which wait for each other
\* over one allowlist and one result.
OtherOrder == [SharedFile EXCEPT !.config["p2"] = "ba"]

\* The same, and a file or the allowlist may be edited.
Edited == [OtherOrder EXCEPT !.edits = 1]

\* Other roots over the same files: one allowlist and two walks.
OtherRoots == [SharedFile EXCEPT !.config["p2"] = "dot"]

\* The allowlist at another path.
OtherList == [SharedFile EXCEPT !.config["p2"] = "a2"]

\* Packages that share no file, and a walk that may panic.
Panicking == [OtherOrder EXCEPT !.files["p2"] = {"B"}, !.panics = TRUE]

\* A package with a file outside the repository root.
Escaping == [OtherOrder EXCEPT !.escaping = {"p2"}]

MCSetups == {SharedFile, Edited, OtherRoots, OtherList, Panicking, Escaping}

=============================================================================
