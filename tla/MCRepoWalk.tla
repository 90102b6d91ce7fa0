----------------------------- MODULE MCRepoWalk -----------------------------
(* Small instances of RepoWalk for TLC. *)
EXTENDS RepoWalk, SequencesExt

\* WalkDir meets the directory "p" before "p-x"; as strings "p-x/c" < "p/a".
MCWalk == <<"p/a", "p/b", "p-x/c">>
MCSorted == <<"p-x/c", "p/a", "p/b">>

MCDirs == {".", "p", "p-x"}
MCDirOf == "p/a" :> "p" @@ "p/b" :> "p" @@ "p-x/c" :> "p-x"
MCBelow == "." :> {".", "p", "p-x"} @@ "p" :> {"p"} @@ "p-x" :> {"p-x"}

MCRawRoots == {"./...", "p", "p/...", " ", "missing"}
MCRootOf == "./..." :> "." @@ "p" :> "p" @@ "p/..." :> "p" @@ " " :> Blank
              @@ "missing" :> "gone"

\* p/b has two uses with one owner.
MCUsesOf ==
  "p/a" :> <<[line |-> 1, owner |-> "F"], [line |-> 2, owner |-> "G"]>>
    @@ "p/b" :> <<[line |-> 1, owner |-> "F"], [line |-> 2, owner |-> "F"]>>
    @@ "p-x/c" :> <<[line |-> 1, owner |-> "F"]>>

MCRootLists == SeqOf(MCRawRoots, 2)

MCExcludes == {{}, {"p/b"}}

\* A file parses, in the package of its directory or in an external test
\* package, or is one of the others.
MCFile ==
  [status : {"go"}, package : {"p", "p_test"}, declares : BOOLEAN, imports : BOOLEAN]
    \cup {[status |-> s, package |-> "p", declares |-> FALSE, imports |-> FALSE] :
            s \in Status \ {"go"}}

MCWorlds == {w \in [Files -> MCFile] : w["p-x/c"].package = "p" /\ ~ w["p-x/c"].declares}

\* Two roots of which one lies under the other, and an excluded file that
\* declares any in the package of p/a.
OverlappingRootOf == "./..." :> "." @@ "p-x" :> "p-x"

Overlapping == {<<"./...", "p-x">>}

Generated ==
  {[f \in Files |-> [status |-> "go", package |-> "p", declares |-> f = "p/b",
                     imports |-> FALSE]]}

=============================================================================
