-------------------------- MODULE MCConfiguration --------------------------
(* Small instances of Configuration for TLC. *)
EXTENDS Configuration, TLC

M == <<"m">>
A == <<"a">>
AB == <<"a", "b">>
N == <<"n">>
X == <<"x">>
T == <<"t">>
C == <<"c">>
L == <<"l">>
G == <<"g">>
D == <<"d">>

\* A module m with packages a, a/ab and ab and a tagged file, a module n inside
\* it, a link l to m, the build cache c, and a directory d elsewhere.
MCDisk ==
  {<<M, X>>, <<M, A, X>>, <<M, A, T>>, <<M, A, AB, X>>, <<M, AB, X>>, <<M, N, X>>,
   <<L, A, X>>, <<C, G>>, <<D, X>>}

MCLinks == {<<L>>}
MCModuleDirs == {<<M>>, <<M, N>>, <<L>>}
MCGenerated == {<<C, G>>}
MCTagOf == [f \in MCDisk |-> IF f = <<M, A, T>> THEN <<"t">> ELSE None]
MCAllowlist == Relative(<<<<"w">>>>)

Package(files) == [files |-> files, unreadable |-> {}, testMain |-> FALSE]

\* Packages a, ab and n, the main package of a test of a, a package with cgo,
\* and ab when its file can no longer be read.
MCPasses ==
  <<Package(<<<<M, A, X>>, <<M, A, T>>>>), Package(<<<<M, AB, X>>>>), Package(<<<<M, N, X>>>>),
    [files |-> <<<<C, G>>>>, unreadable |-> {}, testMain |-> TRUE],
    Package(<<<<M, A, AB, X>>, <<C, G>>>>),
    [files |-> <<<<M, AB, X>>>>, unreadable |-> {<<M, AB, X>>}, testMain |-> FALSE]>>

Plugin == [frontend |-> "plugin", allowlist |-> Absent, roots |-> Absent, repoRoot |-> Absent,
           cwd |-> <<M>>, goflags |-> [flags |-> <<>>, text |-> <<>>], driver |-> <<>>,
           globs |-> <<>>, passes |-> MCPasses]

\* Roots in every notation, from several directories.
MCPieces ==
  {Blank, Relative(<<Dot, Dots>>), Relative(<<Dots>>), Relative(<<A>>), Relative(<<Dot, A, <<>>, AB, Dots>>),
   Relative(<<A, DotDot, AB>>), Absolute(<<M, A, Dots>>), Absolute(<<Dots>>),
   Relative(<<A, Dots, Dots>>), Relative(<<DotDot>>), Relative(<<N>>)}

Texts(n) == SeqOf(MCPieces, n) \ {<<>>}

PluginRootsInputs ==
  {Absent, Malformed}
    \cup {[list |-> FALSE, texts |-> <<text>>] : text \in Texts(2)}
    \cup {[list |-> TRUE, texts |-> texts] : texts \in SeqOf(Texts(1), 2)}
    \cup {[list |-> TRUE, texts |-> <<text>>] : text \in Texts(2)}
    \cup {[list |-> TRUE, texts |-> <<text, <<Relative(<<A>>)>>>>] : text \in Texts(2)}

Places ==
  {[cwd |-> cwd, repoRoot |-> repoRoot] :
     cwd \in {<<M>>, <<M, N>>, <<D>>}, repoRoot \in {Absent, Absolute(<<M>>), Relative(<<DotDot, M>>)}}

RootInputs ==
  {[Plugin EXCEPT !.roots = roots, !.cwd = place.cwd, !.repoRoot = place.repoRoot] :
     roots \in PluginRootsInputs, place \in Places}
  \cup
  {[Plugin EXCEPT !.frontend = "command", !.roots = roots, !.cwd = place.cwd,
                  !.repoRoot = place.repoRoot, !.allowlist = allowlist] :
     roots \in Texts(2) \cup {Absent}, place \in Places,
     allowlist \in {Absent, Absolute(<<M, <<"v">>>>)}}

\* GOFLAGS, written in the notations of the go command.
MCTags == {<<>>, <<<<"t">>>>, <<<<"u">>>>, <<<<"u">>, <<"t">>, <<"u">>>>}

Between(tags, separator) ==
  FlattenSeq([n \in 1 .. Len(tags) |-> IF n = 1 THEN tags[n] ELSE <<separator>> \o tags[n]])

Quoted(text, quote) == <<quote>> \o text \o <<quote>>

Writings(name, tags) ==
  LET spaced == <<name, "=">> \o Between(tags, " ")
      each == <<name, "=">> \o Between([n \in 1 .. Len(tags) |-> Quoted(tags[n], "'")], " ")
  IN  {<<name, "=">> \o Between(tags, ","), Quoted(spaced, "'"), Quoted(spaced, "\""),
       Quoted(each, "\"")}

WrittenFlags ==
  UNION {{[flag |-> [name |-> name, tags |-> tags], text |-> text] : text \in Writings(name, tags)} :
           name \in {"-tags", "--tags", "-mod"}, tags \in MCTags}

GoflagsInputs ==
  {[flags |-> <<w.flag>>, text |-> <<" ">> \o w.text \o <<" ">>] : w \in WrittenFlags}
    \cup {[flags |-> <<v.flag, w.flag>>, text |-> v.text \o <<" ">> \o w.text] :
            v, w \in WrittenFlags}
    \cup {[flags |-> <<>>, text |-> <<"'", "-tags", "=", "t">>],
          [flags |-> <<>>, text |-> <<"-race", " ", "=", "t">>]}

TagInputs ==
  {[Plugin EXCEPT !.goflags = goflags, !.driver = driver, !.passes = <<MCPasses[1]>>] :
     goflags \in GoflagsInputs, driver \in {<<>>, <<<<"t">>>>}}

\* Globs over the files of a.
Segments(chars, n) == SeqOf(chars, n) \ {<<>>}

Written(names) ==
  IF names[1] = <<>> THEN Absolute(Tail(names)) ELSE Relative(names)

GlobNames ==
  {<<segment>> : segment \in Segments({"*", "?", "a", "x"}, 3)}
    \cup {<<s, t>> : s, t \in Segments({"*", "?", "a", "x"}, 2) \cup {Dot, <<>>}}
    \cup {<<s, t, u>> : s, t, u \in Segments({"*", "a"}, 2) \cup {X}}

\* A glob that begins with an empty name is written with a slash in front.
MCGlobs == {Written(names) : names \in GlobNames}

GlobInputs ==
  {[Plugin EXCEPT !.globs = globs, !.passes = <<MCPasses[1], MCPasses[2]>>] :
     globs \in {<<glob>> : glob \in MCGlobs} \cup {<<NoGlob, glob, Relative(<<AB>>)>> : glob \in MCGlobs}}

\* The module seen through the link.
LinkInputs == {[Plugin EXCEPT !.cwd = <<L>>, !.passes = <<Package(<<<<L, A, X>>>>)>>]}

MCInputs == RootInputs \cup TagInputs \cup GlobInputs \cup LinkInputs

=============================================================================
