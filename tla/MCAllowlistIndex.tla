-------------------------- MODULE MCAllowlistIndex --------------------------
(* A small instance of AllowlistIndex for TLC. *)
EXTENDS AllowlistIndex, SequencesExt, TLC

\* "a" is spelled with and without padding, "" has a field or the description missing.
MCKeys == {"a", "b"}

MCRawKeys == {"a", " a", "b", ""}

MCKeyOf == "a" :> "a" @@ " a" :> "a" @@ "b" :> "b" @@ "" :> None

MCPositions == {<<1, 1>>, <<1, 2>>}

\* The positions a selector may have: none, a right one, half of one.
MCRaw ==
  {s \in [key : MCRawKeys, line : 0 .. 1, column : 0 .. 2] :
     <<s.line, s.column>> \in {<<0, 0>>, <<1, 1>>, <<1, 2>>, <<0, 1>>}}

MCFound == [key : MCKeys, line : {1}, column : {1, 2}]

MCAllowlists == SeqOf(MCRaw, 2)

MCCollections == SeqOf(MCFound, 3)

MCSuppressed == {[key |-> "a", line |-> 1, column |-> 2]}

=============================================================================
