----------------------------- MODULE BuildTags -----------------------------
(***************************************************************************)
(* The build tags of GOFLAGS: buildTagsFromGOFLAGS and what it calls in    *)
(* internal/validation/any_usage.go.  A text is a sequence of characters,  *)
(* a word counting as one.                                                 *)
(***************************************************************************)
EXTENDS Naturals, Sequences, SequencesExt, FiniteSetsExt

CONSTANT Malformed \* a text with a quote that is not closed

Quotes == {"'", "\""}

Positions(text, chars) == {n \in 1 .. Len(text) : text[n] \in chars}

\* splitQuotedFields: fields between spaces; a quote counts only where a field
\* begins, and what follows the closing one begins a field again.
SplitQuotedFields(text) ==
  LET Then(field, rest) == IF rest = Malformed THEN Malformed ELSE <<field>> \o rest
      from[n \in 1 .. Len(text) + 1] ==
        IF n > Len(text) THEN <<>>
        ELSE IF text[n] = " " THEN from[n + 1]
        ELSE IF text[n] \in Quotes
          THEN LET closing == {m \in Positions(text, {text[n]}) : m > n}
               IN  IF closing = {} THEN Malformed
                   ELSE Then(SubSeq(text, n + 1, Min(closing) - 1), from[Min(closing) + 1])
        ELSE LET end == Min({m \in Positions(text, {" "}) : m > n} \cup {Len(text) + 1})
             IN  Then(SubSeq(text, n, end - 1), from[end])
  IN  from[1]

\* strings.Split at commas.
SplitAtCommas(text) ==
  LET ends == SetToSortSeq({0, Len(text) + 1} \cup Positions(text, {","}), <)
  IN  [n \in 1 .. Len(ends) - 1 |-> SubSeq(text, ends[n] + 1, ends[n + 1] - 1)]

\* normalizeBuildTags: no empty tag, and each the first time only.
NormalizeBuildTags(tags) ==
  FoldLeft(LAMBDA seen, tag : IF tag = <<>> \/ Contains(seen, tag) THEN seen ELSE Append(seen, tag),
           <<>>, tags)

\* parseBuildTagsFlagValue: the notation of old, with spaces or quotes, or the
\* one with commas.
ParseBuildTagsFlagValue(value) ==
  IF Positions(value, {" ", "'"}) = {} THEN NormalizeBuildTags(SplitAtCommas(value))
  ELSE LET tags == SplitQuotedFields(value)
       IN  IF tags = Malformed THEN <<>> ELSE NormalizeBuildTags(tags)

\* splitFlagValue: name and value around the first "=", if a name is there.
HasValue(flag) == LET at == Positions(flag, {"="}) IN at # {} /\ Min(at) > 1
NameOf(flag) == SubSeq(flag, 1, Min(Positions(flag, {"="})) - 1)
ValueOf(flag) == SubSeq(flag, Min(Positions(flag, {"="})) + 1, Len(flag))

IsTagsFlag(flag) == HasValue(flag) /\ NameOf(flag) \in {<<"-tags">>, <<"--tags">>}

\* Variant: the tags of all flags are put together.
TagsOfAllFlags(text) ==
  LET fields == SplitQuotedFields(text)
      flags == IF fields = Malformed THEN <<>> ELSE SelectSeq(fields, IsTagsFlag)
  IN  NormalizeBuildTags(FlattenSeq(
        [n \in 1 .. Len(flags) |-> ParseBuildTagsFlagValue(ValueOf(flags[n]))]))

\* The last flag counts; a malformed text has none.
BuildTagsFromGOFLAGS(text) ==
  LET fields == SplitQuotedFields(text)
      flags == IF fields = Malformed THEN <<>> ELSE SelectSeq(fields, IsTagsFlag)
  IN  IF flags = <<>> THEN <<>> ELSE ParseBuildTagsFlagValue(ValueOf(Last(flags)))
=============================================================================
