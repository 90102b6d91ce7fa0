-------------------------- MODULE ReleaseRegister --------------------------
(***************************************************************************)
(* What the release workflow promises to those who depend on a version: a  *)
(* tag is set once and never moves, and the release of a version comes     *)
(* after its tag, once, with the notes of the commit that is tagged.       *)
(***************************************************************************)
EXTENDS Naturals

CONSTANTS
  Tags,     \* version tags, vX.Y.Z
  Commits   \* positions on main, from 1

VARIABLES
  tags,     \* the commit each tag points to, 0 when there is no such tag
  releases  \* the commit whose changelog section each release shows, or 0

register == <<tags, releases>>

Tag(t, c) ==
  /\ tags[t] = 0
  /\ tags' = [tags EXCEPT ![t] = c]
  /\ UNCHANGED releases

Publish(t) ==
  /\ tags[t] # 0 /\ releases[t] = 0
  /\ releases' = [releases EXCEPT ![t] = tags[t]]
  /\ UNCHANGED tags

\* Some version was released before.
Init ==
  /\ tags \in [Tags -> {0, 1}]
  /\ releases = tags

Next == \E t \in Tags : Publish(t) \/ \E c \in Commits : Tag(t, c)

Spec == Init /\ [][Next]_register
=============================================================================
