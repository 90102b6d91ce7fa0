-------------------------- MODULE LexicalAnyProofs --------------------------
(***************************************************************************)
(* Theorems about LexicalAny, for files of any size: what the calls in     *)
(* progress have yet to do closes exactly the scopes that are open, each   *)
(* use recorded is owned by the top-level declaration around it, and what  *)
(* is recorded is what the scopes of the Go specification leave to the     *)
(* universe any.                                                           *)
(***************************************************************************)
EXTENDS LexicalAny, FiniteSetTheorems, SequenceTheorems, WellFoundedInduction, TLAPS

-----------------------------------------------------------------------------
(* Plans: what is opened is closed. *)

\* A plan of k steps that opens and closes scopes at the given ones.
Scoped(kind, k, opens, closes) ==
  /\ Len(Plan(kind)) = k /\ DOMAIN Plan(kind) = 1 .. k
  /\ \A s \in 1 .. k : /\ Plan(kind)[s].op = "open" <=> s \in opens
                       /\ Plan(kind)[s].op = "close" <=> s \in closes

\* The step that closes what step s of a kind opens.
Match(kind, s) == IF kind = "switch" /\ s = 4 THEN 6 ELSE Len(Plan(kind))

Opens(kind) == {s \in DOMAIN Plan(kind) : Plan(kind)[s].op = "open"}
Closes(kind) == {s \in DOMAIN Plan(kind) : Plan(kind)[s].op = "close"}

\* Each step that opens a scope has a later one of its own that closes it.
Matched(kind) ==
  /\ Len(Plan(kind)) \in Nat /\ DOMAIN Plan(kind) = 1 .. Len(Plan(kind))
  /\ \A s \in Opens(kind) : Match(kind, s) \in Closes(kind) /\ s < Match(kind, s)
  /\ \A s, r \in Opens(kind) : Match(kind, s) = Match(kind, r) => s = r
  /\ \A c \in Closes(kind) : \E s \in Opens(kind) : Match(kind, s) = c

\* The kinds of each table.
LEMMA DomainFacts ==
  /\ DOMAIN DeclPlan = {"func", "funclit", "typespec", "valuespec"}
  /\ DOMAIN TypePlan = {"functype", "fields", "array", "map", "star"}
  /\ DOMAIN ExprPlan = {"call", "assert", "index", "parts"}
  /\ DOMAIN StmtPlan = {"block", "define"}
  /\ DOMAIN ControlPlan = {"if", "for", "range", "rangeover", "switch", "typeswitch", "select",
                           "case", "typecase", "comm"}
  /\ DOMAIN FilePlan = {"ident", "file"}
BY DEF DeclPlan, TypePlan, ExprPlan, StmtPlan, ControlPlan, FilePlan

\* The plans, one by one.
LEMMA PlanTable ==
  /\ Scoped("func", 10, {1}, {10})
  /\ Scoped("funclit", 5, {1}, {5})
  /\ Scoped("typespec", 5, {2}, {5})
  /\ Scoped("valuespec", 3, {}, {})
  /\ Scoped("functype", 1, {}, {})
  /\ Scoped("fields", 1, {}, {})
  /\ Scoped("array", 2, {}, {})
  /\ Scoped("map", 2, {}, {})
  /\ Scoped("star", 1, {}, {})
  /\ Scoped("call", 2, {}, {})
  /\ Scoped("assert", 2, {}, {})
  /\ Scoped("index", 2, {}, {})
  /\ Scoped("parts", 1, {}, {})
  /\ Scoped("block", 3, {1}, {3})
  /\ Scoped("define", 3, {}, {})
  /\ Scoped("if", 6, {1}, {6})
  /\ Scoped("for", 6, {1}, {6})
  /\ Scoped("range", 6, {1}, {6})
  /\ Scoped("rangeover", 5, {1}, {5})
  /\ Scoped("switch", 7, {1, 4}, {6, 7})
  /\ Scoped("typeswitch", 5, {1}, {5})
  /\ Scoped("select", 3, {1}, {3})
  /\ Scoped("case", 4, {2}, {4})
  /\ Scoped("typecase", 3, {1}, {3})
  /\ Scoped("comm", 4, {1}, {4})
  /\ Scoped("ident", 0, {}, {})
  /\ Scoped("file", 1, {}, {})
<1> USE DEF Scoped, Open, Close, Declare, Visit, Slot, Body
<1>1. Scoped("func", 10, {1}, {10})
  <2>1. Plan("func") = DeclPlan["func"]
    BY DomainFacts DEF Plan
  <2> QED
    BY <2>1 DEF DeclPlan
<1>2. Scoped("funclit", 5, {1}, {5})
  <2>1. Plan("funclit") = DeclPlan["funclit"]
    BY DomainFacts DEF Plan
  <2> QED
    BY <2>1 DEF DeclPlan
<1>3. Scoped("typespec", 5, {2}, {5})
  <2>1. Plan("typespec") = DeclPlan["typespec"]
    BY DomainFacts DEF Plan
  <2> QED
    BY <2>1 DEF DeclPlan
<1>4. Scoped("valuespec", 3, {}, {})
  <2>1. Plan("valuespec") = DeclPlan["valuespec"]
    BY DomainFacts DEF Plan
  <2> QED
    BY <2>1 DEF DeclPlan
<1>5. Scoped("functype", 1, {}, {})
  <2>1. Plan("functype") = TypePlan["functype"]
    BY DomainFacts DEF Plan
  <2> QED
    BY <2>1 DEF TypePlan
<1>6. Scoped("fields", 1, {}, {})
  <2>1. Plan("fields") = TypePlan["fields"]
    BY DomainFacts DEF Plan
  <2> QED
    BY <2>1 DEF TypePlan
<1>7. Scoped("array", 2, {}, {})
  <2>1. Plan("array") = TypePlan["array"]
    BY DomainFacts DEF Plan
  <2> QED
    BY <2>1 DEF TypePlan
<1>8. Scoped("map", 2, {}, {})
  <2>1. Plan("map") = TypePlan["map"]
    BY DomainFacts DEF Plan
  <2> QED
    BY <2>1 DEF TypePlan
<1>9. Scoped("star", 1, {}, {})
  <2>1. Plan("star") = TypePlan["star"]
    BY DomainFacts DEF Plan
  <2> QED
    BY <2>1 DEF TypePlan
<1>10. Scoped("call", 2, {}, {})
  <2>1. Plan("call") = ExprPlan["call"]
    BY DomainFacts DEF Plan
  <2> QED
    BY <2>1 DEF ExprPlan
<1>11. Scoped("assert", 2, {}, {})
  <2>1. Plan("assert") = ExprPlan["assert"]
    BY DomainFacts DEF Plan
  <2> QED
    BY <2>1 DEF ExprPlan
<1>12. Scoped("index", 2, {}, {})
  <2>1. Plan("index") = ExprPlan["index"]
    BY DomainFacts DEF Plan
  <2> QED
    BY <2>1 DEF ExprPlan
<1>13. Scoped("parts", 1, {}, {})
  <2>1. Plan("parts") = ExprPlan["parts"]
    BY DomainFacts DEF Plan
  <2> QED
    BY <2>1 DEF ExprPlan
<1>14. Scoped("block", 3, {1}, {3})
  <2>1. Plan("block") = StmtPlan["block"]
    BY DomainFacts DEF Plan
  <2> QED
    BY <2>1 DEF StmtPlan
<1>15. Scoped("define", 3, {}, {})
  <2>1. Plan("define") = StmtPlan["define"]
    BY DomainFacts DEF Plan
  <2> QED
    BY <2>1 DEF StmtPlan
<1>16. Scoped("if", 6, {1}, {6})
  <2>1. Plan("if") = ControlPlan["if"]
    BY DomainFacts DEF Plan
  <2> QED
    BY <2>1 DEF ControlPlan
<1>17. Scoped("for", 6, {1}, {6})
  <2>1. Plan("for") = ControlPlan["for"]
    BY DomainFacts DEF Plan
  <2> QED
    BY <2>1 DEF ControlPlan
<1>18. Scoped("range", 6, {1}, {6})
  <2>1. Plan("range") = ControlPlan["range"]
    BY DomainFacts DEF Plan
  <2> QED
    BY <2>1 DEF ControlPlan
<1>19. Scoped("switch", 7, {1, 4}, {6, 7})
  <2>1. Plan("switch") = ControlPlan["switch"]
    BY DomainFacts DEF Plan
  <2> QED
    BY <2>1 DEF ControlPlan
<1>20. Scoped("typeswitch", 5, {1}, {5})
  <2>1. Plan("typeswitch") = ControlPlan["typeswitch"]
    BY DomainFacts DEF Plan
  <2> QED
    BY <2>1 DEF ControlPlan
<1>21. Scoped("select", 3, {1}, {3})
  <2>1. Plan("select") = ControlPlan["select"]
    BY DomainFacts DEF Plan
  <2> QED
    BY <2>1 DEF ControlPlan
<1>22. Scoped("case", 4, {2}, {4})
  <2>1. Plan("case") = ControlPlan["case"]
    BY DomainFacts DEF Plan
  <2> QED
    BY <2>1 DEF ControlPlan
<1>23. Scoped("typecase", 3, {1}, {3})
  <2>1. Plan("typecase") = ControlPlan["typecase"]
    BY DomainFacts DEF Plan
  <2> QED
    BY <2>1 DEF ControlPlan
<1>24. Scoped("comm", 4, {1}, {4})
  <2>1. Plan("comm") = ControlPlan["comm"]
    BY DomainFacts DEF Plan
  <2> QED
    BY <2>1 DEF ControlPlan
<1>25. Scoped("ident", 0, {}, {})
  <2>1. Plan("ident") = FilePlan["ident"]
    BY DomainFacts DEF Plan
  <2> QED
    BY <2>1 DEF FilePlan
<1>26. Scoped("file", 1, {}, {})
  <2>1. Plan("file") = FilePlan["file"]
    BY DomainFacts DEF Plan
  <2> QED
    BY <2>1 DEF FilePlan
<1>27. Scoped("rangeover", 5, {1}, {5})
  <2>1. Plan("rangeover") = ControlPlan["rangeover"]
    BY DomainFacts DEF Plan
  <2> QED
    BY <2>1 DEF ControlPlan
<1> HIDE DEF Scoped
<1> QED
  BY <1>1, <1>2, <1>3, <1>4, <1>5, <1>6, <1>7, <1>8, <1>9, <1>10, <1>11,
     <1>12, <1>13, <1>14, <1>15, <1>16, <1>17, <1>18, <1>19, <1>20, <1>21,
     <1>22, <1>23, <1>24, <1>25, <1>26, <1>27

\* What every plan opens it closes.
LEMMA PlanFacts == \A kind \in Kinds : Matched(kind)
<1>1. ASSUME NEW kind, NEW k \in Nat, Scoped(kind, k, {}, {})
      PROVE  Matched(kind)
  BY <1>1 DEF Scoped, Matched, Match, Opens, Closes
<1>2. ASSUME NEW kind, kind # "switch", NEW k \in Nat, NEW o \in 1 .. k - 1,
             Scoped(kind, k, {o}, {k})
      PROVE  Matched(kind)
  BY <1>2 DEF Scoped, Matched, Match, Opens, Closes
<1>3. Matched("switch")
  <2>1. /\ Len(Plan("switch")) = 7 /\ DOMAIN Plan("switch") = 1 .. 7
        /\ Opens("switch") = {1, 4} /\ Closes("switch") = {6, 7}
    <3>1. Scoped("switch", 7, {1, 4}, {6, 7})
      BY PlanTable
    <3>2. Len(Plan("switch")) = 7 /\ DOMAIN Plan("switch") = 1 .. 7
      BY <3>1 DEF Scoped
    <3>3. \A s \in 1 .. 7 : /\ Plan("switch")[s].op = "open" <=> s \in {1, 4}
                            /\ Plan("switch")[s].op = "close" <=> s \in {6, 7}
      BY <3>1 DEF Scoped
    <3> QED
      BY <3>2, <3>3 DEF Opens, Closes
  <2>2. Match("switch", 1) = 7 /\ Match("switch", 4) = 6
    BY <2>1 DEF Match
  <2> QED
    BY <2>1, <2>2 DEF Matched
<1> QED
  BY <1>1, <1>2, <1>3, PlanTable, DomainFacts DEF Kinds

-----------------------------------------------------------------------------
(* Trees *)

\* A set of naturals has a least element.
LEMMA LeastFacts ==
  ASSUME NEW S \in SUBSET Nat, S # {}
  PROVE  \E n \in S : \A m \in S : n <= m
<1> DEFINE Less == {ss \in Nat \X Nat : ss[1] < ss[2]}
<1>1. IsWellFoundedOn(Less, Nat)
  <2>1. OpToRel(<, Nat) = Less
    BY DEF OpToRel
  <2> QED
    BY <2>1, NatLessThanWellFounded
<1>2. \E n \in S : \A m \in S : <<m, n>> \notin Less
  <2> HIDE DEF Less
  <2> QED
    BY <1>1, WFMin
<1>3. PICK n \in S : \A m \in S : <<m, n>> \notin Less
  BY <1>2
<1>4. ASSUME NEW m \in S PROVE n <= m
  <2>1. <<m, n>> \notin Less /\ m \in Nat /\ n \in Nat
    BY <1>3
  <2> QED
    BY <2>1
<1> QED
  BY <1>4

\* What the walk knows of a node.
Placed(n) ==
  /\ tree[n].kind \in Kinds
  /\ tree[n].up \in Nat /\ tree[n].up < n
  /\ n \in tree[n].path
  /\ n = 1 => tree[n].kind = "file" /\ tree[n].up = 0
  /\ n # 1 => /\ tree[n].up \in Nodes /\ tree[n].kind # "file"
              /\ tree[n].path = tree[tree[n].up].path \cup {n}

\* The walk knows that of every node.
LEMMA TreeFacts ==
  ASSUME IsTree(tree)
  PROVE  /\ Len(tree) \in Nat /\ Len(tree) >= 1 /\ Nodes = 1 .. Len(tree)
         /\ \A n \in Nodes : Placed(n)
<1> DEFINE R == [kind : Kinds, role : {"file"} \cup UNION {ToSet(Roles(k)) : k \in Kinds},
                 up : Nat, path : SUBSET Nat]
<1>1. tree \in Seq(R) /\ tree # <<>>
  BY DEF IsTree
<1>2. Len(tree) \in Nat /\ Len(tree) >= 1 /\ Nodes = 1 .. Len(tree)
  <2> HIDE DEF R
  <2> QED
    BY <1>1 DEF Nodes
<1>3. ASSUME NEW n \in Nodes PROVE tree[n] \in R
  <2> HIDE DEF R
  <2> QED
    BY <1>1, <1>2, <1>3, ElementOfSeq
<1>4. ASSUME NEW n \in Nodes PROVE Placed(n)
  <2>1. CASE n = 1
    BY <1>2, <1>3, <2>1 DEF Placed, IsTree
  <2>2. CASE n # 1
    <3>1. n \in 2 .. Len(tree) /\ tree[n] \in R
      BY <1>2, <1>3, <2>2
    <3>2. /\ tree[n].up \in 1 .. n - 1
          /\ tree[n].kind \in Holds(tree[tree[n].up].kind, tree[n].role) \ {"file"}
          /\ tree[n].path = tree[tree[n].up].path \cup {n}
      BY <3>1 DEF IsTree
    <3> QED
      BY <1>2, <2>2, <3>1, <3>2 DEF Placed
  <2> QED
    BY <2>1, <2>2
<1> QED
  BY <1>2, <1>4

\* The nodes from the root to a node come before it in the source.
LEMMA PathFacts ==
  ASSUME IsTree(tree), NEW n \in Nodes
  PROVE  tree[n].path \subseteq 1 .. n
<1> DEFINE S == {m \in Nodes : ~ (tree[m].path \subseteq 1 .. m)}
<1>1. SUFFICES ASSUME S # {} PROVE FALSE
  OBVIOUS
<1>2. PICK m \in S : \A k \in S : m <= k
  <2>1. S \in SUBSET Nat
    BY TreeFacts
  <2> HIDE DEF S
  <2> QED
    BY <1>1, <2>1, LeastFacts
<1>3. m \in Nodes /\ m \in Nat /\ Placed(m)
  BY <1>2, TreeFacts
<1>4. CASE m = 1
  BY <1>2, <1>4 DEF IsTree
<1>5. CASE m # 1
  <2>1. tree[m].up \in Nodes /\ tree[m].up \in Nat /\ tree[m].up < m
    BY <1>3, <1>5 DEF Placed
  <2>2. tree[tree[m].up].path \subseteq 1 .. tree[m].up
    BY <1>2, <1>3, <2>1
  <2>3. tree[m].path = tree[tree[m].up].path \cup {m}
    BY <1>3, <1>5 DEF Placed
  <2> QED
    BY <1>2, <1>3, <2>1, <2>2, <2>3
<1> QED
  BY <1>4, <1>5

-----------------------------------------------------------------------------
(* The steps of a handler *)

\* What step i of node n does.
Op(n, i) == Plan(tree[n].kind)[i[1]].op

\* The steps of a node are numbered by its plan and are about its children; those
\* that open and close scopes are about none.
LEMMA StepFacts ==
  ASSUME IsTree(tree), NEW n \in Nodes
  PROVE  /\ Steps(n) \subseteq (DOMAIN Plan(tree[n].kind)) \X (0 .. Len(tree))
         /\ IsFiniteSet(Steps(n))
         /\ \A s \in DOMAIN Plan(tree[n].kind) :
              Plan(tree[n].kind)[s].op \in {"open", "close"} =>
                \A c : <<s, c>> \in Steps(n) <=> c = 0
         /\ \A i \in Steps(n) :
              \/ i[2] = 0 /\ Op(n, i) \in {"open", "close", "body"}
              \/ i[2] # 0 /\ i[2] \in Nodes /\ tree[i[2]].up = n
<1> DEFINE plan == Plan(tree[n].kind)
           About(step) ==
             IF \/ step.op \in {"open", "close"}
                \/ step.op = "body" /\ Children(n, step.role) = {}
             THEN {0} ELSE Children(n, step.role)
<1>1. Steps(n) = UNION {{s} \X About(plan[s]) : s \in DOMAIN plan}
  BY DEF Steps
<1>2. /\ Len(plan) \in Nat /\ DOMAIN plan = 1 .. Len(plan)
      /\ Len(tree) \in Nat /\ Nodes = 1 .. Len(tree)
  BY PlanFacts, TreeFacts DEF Matched, Placed
<1>3. \A role : \A c \in Children(n, role) : c # 0 /\ c \in Nodes /\ tree[c].up = n
  BY <1>2 DEF Children
<1>4. ASSUME NEW s \in DOMAIN plan
      PROVE  \A c \in About(plan[s]) :
               \/ c = 0 /\ plan[s].op \in {"open", "close", "body"}
               \/ c # 0 /\ c \in Nodes /\ tree[c].up = n
  BY <1>3
<1>5. ASSUME NEW s \in DOMAIN plan, plan[s].op \in {"open", "close"}
      PROVE  About(plan[s]) = {0}
  BY <1>5
<1> HIDE DEF plan, About
<1>6. \A i : i \in Steps(n) <=>
              \E s \in DOMAIN plan : \E c \in About(plan[s]) : i = <<s, c>>
  BY <1>1
<1>7. Steps(n) \subseteq (DOMAIN plan) \X (0 .. Len(tree))
  BY <1>2, <1>4, <1>6
<1>8. IsFiniteSet(Steps(n))
  <2>1. IsFiniteSet(1 .. Len(plan)) /\ IsFiniteSet(0 .. Len(tree))
    BY <1>2, FS_Interval
  <2>2. IsFiniteSet((1 .. Len(plan)) \X (0 .. Len(tree)))
    BY <2>1, FS_Product
  <2> QED
    BY <1>2, <1>7, <2>2, FS_Subset
<1>9. ASSUME NEW s \in DOMAIN plan, plan[s].op \in {"open", "close"}, NEW c
      PROVE  <<s, c>> \in Steps(n) <=> c = 0
  BY <1>5, <1>6, <1>9
<1>10. ASSUME NEW i \in Steps(n)
       PROVE  \/ i[2] = 0 /\ Op(n, i) \in {"open", "close", "body"}
              \/ i[2] # 0 /\ i[2] \in Nodes /\ tree[i[2]].up = n
  <2>1. PICK s \in DOMAIN plan : \E c \in About(plan[s]) : i = <<s, c>>
    BY <1>6, <1>10
  <2>2. i[1] = s /\ i[2] \in About(plan[s]) /\ Op(n, i) = plan[s].op
    BY <2>1 DEF Op, plan
  <2> QED
    BY <1>4, <2>2
<1> QED
  BY <1>7, <1>8, <1>9, <1>10 DEF plan

-----------------------------------------------------------------------------
(* Calls in progress *)

Frames == [node : Nat, owner : Nat, steps : SUBSET (Nat \X Nat)]

\* A declaration at the top owns itself and what is in it.
Owns(owner, n) ==
  /\ owner \in Nodes
  /\ n = 1 => owner = 1
  /\ n # 1 => tree[owner].up = 1 /\ owner \in tree[n].path

\* A call has steps left, all after those it has taken.
Sound(call) ==
  /\ call.node \in Nodes /\ Owns(call.owner, call.node)
  /\ call.steps # {} /\ call.steps \subseteq Steps(call.node)
  /\ \A i \in call.steps : \A j \in Steps(call.node) : i[1] < j[1] => j \in call.steps

\* The step at hand is the first one left.
LEMMA AtFacts ==
  ASSUME todo \in Seq(Frames), todo # <<>>, todo[Len(todo)].steps # {}
  PROVE  /\ At \in todo[Len(todo)].steps /\ At \in Nat \X Nat
         /\ \A j \in todo[Len(todo)].steps :
              At[1] <= j[1] /\ (At[1] < j[1] \/ (At[1] = j[1] /\ At[2] <= j[2]))
<1> DEFINE steps == todo[Len(todo)].steps
<1>1. steps \in SUBSET (Nat \X Nat) /\ steps # {}
  <2>1. todo[Len(todo)] \in Frames
    BY ElementOfSeq
  <2> QED
    BY <2>1 DEF Frames
<1>2. At = CHOOSE i \in steps : \A j \in steps : i[1] < j[1] \/ (i[1] = j[1] /\ i[2] <= j[2])
  BY DEF At, Last
<1> HIDE DEF steps
<1>3. \E i \in steps : \A j \in steps : i[1] < j[1] \/ (i[1] = j[1] /\ i[2] <= j[2])
  <2> DEFINE S == {i[1] : i \in steps}
  <2>1. S \in SUBSET Nat /\ S # {} /\ \A i \in steps : i[1] \in S
    BY <1>1
  <2>2. \A s \in S : \E i \in steps : i[1] = s
    OBVIOUS
  <2> HIDE DEF S
  <2>3. PICK s \in S : \A r \in S : s <= r
    BY <2>1, LeastFacts
  <2> DEFINE C == {i[2] : i \in {h \in steps : h[1] = s}}
  <2>4. C \in SUBSET Nat /\ C # {} /\ \A i \in steps : i[1] = s => i[2] \in C
    BY <1>1, <2>2, <2>3
  <2>5. \A c \in C : \E i \in steps : i[1] = s /\ i[2] = c
    OBVIOUS
  <2> HIDE DEF C
  <2>6. PICK c \in C : \A b \in C : c <= b
    BY <2>4, LeastFacts
  <2>7. PICK i \in steps : i[1] = s /\ i[2] = c
    BY <2>5, <2>6
  <2>8. ASSUME NEW j \in steps
        PROVE  i[1] < j[1] \/ (i[1] = j[1] /\ i[2] <= j[2])
    <3>1. j[1] \in Nat /\ s \in Nat /\ s <= j[1]
      BY <1>1, <2>1, <2>3
    <3>2. j[1] = s => c <= j[2]
      BY <2>4, <2>6
    <3> QED
      BY <2>7, <3>1, <3>2
  <2> QED
    BY <2>7, <2>8
<1>4. At \in steps /\ \A j \in steps : At[1] < j[1] \/ (At[1] = j[1] /\ At[2] <= j[2])
  BY <1>2, <1>3
<1>5. ASSUME NEW j \in steps PROVE At[1] <= j[1]
  <2>1. At[1] \in Nat /\ j[1] \in Nat
    BY <1>1, <1>4
  <2> QED
    BY <1>4, <2>1
<1> QED
  BY <1>1, <1>4, <1>5 DEF steps

\* After the step the innermost call has one step less, and has returned if that
\* was its last.
LEMMA LeftFacts ==
  ASSUME todo \in Seq(Frames), todo # <<>>
  PROVE  LET L == Len(todo)
             rest == todo[L].steps \ {At}
         IN  /\ Left \in Seq(Frames)
             /\ Len(Left) = IF rest = {} THEN L - 1 ELSE L
             /\ \A t \in 1 .. Len(Left) :
                  /\ Left[t].node = todo[t].node /\ Left[t].owner = todo[t].owner
                  /\ Left[t].steps = IF t = L THEN rest ELSE todo[t].steps
<1> DEFINE L == Len(todo)
           rest == todo[L].steps \ {At}
           call == [todo[L] EXCEPT !.steps = rest]
           front == SubSeq(todo, 1, L - 1)
<1>1. L \in Nat /\ L >= 1 /\ todo[L] \in Frames
  BY ElementOfSeq
<1>2. Left = IF rest = {} THEN front ELSE Append(front, call)
  <2>1. call.steps = rest
    BY <1>1 DEF Frames
  <2> QED
    BY <2>1 DEF Left, Last, Front
<1>3. /\ call \in Frames
      /\ call.node = todo[L].node /\ call.owner = todo[L].owner /\ call.steps = rest
  BY <1>1 DEF Frames
<1>4. front \in Seq(Frames) /\ Len(front) = L - 1 /\ \A t \in 1 .. L - 1 : front[t] = todo[t]
  BY <1>1, SubSeqProperties, SMTT(20)
<1> HIDE DEF front, call, rest, L
<1>5. CASE rest = {}
  <2>1. Left = front /\ Len(Left) = L - 1
    BY <1>2, <1>4, <1>5
  <2>2. ASSUME NEW t \in 1 .. Len(Left) PROVE Left[t] = todo[t] /\ t # L
    BY <1>1, <1>4, <2>1
  <2> QED
    BY <1>4, <1>5, <2>1, <2>2 DEF rest, L
<1>6. CASE rest # {}
  <2>1. Left = Append(front, call)
    BY <1>2, <1>6
  <2>2. Left \in Seq(Frames) /\ Len(Left) = L /\ Left[L] = call
        /\ \A t \in 1 .. L - 1 : Left[t] = todo[t]
    BY <1>1, <1>3, <1>4, <2>1
  <2>3. ASSUME NEW t \in 1 .. Len(Left), t # L PROVE Left[t] = todo[t]
    BY <1>1, <2>2, <2>3
  <2> QED
    BY <1>3, <1>6, <2>2, <2>3 DEF rest, L
<1> QED
  BY <1>5, <1>6

\* All but the last element of a sequence.
LEMMA FrontFacts ==
  ASSUME NEW S, NEW s \in Seq(S), s # <<>>
  PROVE  Front(s) \in Seq(S) /\ Len(Front(s)) = Len(s) - 1
<1>1. Len(s) \in Nat /\ Len(s) >= 1 /\ \A i \in 1 .. Len(s) - 1 : s[i] \in S
  BY ElementOfSeq
<1>2. SubSeq(s, 1, Len(s) - 1) \in Seq(S) /\ Len(SubSeq(s, 1, Len(s) - 1)) = Len(s) - 1
  <2> DEFINE n == Len(s) - 1
  <2>1. 1 \in Int /\ n \in Int /\ n >= 0 /\ \A i \in 1 .. n : s[i] \in S
    BY <1>1
  <2> HIDE DEF n
  <2>2. /\ SubSeq(s, 1, n) \in Seq(S)
        /\ Len(SubSeq(s, 1, n)) = IF 1 <= n THEN n - 1 + 1 ELSE 0
    BY <2>1, SubSeqProperties
  <2>3. Len(SubSeq(s, 1, n)) = n
    BY <2>1, <2>2
  <2> QED
    BY <2>2, <2>3 DEF n
<1> QED
  BY <1>2 DEF Front

\* What inspectNode puts on the stack is a frame.
LEMMA FrameFacts ==
  ASSUME IsTree(tree), NEW n \in Nodes, NEW owner \in Nodes
  PROVE  [node |-> n, owner |-> Owner(n, owner), steps |-> Steps(n)] \in Frames
<1>1. n \in Nat /\ owner \in Nat
  BY TreeFacts
<1>2. Steps(n) \subseteq Nat \X Nat
  <2>1. DOMAIN Plan(tree[n].kind) \subseteq Nat
    BY TreeFacts, PlanFacts DEF Placed, Matched
  <2> QED
    BY <2>1, StepFacts, TreeFacts
<1> QED
  BY <1>1, <1>2 DEF Frames, Owner

\* A call is one more frame, unless the node has no steps.
LEMMA CallFacts ==
  ASSUME IsTree(tree), NEW s \in Seq(Frames), NEW n \in Nodes, NEW owner \in Nodes
  PROVE  LET new == s \o Call(n, owner) IN
         /\ new \in Seq(Frames)
         /\ Len(new) = IF Steps(n) = {} THEN Len(s) ELSE Len(s) + 1
         /\ \A t \in 1 .. Len(s) : new[t] = s[t]
         /\ Steps(n) # {} =>
              new[Len(s) + 1] = [node |-> n, owner |-> Owner(n, owner), steps |-> Steps(n)]
<1> DEFINE call == [node |-> n, owner |-> Owner(n, owner), steps |-> Steps(n)]
<1>1. Call(n, owner) = IF Steps(n) = {} THEN <<>> ELSE <<call>>
  BY DEF Call
<1>2. call \in Frames
  BY FrameFacts
<1> HIDE DEF call
<1>3. CASE Steps(n) = {}
  BY <1>1, <1>3
<1>4. CASE Steps(n) # {}
  <2>1. <<call>> \in Seq(Frames) /\ Len(<<call>>) = 1 /\ <<call>>[1] = call
    BY <1>2
  <2>2. Call(n, owner) = <<call>>
    BY <1>1, <1>4
  <2>3. /\ s \o <<call>> \in Seq(Frames) /\ Len(s \o <<call>>) = Len(s) + 1
        /\ \A t \in 1 .. Len(s) : (s \o <<call>>)[t] = s[t]
        /\ (s \o <<call>>)[Len(s) + 1] = call
    BY <2>1, ConcatProperties
  <2> QED
    BY <1>4, <2>2, <2>3 DEF call
<1> QED
  BY <1>3, <1>4

\* What is left of sound calls is sound,
LEMMA LeftSound ==
  ASSUME todo \in Seq(Frames), todo # <<>>, \A t \in 1 .. Len(todo) : Sound(todo[t])
  PROVE  \A t \in 1 .. Len(Left) : Sound(Left[t])
<1> SUFFICES ASSUME NEW t \in 1 .. Len(Left) PROVE Sound(Left[t])
  OBVIOUS
<1> DEFINE L == Len(todo)
           rest == todo[L].steps \ {At}
<1>1. L \in Nat /\ L >= 1 /\ Sound(todo[L])
  OBVIOUS
<1>2. /\ Len(Left) = IF rest = {} THEN L - 1 ELSE L
      /\ Left[t].node = todo[t].node /\ Left[t].owner = todo[t].owner
      /\ Left[t].steps = IF t = L THEN rest ELSE todo[t].steps
  BY LeftFacts
<1>3. /\ At \in todo[L].steps
      /\ \A j \in todo[L].steps : At[1] <= j[1]
      /\ todo[L].steps \subseteq Nat \X Nat
  <2>1. todo[L] \in Frames
    BY <1>1, ElementOfSeq
  <2> QED
    BY <1>1, <2>1, AtFacts DEF Sound, Frames
<1> HIDE DEF L, rest
<1>4. CASE t # L
  <2>1. t \in 1 .. L
    BY <1>1, <1>2
  <2>2. Sound(todo[t])
    BY <2>1 DEF L
  <2> QED
    BY <1>2, <1>4, <2>2 DEF Sound
<1>5. CASE t = L
  <2>1. rest # {}
    BY <1>1, <1>2, <1>5
  <2>2. ASSUME NEW i \in rest, NEW j \in Steps(todo[L].node), i[1] < j[1] PROVE j \in rest
    <3>1. j \in todo[L].steps
      BY <1>1, <2>2 DEF Sound, rest
    <3>2. At[1] <= i[1] /\ At[1] \in Nat /\ i[1] \in Nat /\ j[1] \in Nat
      BY <1>3, <2>2, <3>1 DEF rest
    <3>3. j # At
      BY <2>2, <3>2
    <3> QED
      BY <3>1, <3>3 DEF rest
  <2> QED
    BY <1>1, <1>2, <1>5, <2>1, <2>2 DEF Sound, rest
<1> QED
  BY <1>4, <1>5

\* and so is a call for a child by its parent's, or for the file.
LEMMA CallSound ==
  ASSUME IsTree(tree), NEW n \in Nodes, NEW owner, Steps(n) # {},
         n = 1 => owner = 1, n # 1 => Owns(owner, tree[n].up)
  PROVE  Sound([node |-> n, owner |-> Owner(n, owner), steps |-> Steps(n)])
<1>1. Placed(n)
  BY TreeFacts
<1>2. Owns(Owner(n, owner), n)
  <2>1. CASE tree[n].up = 1
    BY <1>1, <2>1 DEF Owns, Owner, Placed
  <2>2. CASE tree[n].up # 1
    BY <1>1, <2>2 DEF Owns, Owner, Placed
  <2> QED
    BY <2>1, <2>2
<1> QED
  BY <1>2 DEF Sound

-----------------------------------------------------------------------------
(* Scopes to be opened and closed *)

\* The steps of a kind that the frames of s have yet to take.
PendingIn(s, op) ==
  {x \in Nat \X (Nat \X Nat) :
     x[1] \in 1 .. Len(s) /\ x[2] \in s[x[1]].steps /\ Op(s[x[1]].node, x[2]) = op}

\* The model's set of pending steps.
LEMMA PendingIs ==
  ASSUME NEW s \in Seq(Frames), NEW op
  PROVE  UNION {{t} \X {i \in s[t].steps : Plan(tree[s[t].node].kind)[i[1]].op = op} :
                  t \in DOMAIN s} = PendingIn(s, op)
<1> DEFINE P == UNION {{t} \X {i \in s[t].steps : Plan(tree[s[t].node].kind)[i[1]].op = op} :
                         t \in DOMAIN s}
<1>1. /\ DOMAIN s = 1 .. Len(s) /\ Len(s) \in Nat
      /\ \A t \in 1 .. Len(s) : s[t].steps \subseteq Nat \X Nat
  <2>1. ASSUME NEW t \in 1 .. Len(s) PROVE s[t] \in Frames
    BY ElementOfSeq
  <2> QED
    BY <2>1 DEF Frames
<1>2. ASSUME NEW x \in P PROVE x \in PendingIn(s, op)
  <2>1. PICK t \in DOMAIN s :
          x \in {t} \X {i \in s[t].steps : Plan(tree[s[t].node].kind)[i[1]].op = op}
    BY <1>2
  <2>2. x = <<x[1], x[2]>> /\ x[1] = t /\ x[2] \in s[t].steps /\ Op(s[t].node, x[2]) = op
    BY <2>1 DEF Op
  <2> QED
    BY <1>1, <2>2 DEF PendingIn
<1>3. ASSUME NEW x \in PendingIn(s, op) PROVE x \in P
  <2>1. /\ x = <<x[1], x[2]>> /\ x[1] \in DOMAIN s /\ x[2] \in s[x[1]].steps
        /\ Plan(tree[s[x[1]].node].kind)[x[2][1]].op = op
    BY <1>1, <1>3 DEF PendingIn, Op
  <2>2. x \in {x[1]} \X {i \in s[x[1]].steps : Plan(tree[s[x[1]].node].kind)[i[1]].op = op}
    BY <2>1
  <2> QED
    BY <2>1, <2>2
<1> QED
  BY <1>2, <1>3

\* A step is no longer pending once taken.
LEMMA PendingLeft ==
  ASSUME todo \in Seq(Frames), todo # <<>>, NEW op
  PROVE  PendingIn(Left, op) = PendingIn(todo, op) \ {<<Len(todo), At>>}
<1> DEFINE L == Len(todo)
           rest == todo[L].steps \ {At}
<1>1. L \in Nat /\ L >= 1
  OBVIOUS
<1>2. /\ Len(Left) = IF rest = {} THEN L - 1 ELSE L
      /\ \A t \in 1 .. Len(Left) : /\ Left[t].node = todo[t].node
                                   /\ Left[t].steps = IF t = L THEN rest ELSE todo[t].steps
  BY LeftFacts
<1> HIDE DEF L
<1>3. ASSUME NEW t \in Nat, NEW i \in Nat \X Nat
      PROVE  <<t, i>> \in PendingIn(Left, op) <=>
               <<t, i>> \in PendingIn(todo, op) /\ <<t, i>> # <<L, At>>
  <2>1. CASE t = L
    <3>1. t \in 1 .. Len(Left) <=> rest # {}
      BY <1>1, <1>2, <2>1
    <3>2. t \in 1 .. Len(todo)
      BY <1>1, <2>1 DEF L
    <3>3. CASE rest = {}
      BY <2>1, <3>1, <3>2, <3>3 DEF PendingIn
    <3>4. CASE rest # {}
      <4>1. Left[t].node = todo[t].node /\ Left[t].steps = rest
        BY <1>2, <2>1, <3>1, <3>4
      <4> QED
        BY <2>1, <3>1, <3>2, <3>4, <4>1 DEF PendingIn
    <3> QED
      BY <3>3, <3>4
  <2>2. CASE t # L
    <3>1. t \in 1 .. Len(Left) <=> t \in 1 .. Len(todo)
      BY <1>1, <1>2, <2>2 DEF L
    <3>2. t \in 1 .. Len(Left) => Left[t].node = todo[t].node /\ Left[t].steps = todo[t].steps
      BY <1>2, <2>2
    <3> QED
      BY <2>2, <3>1, <3>2 DEF PendingIn
  <2> QED
    BY <2>1, <2>2
<1>4. PendingIn(Left, op) \subseteq Nat \X (Nat \X Nat)
      /\ PendingIn(todo, op) \subseteq Nat \X (Nat \X Nat)
  BY DEF PendingIn
<1> QED
  BY <1>3, <1>4 DEF L

\* The steps of a kind that a new call at depth t brings.
New(t, n, op) == {t} \X {i \in Steps(n) : Op(n, i) = op}

LEMMA PendingCall ==
  ASSUME IsTree(tree), NEW s \in Seq(Frames), NEW n \in Nodes, NEW owner \in Nodes, NEW op
  PROVE  /\ PendingIn(s \o Call(n, owner), op) = PendingIn(s, op) \cup New(Len(s) + 1, n, op)
         /\ PendingIn(s, op) \cap New(Len(s) + 1, n, op) = {}
<1> DEFINE new == s \o Call(n, owner)
           L == Len(s)
<1>1. L \in Nat
  OBVIOUS
<1>2. /\ Len(new) = IF Steps(n) = {} THEN L ELSE L + 1
      /\ \A t \in 1 .. L : new[t] = s[t]
      /\ Steps(n) # {} => new[L + 1].node = n /\ new[L + 1].steps = Steps(n)
  <2> DEFINE call == [node |-> n, owner |-> Owner(n, owner), steps |-> Steps(n)]
  <2>1. /\ Len(new) = IF Steps(n) = {} THEN L ELSE L + 1
        /\ \A t \in 1 .. L : new[t] = s[t]
        /\ Steps(n) # {} => new[L + 1] = call
    BY CallFacts
  <2>2. call.node = n /\ call.steps = Steps(n)
    OBVIOUS
  <2> HIDE DEF call, new, L
  <2> QED
    BY <2>1, <2>2
<1>3. Steps(n) \subseteq Nat \X Nat
  <2>1. DOMAIN Plan(tree[n].kind) \subseteq Nat
    BY TreeFacts, PlanFacts DEF Placed, Matched
  <2> QED
    BY <2>1, StepFacts, TreeFacts
<1> HIDE DEF new
<1>4. ASSUME NEW t \in Nat, NEW i \in Nat \X Nat
      PROVE  <<t, i>> \in PendingIn(new, op) <=>
               <<t, i>> \in PendingIn(s, op) \/ <<t, i>> \in New(L + 1, n, op)
  <2>1. CASE t = L + 1
    <3>1. t \notin 1 .. L /\ (t \in 1 .. Len(new) <=> Steps(n) # {})
      BY <1>1, <1>2, <2>1
    <3> QED
      BY <1>2, <2>1, <3>1 DEF PendingIn, New
  <2>2. CASE t # L + 1
    <3>1. t \in 1 .. Len(new) <=> t \in 1 .. L
      BY <1>1, <1>2, <2>2
    <3> QED
      BY <1>2, <2>2, <3>1 DEF PendingIn, New
  <2> QED
    BY <2>1, <2>2
<1>5. /\ PendingIn(new, op) \subseteq Nat \X (Nat \X Nat)
      /\ PendingIn(s, op) \subseteq Nat \X (Nat \X Nat)
      /\ New(L + 1, n, op) \subseteq Nat \X (Nat \X Nat)
  BY <1>1, <1>3 DEF PendingIn, New
<1>6. PendingIn(new, op) = PendingIn(s, op) \cup New(L + 1, n, op)
  <2> HIDE DEF L
  <2> QED
    BY <1>4, <1>5
<1>7. PendingIn(s, op) \cap New(L + 1, n, op) = {}
  BY <1>1 DEF PendingIn, New
<1> QED
  BY <1>6, <1>7 DEF new

\* The step that closes what the open step i opens.
Closing(n, i) == <<Match(tree[n].kind, i[1]), 0>>

\* Each step of a node that opens a scope has one of its own that closes it.
LEMMA ClosingFacts ==
  ASSUME IsTree(tree), NEW n \in Nodes
  PROVE  /\ \A i \in Steps(n) : Op(n, i) = "open" =>
              /\ Closing(n, i) \in Steps(n) /\ Op(n, Closing(n, i)) = "close"
              /\ i[1] < Closing(n, i)[1]
         /\ \A i, j \in Steps(n) :
              Op(n, i) = "open" /\ Op(n, j) = "open" /\ Closing(n, i) = Closing(n, j) => i = j
         /\ \A c \in Steps(n) : Op(n, c) = "close" =>
              \E i \in Steps(n) : Op(n, i) = "open" /\ Closing(n, i) = c
<1> DEFINE kind == tree[n].kind
<1>1. Matched(kind)
  BY TreeFacts, PlanFacts DEF Placed
<1>2. ASSUME NEW i \in Steps(n), Op(n, i) \in {"open", "close"}
      PROVE  i[1] \in DOMAIN Plan(kind) /\ i = <<i[1], 0>>
  <2>1. i = <<i[1], i[2]>> /\ i[1] \in DOMAIN Plan(kind)
    BY <1>2, StepFacts
  <2> QED
    BY <1>2, <2>1, StepFacts DEF Op
<1>3. ASSUME NEW s \in DOMAIN Plan(kind), Plan(kind)[s].op \in {"open", "close"}
      PROVE  <<s, 0>> \in Steps(n) /\ Op(n, <<s, 0>>) = Plan(kind)[s].op
  <2>1. <<s, 0>> \in Steps(n)
    BY <1>3, StepFacts
  <2> QED
    BY <2>1 DEF Op
<1>4. ASSUME NEW i \in Steps(n), Op(n, i) = "open"
      PROVE  /\ i[1] \in Opens(kind) /\ Closing(n, i) \in Steps(n)
             /\ Op(n, Closing(n, i)) = "close" /\ i[1] < Closing(n, i)[1]
  <2>1. i[1] \in Opens(kind)
    BY <1>2, <1>4 DEF Opens, Op
  <2>2. Match(kind, i[1]) \in Closes(kind) /\ i[1] < Match(kind, i[1])
    BY <1>1, <2>1 DEF Matched
  <2> QED
    BY <1>3, <2>1, <2>2 DEF Closes, Closing
<1>5. ASSUME NEW i \in Steps(n), NEW j \in Steps(n), Op(n, i) = "open", Op(n, j) = "open",
             Closing(n, i) = Closing(n, j)
      PROVE  i = j
  <2>1. Match(kind, i[1]) = Match(kind, j[1])
    BY <1>5 DEF Closing
  <2>2. i[1] = j[1]
    BY <1>1, <1>4, <1>5, <2>1 DEF Matched
  <2> QED
    BY <1>2, <1>5, <2>2
<1>6. ASSUME NEW c \in Steps(n), Op(n, c) = "close"
      PROVE  \E i \in Steps(n) : Op(n, i) = "open" /\ Closing(n, i) = c
  <2>1. c[1] \in Closes(kind) /\ c = <<c[1], 0>>
    BY <1>2, <1>6 DEF Closes, Op
  <2>2. PICK s \in Opens(kind) : Match(kind, s) = c[1]
    BY <1>1, <2>1 DEF Matched
  <2>3. <<s, 0>> \in Steps(n) /\ Op(n, <<s, 0>>) = "open"
    BY <1>3, <2>2 DEF Opens
  <2>4. Closing(n, <<s, 0>>) = c
    BY <2>1, <2>2 DEF Closing
  <2> QED
    BY <2>3, <2>4
<1> QED
  BY <1>4, <1>5, <1>6

\* A new call closes as many scopes as it opens.
LEMMA NewFacts ==
  ASSUME IsTree(tree), NEW n \in Nodes, NEW t
  PROVE  /\ IsFiniteSet(New(t, n, "open")) /\ IsFiniteSet(New(t, n, "close"))
         /\ Cardinality(New(t, n, "open")) = Cardinality(New(t, n, "close"))
<1> DEFINE O == New(t, n, "open")
           C == New(t, n, "close")
           f == [x \in O |-> <<t, Closing(n, x[2])>>]
<1>1. \A op : \A x : x \in New(t, n, op) <=>
        \E i \in Steps(n) : Op(n, i) = op /\ x = <<t, i>>
  BY DEF New
<1>2. IsFiniteSet(O)
  <2>1. IsFiniteSet({t} \X Steps(n))
    BY StepFacts, FS_Singleton, FS_Product
  <2>2. O \subseteq {t} \X Steps(n)
    BY DEF New
  <2> QED
    BY <2>1, <2>2, FS_Subset
<1>3. ASSUME NEW x \in O PROVE f[x] \in C
  <2>1. PICK i \in Steps(n) : Op(n, i) = "open" /\ x = <<t, i>>
    BY <1>1, <1>3
  <2>2. Closing(n, i) \in Steps(n) /\ Op(n, Closing(n, i)) = "close" /\ f[x] = <<t, Closing(n, i)>>
    BY <1>3, <2>1, ClosingFacts
  <2> QED
    BY <1>1, <2>2
<1>4. ASSUME NEW x \in O, NEW y \in O, f[x] = f[y] PROVE x = y
  <2>1. PICK i \in Steps(n) : Op(n, i) = "open" /\ x = <<t, i>>
    BY <1>1, <1>4
  <2>2. PICK j \in Steps(n) : Op(n, j) = "open" /\ y = <<t, j>>
    BY <1>1, <1>4
  <2>3. Closing(n, i) = Closing(n, j)
    BY <1>4, <2>1, <2>2
  <2> QED
    BY <2>1, <2>2, <2>3, ClosingFacts
<1>5. ASSUME NEW y \in C PROVE \E x \in O : f[x] = y
  <2>1. PICK c \in Steps(n) : Op(n, c) = "close" /\ y = <<t, c>>
    BY <1>1, <1>5
  <2>2. PICK i \in Steps(n) : Op(n, i) = "open" /\ Closing(n, i) = c
    BY <2>1, ClosingFacts
  <2>3. <<t, i>> \in O
    BY <1>1, <2>2
  <2>4. f[<<t, i>>] = y
    BY <2>1, <2>2, <2>3
  <2> QED
    BY <2>3, <2>4
<1>6. f \in Bijection(O, C)
  <2>1. f \in [O -> C]
    <3>1. f = [x \in O |-> f[x]]
      OBVIOUS
    <3> HIDE DEF O, C
    <3> QED
      BY <1>3, <3>1
  <2> HIDE DEF f, O, C
  <2> QED
    BY <1>4, <1>5, <2>1 DEF Bijection, Injection, Surjection, IsInjective
<1>7. IsFiniteSet(C) /\ Cardinality(C) = Cardinality(O)
  <2> HIDE DEF f, O, C
  <2> QED
    BY <1>2, <1>6, FS_Bijection DEF ExistsBijection
<1> QED
  BY <1>2, <1>7

\* The calls in progress are sound,
Calls(s) == s \in Seq(Frames) /\ \A t \in 1 .. Len(s) : Sound(s[t])

\* and with k scopes open they have to close as many more than they have to open.
Balanced(k, s) ==
  /\ IsFiniteSet(PendingIn(s, "open")) /\ IsFiniteSet(PendingIn(s, "close"))
  /\ k + Cardinality(PendingIn(s, "open")) = Cardinality(PendingIn(s, "close"))

\* A scope to be closed next is open: every step that has yet to open one has a
\* later one that closes it, and the step at hand is none of those.
LEMMA OpenWhenClosed ==
  ASSUME IsTree(tree), Calls(todo), todo # <<>>, Op(todo[Len(todo)].node, At) = "close",
         NEW k \in Nat, Balanced(k, todo)
  PROVE  k # 0
<1> DEFINE L == Len(todo)
           O == PendingIn(todo, "open")
           C == PendingIn(todo, "close")
           here == <<L, At>>
           f == [x \in O |-> <<x[1], Closing(todo[x[1]].node, x[2])>>]
<1>1. /\ L \in 1 .. Len(todo) /\ todo \in Seq(Frames) /\ \A t \in 1 .. Len(todo) : Sound(todo[t])
      /\ Len(todo) \in Nat
  BY DEF Calls
<1>2. /\ At \in todo[L].steps /\ At \in Nat \X Nat
      /\ \A j \in todo[L].steps : At[1] <= j[1]
  BY <1>1, AtFacts DEF Sound
<1>3. here \in C
  BY <1>1, <1>2 DEF PendingIn
<1>4. ASSUME NEW x \in O
      PROVE  /\ x = <<x[1], x[2]>> /\ x[1] \in 1 .. Len(todo) /\ todo[x[1]].node \in Nodes
             /\ x[2] \in todo[x[1]].steps /\ x[2] \in Steps(todo[x[1]].node)
             /\ Op(todo[x[1]].node, x[2]) = "open"
  BY <1>1, <1>4 DEF PendingIn, Sound
<1>5. ASSUME NEW x \in O PROVE f[x] \in C \ {here}
  <2> DEFINE n == todo[x[1]].node
             c == Closing(n, x[2])
  <2>1. c \in Steps(n) /\ Op(n, c) = "close" /\ x[2][1] < c[1]
    BY <1>4, ClosingFacts
  <2>2. c \in todo[x[1]].steps
    BY <1>1, <1>4, <2>1 DEF Sound
  <2>3. c \in Nat \X Nat
    <3>1. todo[x[1]] \in Frames
      BY <1>1, <1>4, ElementOfSeq
    <3> QED
      BY <2>2, <3>1 DEF Frames
  <2>4. f[x] = <<x[1], c>>
    BY <1>5
  <2>5. <<x[1], c>> \in C
    BY <1>1, <1>4, <2>1, <2>2, <2>3 DEF PendingIn
  <2>6. ASSUME <<x[1], c>> = here PROVE FALSE
    <3>1. x[1] = L /\ c = At
      BY <2>6
    <3>2. At[1] <= x[2][1] /\ x[2][1] < At[1]
      BY <1>2, <1>4, <2>1, <3>1
    <3>3. x[2][1] \in Nat /\ At[1] \in Nat
      BY <1>2, <1>5 DEF PendingIn
    <3> QED
      BY <3>2, <3>3
  <2> QED
    BY <2>4, <2>5, <2>6
<1>6. ASSUME NEW x \in O, NEW y \in O, f[x] = f[y] PROVE x = y
  <2>1. x[1] = y[1] /\ Closing(todo[x[1]].node, x[2]) = Closing(todo[x[1]].node, y[2])
    BY <1>6
  <2>2. x[2] = y[2]
    BY <1>4, <1>6, <2>1, ClosingFacts
  <2> QED
    BY <1>4, <1>6, <2>1, <2>2
<1>7. f \in Injection(O, C \ {here})
  <2>1. f \in [O -> C \ {here}]
    <3>1. f = [x \in O |-> f[x]]
      OBVIOUS
    <3> HIDE DEF O, C, here
    <3> QED
      BY <1>5, <3>1
  <2> HIDE DEF f, O, C, here
  <2> QED
    BY <1>6, <2>1 DEF Injection, IsInjective
<1> HIDE DEF f, O, C, here
<1>8. /\ IsFiniteSet(C \ {here}) /\ Cardinality(C \ {here}) = Cardinality(C) - 1
      /\ Cardinality(O) \in Nat /\ Cardinality(C) \in Nat
  BY <1>3, FS_RemoveElement, FS_CardinalityType DEF Balanced, O, C
<1>9. Cardinality(O) <= Cardinality(C \ {here})
  BY <1>7, <1>8, FS_Injection
<1> QED
  BY <1>8, <1>9 DEF Balanced, O, C

\* A step that opens or closes a scope is one less to do,
LEMMA LeftBalance ==
  ASSUME Calls(todo), todo # <<>>, NEW k \in Nat, Balanced(k, todo)
  PROVE  LET op == Op(todo[Len(todo)].node, At) IN
         /\ op = "open" => Balanced(k + 1, Left)
         /\ op = "close" => Balanced(k - 1, Left)
         /\ op \notin {"open", "close"} => Balanced(k, Left)
<1> DEFINE L == Len(todo)
           op == Op(todo[L].node, At)
           here == <<L, At>>
<1>1. L \in 1 .. Len(todo) /\ todo \in Seq(Frames) /\ Sound(todo[L])
  BY DEF Calls
<1>2. At \in todo[L].steps /\ At \in Nat \X Nat
  BY <1>1, AtFacts DEF Sound
<1>3. \A o : here \in PendingIn(todo, o) <=> op = o
  BY <1>1, <1>2 DEF PendingIn
<1>4. \A o : PendingIn(Left, o) = PendingIn(todo, o) \ {here}
  BY <1>1, PendingLeft
<1> HIDE DEF here, op
<1>5. ASSUME NEW o \in {"open", "close"}
      PROVE  /\ IsFiniteSet(PendingIn(Left, o)) /\ Cardinality(PendingIn(todo, o)) \in Nat
             /\ Cardinality(PendingIn(Left, o)) = IF op = o THEN Cardinality(PendingIn(todo, o)) - 1
                                                  ELSE Cardinality(PendingIn(todo, o))
  <2>1. IsFiniteSet(PendingIn(todo, o))
    BY DEF Balanced
  <2> QED
    BY <1>3, <1>4, <2>1, FS_RemoveElement, FS_CardinalityType
<1>6. k + Cardinality(PendingIn(todo, "open")) = Cardinality(PendingIn(todo, "close"))
  BY DEF Balanced
<1>7. op = "open" => Balanced(k + 1, Left)
  BY <1>5, <1>6 DEF Balanced
<1>8. op = "close" => Balanced(k - 1, Left)
  BY <1>5, <1>6 DEF Balanced
<1>9. op \notin {"open", "close"} => Balanced(k, Left)
  BY <1>5, <1>6 DEF Balanced
<1> QED
  BY <1>7, <1>8, <1>9 DEF op

\* and a new call makes no difference.
LEMMA CallBalance ==
  ASSUME IsTree(tree), NEW s \in Seq(Frames), NEW n \in Nodes, NEW owner \in Nodes,
         NEW k \in Nat, Balanced(k, s)
  PROVE  Balanced(k, s \o Call(n, owner))
<1> DEFINE t == Len(s) + 1
           new == s \o Call(n, owner)
<1>1. ASSUME NEW op \in {"open", "close"}
      PROVE  /\ IsFiniteSet(PendingIn(new, op))
             /\ Cardinality(PendingIn(s, op)) \in Nat /\ Cardinality(New(t, n, op)) \in Nat
             /\ Cardinality(PendingIn(new, op)) =
                  Cardinality(PendingIn(s, op)) + Cardinality(New(t, n, op))
  <2>1. /\ PendingIn(new, op) = PendingIn(s, op) \cup New(t, n, op)
        /\ PendingIn(s, op) \cap New(t, n, op) = {}
    BY PendingCall
  <2>2. IsFiniteSet(PendingIn(s, op)) /\ IsFiniteSet(New(t, n, op))
    BY NewFacts DEF Balanced
  <2> HIDE DEF new, t
  <2>3. Cardinality({}) = 0
    BY FS_EmptySet
  <2>4. /\ Cardinality(PendingIn(s, op)) \in Nat /\ Cardinality(New(t, n, op)) \in Nat
    BY <2>2, FS_CardinalityType
  <2>5. /\ IsFiniteSet(PendingIn(s, op) \cup New(t, n, op))
        /\ Cardinality(PendingIn(s, op) \cup New(t, n, op)) =
             Cardinality(PendingIn(s, op)) + Cardinality(New(t, n, op)) - 0
    BY <2>1, <2>2, <2>3, FS_Union
  <2> QED
    BY <2>1, <2>4, <2>5
<1>2. Cardinality(New(t, n, "open")) = Cardinality(New(t, n, "close"))
  BY NewFacts
<1>3. k + Cardinality(PendingIn(s, "open")) = Cardinality(PendingIn(s, "close"))
  BY DEF Balanced
<1> HIDE DEF new, t
<1>4. Balanced(k, new)
  BY <1>1, <1>2, <1>3 DEF Balanced
<1> QED
  BY <1>4 DEF new

\* inspectNode on the child at hand.
LEMMA InspectFacts ==
  ASSUME IsTree(tree), Calls(todo), todo # <<>>, NEW k \in Nat, Balanced(k, todo),
         Op(todo[Len(todo)].node, At) \notin {"open", "close"}, Child # 0
  PROVE  /\ Calls(Left \o Call(Child, Last(todo).owner))
         /\ Balanced(k, Left \o Call(Child, Last(todo).owner))
         /\ Child \in Nodes /\ Child # 1 /\ tree[Child].up = Last(todo).node
         /\ Owns(Last(todo).owner, Last(todo).node)
<1> DEFINE call == todo[Len(todo)]
           new == Left \o Call(Child, call.owner)
<1>1. Last(todo) = call /\ todo \in Seq(Frames) /\ \A t \in 1 .. Len(todo) : Sound(todo[t])
  BY DEF Last, Calls
<1>2. Sound(call)
  BY <1>1
<1>3. /\ call.node \in Nodes /\ call.owner \in Nodes /\ Owns(call.owner, call.node)
      /\ call.steps # {} /\ call.steps \subseteq Steps(call.node)
  BY <1>2 DEF Sound, Owns
<1>4. Child \in Nodes /\ tree[Child].up = call.node
  <2>1. At \in Steps(call.node)
    BY <1>1, <1>3, AtFacts
  <2> QED
    BY <1>3, <2>1, StepFacts DEF Child
<1>5. Left \in Seq(Frames) /\ \A t \in 1 .. Len(Left) : Sound(Left[t])
  BY <1>1, LeftFacts, LeftSound
<1>6. Balanced(k, Left)
  BY LeftBalance
<1>7. Balanced(k, new)
  BY <1>3, <1>4, <1>5, <1>6, CallBalance
<1>8. Child # 1
  BY <1>3, <1>4, TreeFacts DEF Placed
<1>9. Calls(new)
  <2> DEFINE child == [node |-> Child, owner |-> Owner(Child, call.owner), steps |-> Steps(Child)]
  <2>1. /\ new \in Seq(Frames)
        /\ Len(new) = IF Steps(Child) = {} THEN Len(Left) ELSE Len(Left) + 1
        /\ \A t \in 1 .. Len(Left) : new[t] = Left[t]
        /\ Steps(Child) # {} => new[Len(Left) + 1] = child
    BY <1>3, <1>4, <1>5, CallFacts
  <2>2. Steps(Child) # {} => Sound(child)
    BY <1>3, <1>4, <1>8, CallSound
  <2>3. Len(Left) \in Nat
    BY <1>5
  <2> HIDE DEF child, new
  <2>4. ASSUME NEW t \in 1 .. Len(new) PROVE Sound(new[t])
    <3>1. CASE t \in 1 .. Len(Left)
      BY <1>5, <2>1, <3>1
    <3>2. CASE t \notin 1 .. Len(Left)
      <4>1. Steps(Child) # {} /\ t = Len(Left) + 1
        BY <2>1, <2>3, <3>2
      <4> QED
        BY <2>1, <2>2, <4>1
    <3> QED
      BY <3>1, <3>2
  <2> QED
    BY <2>1, <2>4 DEF Calls
<1> QED
  BY <1>1, <1>3, <1>4, <1>7, <1>9, <1>8

\* The walk begins with a call for the file.
LEMMA ResolveFacts ==
  ASSUME IsTree(tree)
  PROVE  Calls(Call(1, 1)) /\ Balanced(0, <<>>) /\ Balanced(0, Call(1, 1))
<1>1. 1 \in Nodes
  BY TreeFacts
<1>2. <<>> \in Seq(Frames) /\ Len(<<>>) = 0
  OBVIOUS
<1>3. Balanced(0, <<>>)
  <2>1. \A op : PendingIn(<<>>, op) = {}
    BY DEF PendingIn
  <2> QED
    BY <2>1, FS_EmptySet DEF Balanced
<1>4. <<>> \o Call(1, 1) = Call(1, 1)
  BY DEF Call
<1>5. Balanced(0, Call(1, 1))
  BY <1>1, <1>2, <1>3, <1>4, CallBalance
<1>6. ASSUME NEW n, n = 1 PROVE Calls(Call(n, n))
  <2> DEFINE call == [node |-> n, owner |-> Owner(n, n), steps |-> Steps(n)]
  <2>1. call \in Frames
    BY <1>1, <1>6, FrameFacts
  <2>2. Call(n, n) = IF Steps(n) = {} THEN <<>> ELSE <<call>>
    BY DEF Call
  <2>3. Steps(n) # {} => Sound(call)
    BY <1>1, <1>6, CallSound
  <2> HIDE DEF call
  <2>4. CASE Steps(n) = {}
    BY <2>2, <2>4 DEF Calls
  <2>5. CASE Steps(n) # {}
    <3>1. Call(n, n) = <<call>>
      BY <2>2, <2>5
    <3>2. <<call>> \in Seq(Frames) /\ Len(<<call>>) = 1 /\ <<call>>[1] = call
      BY <2>1
    <3> QED
      BY <2>3, <2>5, <3>1, <3>2 DEF Calls
  <2> QED
    BY <2>4, <2>5
<1>7. Calls(Call(1, 1))
  BY <1>6
<1> QED
  BY <1>3, <1>5, <1>7

-----------------------------------------------------------------------------
(* The theorems *)

\* A use recorded is in the declaration at the top that owns it.
Owned(use) ==
  /\ use.node \in Nodes /\ tree[use.node].kind = "ident"
  /\ use.owner \in Nodes /\ tree[use.owner].up = 1 /\ use.owner \in tree[use.node].path

IInv ==
  /\ shape \in Shapes /\ IsTree(tree) /\ Len(tree) <= shape.nodes
  /\ phase \in {"parse", "walk", "done", "panicked"} /\ shadowed \in BOOLEAN
  /\ phase = "parse" => todo = <<>> /\ scopes = <<>> /\ usages = <<>>
  /\ scopes \in Seq(BOOLEAN)
  /\ Calls(todo) /\ Balanced(Len(scopes), todo)
  /\ usages \in Seq([node : Nat, owner : Nat])
  /\ \A u \in 1 .. Len(usages) : Owned(usages[u])

\* The parser makes trees.
LEMMA GrowFacts ==
  ASSUME IsTree(tree), shape \in Shapes, Grow
  PROVE  IsTree(tree') /\ Len(tree') <= shape.nodes
<1> DEFINE R == [kind : Kinds, role : {"file"} \cup UNION {ToSet(Roles(k)) : k \in Kinds},
                 up : Nat, path : SUBSET Nat]
           L == Len(tree)
<1>1. PICK up \in tree[L].path : \E role \in ToSet(Roles(tree[up].kind)) :
        \E kind \in Holds(tree[up].kind, role) \cap shape.kinds :
          /\ \A b \in Nodes : tree[b].up = up => Follows(tree[up].kind, role, tree[b].role)
          /\ tree' = Append(tree, [kind |-> kind, role |-> role, up |-> up,
                                   path |-> tree[up].path \cup {L + 1}])
  BY DEF Grow
<1>2. PICK role \in ToSet(Roles(tree[up].kind)) :
        \E kind \in Holds(tree[up].kind, role) \cap shape.kinds :
          /\ \A b \in Nodes : tree[b].up = up => Follows(tree[up].kind, role, tree[b].role)
          /\ tree' = Append(tree, [kind |-> kind, role |-> role, up |-> up,
                                   path |-> tree[up].path \cup {L + 1}])
  BY <1>1
<1>3. PICK kind \in Holds(tree[up].kind, role) \cap shape.kinds :
        /\ \A b \in Nodes : tree[b].up = up => Follows(tree[up].kind, role, tree[b].role)
        /\ tree' = Append(tree, [kind |-> kind, role |-> role, up |-> up,
                                 path |-> tree[up].path \cup {L + 1}])
  BY <1>2
<1> DEFINE node == [kind |-> kind, role |-> role, up |-> up, path |-> tree[up].path \cup {L + 1}]
<1>4. kind \in Kinds \ {"file"} /\ shape.nodes \in Nat
  BY ShapeAssumption
<1>5. /\ L \in Nat /\ L >= 1 /\ Nodes = 1 .. L /\ L \in Nodes
      /\ tree \in Seq(R) /\ tree # <<>>
      /\ tree[1].kind = "file" /\ tree[1].up = 0 /\ tree[1].path = {1}
  BY TreeFacts DEF IsTree
<1>6. up \in Nodes /\ Placed(up) /\ tree[up].path \subseteq 1 .. up
  BY <1>5, PathFacts, TreeFacts
<1>7. role \in ToSet(Roles(tree[up].kind))
  BY <1>2
<1>8. node \in R
  BY <1>4, <1>5, <1>6, <1>7 DEF Placed
<1> HIDE DEF R
<1>9. /\ tree' \in Seq(R) /\ tree' # <<>> /\ Len(tree') = L + 1 /\ tree'[L + 1] = node
      /\ \A n \in 1 .. L : tree'[n] = tree[n]
  <2> HIDE DEF node
  <2>1. tree' = Append(tree, node)
    BY <1>3 DEF node
  <2> QED
    BY <1>5, <1>8, <2>1, AppendProperties
<1>10. ASSUME NEW n \in 2 .. L + 1
       PROVE  LET m == tree'[n].up IN
              /\ m \in 1 .. n - 1 /\ m \in tree'[n - 1].path
              /\ tree'[n].role \in ToSet(Roles(tree'[m].kind))
              /\ tree'[n].kind \in Holds(tree'[m].kind, tree'[n].role) \ {"file"}
              /\ tree'[n].path = tree'[m].path \cup {n}
              /\ \A b \in 2 .. n - 1 : tree'[b].up = m =>
                   Follows(tree'[m].kind, tree'[n].role, tree'[b].role)
  <2>1. CASE n = L + 1
    <3>1. tree'[n] = node /\ node.up = up /\ tree'[up] = tree[up] /\ tree'[n - 1] = tree[L]
      BY <1>5, <1>6, <1>9, <2>1
    <3>2. \A b \in 2 .. n - 1 : b \in Nodes /\ tree'[b] = tree[b]
      BY <1>5, <1>9, <2>1
    <3>3. \A b \in 2 .. n - 1 : tree'[b].up = up => Follows(tree[up].kind, role, tree'[b].role)
      BY <1>3, <3>2
    <3> QED
      BY <1>1, <1>4, <1>5, <1>6, <1>7, <2>1, <3>1, <3>3
  <2>2. CASE n # L + 1
    <3> DEFINE m == tree[n].up
    <3>1. n \in 2 .. Len(tree) /\ n \in 1 .. L /\ tree'[n] = tree[n]
      BY <1>5, <1>9, <2>2
    <3>2. /\ m \in 1 .. n - 1 /\ m \in tree[n - 1].path
          /\ tree[n].role \in ToSet(Roles(tree[m].kind))
          /\ tree[n].kind \in Holds(tree[m].kind, tree[n].role) \ {"file"}
          /\ tree[n].path = tree[m].path \cup {n}
          /\ \A b \in 2 .. n - 1 :
               tree[b].up = m => Follows(tree[m].kind, tree[n].role, tree[b].role)
      BY <3>1 DEF IsTree
    <3>3. tree'[m] = tree[m] /\ \A b \in 1 .. n - 1 : tree'[b] = tree[b]
      BY <1>5, <1>9, <3>1, <3>2, SMTT(20)
    <3>4. n - 1 \in 1 .. n - 1 /\ \A b \in 2 .. n - 1 : b \in 1 .. n - 1
      BY <3>1
    <3> QED
      BY <3>1, <3>2, <3>3, <3>4
  <2> QED
    BY <2>1, <2>2
<1>11. tree'[1] = tree[1]
  BY <1>5, <1>9
<1>12. IsTree(tree')
  BY <1>5, <1>9, <1>10, <1>11 DEF IsTree, R
<1>13. Len(tree') <= shape.nodes
  BY <1>4, <1>5, <1>9 DEF Grow
<1> QED
  BY <1>12, <1>13

\* The walk leaves the tree alone.
LEMMA SameTree ==
  ASSUME tree' = tree
  PROVE  /\ IsTree(tree)' = IsTree(tree) /\ Nodes' = Nodes
         /\ Calls(todo)' = Calls(todo')
         /\ Balanced(Len(scopes), todo)' = Balanced(Len(scopes'), todo')
         /\ (\A u \in 1 .. Len(usages) : Owned(usages[u]))' =
              (\A u \in 1 .. Len(usages') : Owned(usages'[u]))
<1>1. \A n : Steps(n)' = Steps(n)
  BY DEF Steps, Children, Nodes
<1>2. Nodes' = Nodes
  BY DEF Nodes
<1> QED
  BY <1>1, <1>2 DEF Calls, Sound, Owns, Balanced, PendingIn, Op, Owned

\* The step at hand is one of the innermost call's plan.
LEMMA DoingFacts ==
  ASSUME IsTree(tree), Calls(todo), NEW op, Doing(op)
  PROVE  /\ todo # <<>> /\ phase = "walk" /\ Op(todo[Len(todo)].node, At) = op
         /\ op \in {"visit", "slot", "declare"} => Child # 0
<1> DEFINE call == todo[Len(todo)]
<1>1. todo # <<>> /\ phase = "walk" /\ Op(call.node, At) = op
  BY DEF Doing, Op, Last
<1>2. todo \in Seq(Frames) /\ Sound(call)
  BY <1>1 DEF Calls
<1>3. call.node \in Nodes /\ At \in Steps(call.node)
  BY <1>1, <1>2, AtFacts DEF Sound
<1>4. At[2] # 0 \/ op \in {"open", "close", "body"}
  BY <1>1, <1>3, StepFacts
<1> QED
  BY <1>1, <1>4 DEF Child

\* The calls in progress are sound, and what they have yet to do closes the
\* scopes that are open.
THEOREM Invariance == Spec => []IInv
<1>1. Init => IInv
  <2> SUFFICES ASSUME Init PROVE IInv
    OBVIOUS
  <2>1. /\ shape \in Shapes /\ IsTree(tree) /\ Len(tree) <= shape.nodes
        /\ phase = "parse" /\ shadowed \in BOOLEAN
        /\ todo = <<>> /\ scopes = <<>> /\ usages = <<>> /\ Len(scopes) = 0 /\ Len(usages) = 0
    BY ShapeAssumption DEF Init
  <2>2. Balanced(Len(scopes), todo)
    BY <2>1, ResolveFacts
  <2>3. Calls(todo)
    BY <2>1 DEF Calls
  <2> QED
    BY <2>1, <2>2, <2>3 DEF IInv
<1>2. IInv /\ [Next]_vars => IInv'
  <2> SUFFICES ASSUME IInv, [Next]_vars PROVE IInv'
    OBVIOUS
  <2>1. CASE Grow
    <3>1. IsTree(tree') /\ Len(tree') <= shape.nodes
      BY <2>1, GrowFacts DEF IInv
    <3>2. /\ shape' = shape /\ phase' = phase /\ shadowed' = shadowed
          /\ todo' = <<>> /\ scopes' = <<>> /\ usages' = <<>>
          /\ Len(scopes') = 0 /\ Len(usages') = 0
      BY <2>1 DEF IInv, Grow
    <3>3. Calls(todo)'
      BY <3>2 DEF Calls
    <3>4. Balanced(Len(scopes), todo)'
      <4>1. PendingIn(todo, "open")' = {} /\ PendingIn(todo, "close")' = {}
        BY <3>2 DEF PendingIn
      <4>2. IsFiniteSet({}) /\ Cardinality({}) = 0
        BY FS_EmptySet
      <4>3. IsFiniteSet(PendingIn(todo, "open"))' /\ IsFiniteSet(PendingIn(todo, "close"))'
        BY <4>1, <4>2
      <4>4. Cardinality(PendingIn(todo, "open"))' = 0 /\ Cardinality(PendingIn(todo, "close"))' = 0
        BY <4>1, <4>2
      <4> QED
        BY <3>2, <4>3, <4>4 DEF Balanced
    <3>5. IsTree(tree)'
      BY <3>1 DEF IsTree
    <3> QED
      BY <3>1, <3>2, <3>3, <3>4, <3>5 DEF IInv
  <2>2. ASSUME tree' = tree, UNCHANGED shape, shadowed' \in BOOLEAN,
               phase' \in {"walk", "done", "panicked"}, scopes' \in Seq(BOOLEAN),
               Calls(todo'), Balanced(Len(scopes'), todo'), UNCHANGED usages
        PROVE  IInv'
    BY <2>2, SameTree DEF IInv
  <2>3. /\ IsTree(tree) /\ Calls(todo) /\ Balanced(Len(scopes), todo) /\ shadowed \in BOOLEAN
        /\ scopes \in Seq(BOOLEAN) /\ Len(scopes) \in Nat
    BY DEF IInv
  <2>4. ASSUME todo # <<>> PROVE Calls(Left)
    <3>1. todo \in Seq(Frames) /\ \A t \in 1 .. Len(todo) : Sound(todo[t])
      BY <2>3 DEF Calls
    <3> QED
      BY <2>4, <3>1, LeftFacts, LeftSound DEF Calls
  <2>5. CASE Resolve
    <3>1. scopes = <<>> /\ Len(scopes) = 0 /\ phase' = "walk" /\ shadowed' \in BOOLEAN
          /\ UNCHANGED <<shape, tree, scopes, usages>> /\ todo' = Call(1, 1)
      BY <2>5 DEF IInv, Resolve
    <3> QED
      BY <2>2, <2>3, <3>1, ResolveFacts
  <2>6. CASE OpenScope
    <3>1. Doing("open") /\ todo' = Left /\ scopes' = Append(scopes, FALSE)
          /\ UNCHANGED <<shape, tree, phase, shadowed, usages>>
      BY <2>6 DEF OpenScope
    <3>2. todo # <<>> /\ phase = "walk" /\ Op(todo[Len(todo)].node, At) = "open"
      BY <2>3, <3>1, DoingFacts
    <3>3. scopes' \in Seq(BOOLEAN) /\ Len(scopes') = Len(scopes) + 1
      BY <2>3, <3>1
    <3>4. Balanced(Len(scopes'), Left)
      BY <2>3, <3>2, <3>3, LeftBalance
    <3> QED
      BY <2>2, <2>3, <2>4, <3>1, <3>2, <3>3, <3>4
  <2>7. CASE CloseScope
    <3>1. Doing("close") /\ todo' = Left
          /\ scopes' = (IF scopes = <<>> THEN scopes ELSE Front(scopes))
          /\ UNCHANGED <<shape, tree, phase, shadowed, usages>>
      BY <2>7 DEF CloseScope
    <3>2. todo # <<>> /\ phase = "walk" /\ Op(todo[Len(todo)].node, At) = "close"
      BY <2>3, <3>1, DoingFacts
    <3>3. scopes # <<>>
      BY <2>3, <3>2, OpenWhenClosed
    <3>4. scopes' = Front(scopes)
      BY <3>1, <3>3
    <3>5. scopes' \in Seq(BOOLEAN) /\ Len(scopes') = Len(scopes) - 1
      BY <2>3, <3>3, <3>4, FrontFacts
    <3>6. Balanced(Len(scopes'), Left)
      BY <2>3, <3>2, <3>5, LeftBalance
    <3> QED
      BY <2>2, <2>3, <2>4, <3>1, <3>2, <3>5, <3>6
  <2>8. CASE DeclareName
    <3>1. Doing("declare") /\ todo' = Left
          /\ scopes' = (IF scopes = <<>> THEN scopes ELSE [scopes EXCEPT ![Len(scopes)] = TRUE])
          /\ UNCHANGED <<shape, tree, phase, shadowed, usages>>
      BY <2>8 DEF DeclareName
    <3>2. todo # <<>> /\ phase = "walk" /\ Op(todo[Len(todo)].node, At) = "declare"
      BY <2>3, <3>1, DoingFacts
    <3>3. scopes' \in Seq(BOOLEAN) /\ Len(scopes') = Len(scopes)
      <4>1. CASE scopes = <<>>
        BY <2>3, <3>1, <4>1
      <4>2. CASE scopes # <<>>
        BY <2>3, <3>1, <4>2, ExceptSeq
      <4> QED
        BY <4>1, <4>2
    <3>4. Balanced(Len(scopes'), Left)
      BY <2>3, <3>2, <3>3, LeftBalance
    <3> QED
      BY <2>2, <2>3, <2>4, <3>1, <3>2, <3>3, <3>4
  <2>9. CASE VisitChild
    <3>1. Doing("visit") /\ todo' = Left \o Call(Child, Last(todo).owner)
          /\ UNCHANGED <<shape, tree, phase, shadowed, scopes, usages>>
      BY <2>9 DEF VisitChild, Inspect
    <3>2. /\ todo # <<>> /\ phase = "walk" /\ Child # 0
          /\ Op(todo[Len(todo)].node, At) = "visit"
      BY <2>3, <3>1, DoingFacts
    <3>3. Calls(todo') /\ Balanced(Len(scopes), todo')
      BY <2>3, <3>1, <3>2, InspectFacts
    <3> QED
      BY <2>2, <2>3, <3>1, <3>2, <3>3
  <2>10. CASE VisitSlot
    <3> DEFINE use == [node |-> Child, owner |-> Last(todo).owner]
    <3>1. Doing("slot") /\ todo' = Left \o Call(Child, Last(todo).owner)
          /\ usages' = (IF Records(Child) THEN Append(usages, use) ELSE usages)
          /\ UNCHANGED <<shape, tree, phase, shadowed, scopes>>
      BY <2>10 DEF VisitSlot, Inspect
    <3>2. /\ todo # <<>> /\ phase = "walk" /\ Child # 0
          /\ Op(todo[Len(todo)].node, At) = "slot"
      BY <2>3, <3>1, DoingFacts
    <3>3. /\ Calls(todo') /\ Balanced(Len(scopes), todo')
          /\ Child \in Nodes /\ Child # 1 /\ tree[Child].up = Last(todo).node
          /\ Owns(Last(todo).owner, Last(todo).node)
      BY <2>3, <3>1, <3>2, InspectFacts
    <3>4. Records(Child) => Owned(use)
      <4>1. Last(todo).node # 1
        <5>1. Last(todo).node = todo[Len(todo)].node /\ todo[Len(todo)].node \in Nodes
          BY <2>3, <3>2 DEF Last, Calls, Sound
        <5>2. SUFFICES ASSUME todo[Len(todo)].node = 1 PROVE FALSE
          BY <5>1
        <5>3. At[1] \in DOMAIN Plan(tree[1].kind)
          <6>1. todo \in Seq(Frames) /\ Sound(todo[Len(todo)])
            BY <2>3, <3>2 DEF Calls
          <6>2. At \in Steps(1)
            BY <3>2, <5>2, <6>1, AtFacts DEF Sound
          <6> QED
            BY <2>3, <5>1, <5>2, <6>2, StepFacts
        <5>4. tree[1].kind = "file" /\ Plan("file") = <<Visit("decls")>>
          <6>1. Plan("file") = FilePlan["file"]
            BY DomainFacts DEF Plan
          <6> QED
            BY <2>3, <6>1 DEF IsTree, FilePlan
        <5>5. Plan("file")[At[1]] = Visit("decls")
          BY <5>3, <5>4
        <5> QED
          BY <3>2, <5>2, <5>4, <5>5 DEF Op, Visit
      <4>2. /\ Last(todo).owner \in Nodes /\ tree[Last(todo).owner].up = 1
            /\ Last(todo).owner \in tree[Last(todo).node].path
        BY <3>3, <4>1 DEF Owns
      <4>3. Placed(Child)
        BY <2>3, <3>3, TreeFacts
      <4> QED
        BY <3>3, <4>2, <4>3 DEF Owned, Placed, Records
    <3>5. Records(Child) => use \in [node : Nat, owner : Nat]
      BY <2>3, <3>4, TreeFacts DEF Owned
    <3>6. /\ usages' \in Seq([node : Nat, owner : Nat])
          /\ \A u \in 1 .. Len(usages') : Owned(usages'[u])
      <4> HIDE DEF use
      <4>1. /\ usages \in Seq([node : Nat, owner : Nat])
            /\ \A u \in 1 .. Len(usages) : Owned(usages[u])
        BY DEF IInv
      <4>2. CASE Records(Child)
        <5>1. usages' = Append(usages, use)
          BY <3>1, <4>2
        <5>2. /\ usages' \in Seq([node : Nat, owner : Nat]) /\ Len(usages') = Len(usages) + 1
              /\ usages'[Len(usages) + 1] = use
              /\ \A u \in 1 .. Len(usages) : usages'[u] = usages[u]
          BY <3>5, <4>1, <4>2, <5>1, AppendProperties
        <5>3. Len(usages) \in Nat
          BY <4>1
        <5>4. ASSUME NEW u \in 1 .. Len(usages') PROVE Owned(usages'[u])
          <6>1. CASE u = Len(usages) + 1
            BY <3>4, <4>2, <5>2, <6>1
          <6>2. CASE u # Len(usages) + 1
            <7>1. u \in 1 .. Len(usages)
              BY <5>2, <5>3, <6>2
            <7> QED
              BY <4>1, <5>2, <7>1
          <6> QED
            BY <6>1, <6>2
        <5> QED
          BY <5>2, <5>4
      <4>3. CASE ~ Records(Child)
        BY <3>1, <4>1, <4>3
      <4> QED
        BY <4>2, <4>3
    <3>7. (\A u \in 1 .. Len(usages) : Owned(usages[u]))'
      BY <3>1, <3>6, SameTree
    <3> QED
      BY <2>3, <3>1, <3>2, <3>3, <3>6, <3>7, SameTree DEF IInv
  <2>11. CASE VisitBody
    <3>1. /\ Doing("body") /\ UNCHANGED <<shape, tree, shadowed, scopes, usages>>
          /\ Child = 0 => phase' = "panicked" /\ todo' = todo
          /\ Child # 0 => todo' = Left \o Call(Child, Last(todo).owner) /\ phase' = phase
      BY <2>11 DEF VisitBody, Inspect
    <3>2. /\ todo # <<>> /\ phase = "walk"
          /\ Op(todo[Len(todo)].node, At) = "body"
      BY <2>3, <3>1, DoingFacts
    <3>3. CASE Child = 0
      BY <2>2, <2>3, <3>1, <3>3
    <3>4. CASE Child # 0
      <4>1. Calls(todo') /\ Balanced(Len(scopes), todo')
        BY <2>3, <3>1, <3>2, <3>4, InspectFacts
      <4> QED
        BY <2>2, <2>3, <3>1, <3>2, <3>4, <4>1
    <3> QED
      BY <3>3, <3>4
  <2>12. CASE Finish
    BY <2>2, <2>3, <2>12 DEF Finish
  <2>13. CASE UNCHANGED vars
    BY <2>13, SameTree DEF vars, IInv
  <2> QED
    BY <2>1, <2>5, <2>6, <2>7, <2>8, <2>9, <2>10, <2>11, <2>12, <2>13 DEF Next
<1> QED
  BY <1>1, <1>2, PTL DEF Spec

\* ScopesBalance: whatever the file, the walk closes exactly the scopes it
\* opens, so that no declaration outlives its block, and the stack is empty
\* when it ends.
THEOREM ScopesBalanced == Spec => []ScopesBalance
<1>1. IInv => ScopesBalance
  <2> SUFFICES ASSUME IInv PROVE ScopesBalance
    OBVIOUS
  <2>1. todo \in Seq(Frames) /\ \A t \in 1 .. Len(todo) : Sound(todo[t])
    BY DEF IInv, Calls
  <2>2. TypeOK
    <3>1. \A n \in Nodes : tree[n].up < n /\ n \in tree[n].path
      BY TreeFacts DEF IInv, Placed
    <3>2. \A t \in 1 .. Len(todo) : todo[t].node \in Nodes /\ todo[t].owner \in Nodes
      BY <2>1 DEF Sound, Owns
    <3>3. \A u \in 1 .. Len(usages) :
            usages[u].owner \in Nodes /\ usages[u].node \in {n \in Nodes : tree[n].kind = "ident"}
      BY DEF IInv, Owned
    <3> QED
      BY <3>1, <3>2, <3>3 DEF IInv, TypeOK
  <2>3. \A op : Pending(op) = PendingIn(todo, op)
    BY <2>1, PendingIs DEF Pending
  <2>4. Len(scopes) + Cardinality(Pending("open")) = Cardinality(Pending("close"))
    BY <2>3 DEF IInv, Balanced
  <2> QED
    BY <2>2, <2>4 DEF ScopesBalance
<1> QED
  BY <1>1, Invariance, PTL

\* OwnerIsTopLevel: whatever the file, a use belongs to the declaration at the
\* top that it is in.
THEOREM OwnersAreTopLevel == Spec => []OwnerIsTopLevel
<1>1. IInv => OwnerIsTopLevel
  BY DEF IInv, Owned, OwnerIsTopLevel, In
<1> QED
  BY <1>1, Invariance, PTL

-----------------------------------------------------------------------------
(* Positions in the tree *)

\* The nodes from the root to a node: those to each of them, and to no other
\* child of one.
LEMMA PathOrder ==
  ASSUME IsTree(tree), NEW n \in Nodes
  PROVE  /\ tree[n].path \subseteq Nodes /\ 1 \in tree[n].path
         /\ \A b \in tree[n].path : tree[b].path \subseteq tree[n].path
<1> DEFINE Good(k) == /\ 1 \in tree[k].path
                      /\ \A b \in tree[k].path : tree[b].path \subseteq tree[k].path
           S == {m \in Nodes : ~ Good(m)}
<1>1. SUFFICES ASSUME S # {} PROVE FALSE
  <2>1. n \in Nat /\ tree[n].path \subseteq 1 .. n /\ Nodes = 1 .. Len(tree) /\ Len(tree) \in Nat
    BY PathFacts, TreeFacts
  <2>2. tree[n].path \subseteq Nodes
    BY <2>1
  <2> QED
    BY <2>2
<1>2. PICK m \in S : \A k \in S : m <= k
  <2>1. S \in SUBSET Nat
    BY TreeFacts
  <2> HIDE DEF S
  <2> QED
    BY <1>1, <2>1, LeastFacts
<1>3. m \in Nodes /\ m \in Nat /\ Placed(m) /\ ~ Good(m)
  BY <1>2, TreeFacts
<1>4. CASE m = 1
  <2>1. tree[m].path = {m}
    BY <1>4 DEF IsTree
  <2> QED
    BY <1>3, <1>4, <2>1
<1>5. CASE m # 1
  <2> DEFINE u == tree[m].up
  <2>1. u \in Nodes /\ u \in Nat /\ u < m /\ tree[m].path = tree[u].path \cup {m}
    BY <1>3, <1>5 DEF Placed
  <2>2. Good(u)
    BY <1>2, <1>3, <2>1
  <2> HIDE DEF u
  <2> QED
    BY <1>3, <2>1, <2>2
<1> QED
  BY <1>4, <1>5

\* The child of node a that node n is in.
IsToward(b, a, n) == b \in tree[n].path /\ b # 1 /\ tree[b].up = a

LEMMA TowardFacts ==
  ASSUME IsTree(tree), NEW n \in Nodes
  PROVE  /\ \A a \in tree[n].path : a # n => \E b \in tree[n].path : IsToward(b, a, n)
         /\ \A a, b, c : IsToward(b, a, n) /\ IsToward(c, a, n) => b = c
         /\ \A a, b : IsToward(b, a, n) => a \in tree[n].path /\ a # n /\ a \in Nodes
<1> DEFINE One(k) == \A a \in tree[k].path : a # k => \E b \in tree[k].path : IsToward(b, a, k)
           Two(k) == \A a, b, c : IsToward(b, a, k) /\ IsToward(c, a, k) => b = c
           S == {m \in Nodes : ~ (One(m) /\ Two(m))}
<1>1. ASSUME S # {} PROVE FALSE
  <2>1. PICK m \in S : \A k \in S : m <= k
    <3>1. S \in SUBSET Nat
      BY TreeFacts
    <3> HIDE DEF S
    <3> QED
      BY <1>1, <3>1, LeastFacts
  <2>2. m \in Nodes /\ m \in Nat /\ Placed(m) /\ ~ (One(m) /\ Two(m))
    BY <2>1, TreeFacts
  <2>3. CASE m = 1
    <3>1. tree[m].path = {m}
      BY <2>3 DEF IsTree
    <3> QED
      BY <2>2, <2>3, <3>1 DEF IsToward
  <2>4. CASE m # 1
    <3> DEFINE u == tree[m].up
    <3>1. u \in Nodes /\ u \in Nat /\ u < m /\ tree[m].path = tree[u].path \cup {m}
      BY <2>2, <2>4 DEF Placed
    <3>2. One(u) /\ Two(u)
      BY <2>1, <2>2, <3>1
    <3>3. tree[u].path \subseteq 1 .. u
      BY <3>1, PathFacts
    <3>4. One(m)
      <4> SUFFICES ASSUME NEW a \in tree[m].path, a # m
                   PROVE  \E b \in tree[m].path : IsToward(b, a, m)
        OBVIOUS
      <4>1. CASE a = u
        BY <2>4, <3>1, <4>1 DEF IsToward
      <4>2. CASE a # u
        <5>1. PICK b \in tree[u].path : IsToward(b, a, u)
          BY <3>1, <3>2, <4>2
        <5> QED
          BY <3>1, <5>1 DEF IsToward
      <4> QED
        BY <4>1, <4>2
    <3>5. ASSUME NEW a, NEW b, NEW c, IsToward(b, a, m), IsToward(c, a, m) PROVE b = c
      <4>1. CASE b \in tree[u].path /\ c \in tree[u].path
        BY <3>2, <3>5, <4>1 DEF IsToward
      <4>2. ASSUME NEW d \in tree[u].path, d # 1, tree[d].up = u PROVE FALSE
        <5>1. d \in Nodes /\ d \in Nat /\ d <= u /\ Placed(d)
          BY <3>1, <3>3, <4>2, TreeFacts, PathOrder
        <5> QED
          BY <4>2, <5>1 DEF Placed
      <4>3. CASE b = m /\ c # m
        BY <3>1, <3>5, <4>2, <4>3 DEF IsToward
      <4>4. CASE c = m /\ b # m
        BY <3>1, <3>5, <4>2, <4>4 DEF IsToward
      <4> QED
        BY <3>1, <3>5, <4>1, <4>3, <4>4 DEF IsToward
    <3> HIDE DEF One
    <3> QED
      BY <2>2, <3>4, <3>5
  <2> QED
    BY <2>3, <2>4
<1>2. One(n) /\ Two(n)
  BY <1>1
<1>3. ASSUME NEW a, NEW b, IsToward(b, a, n) PROVE a \in tree[n].path /\ a # n /\ a \in Nodes
  <2>1. b \in Nodes /\ b \in Nat /\ b <= n /\ b # 1 /\ tree[b].up = a /\ n \in Nat
    BY <1>3, PathFacts, PathOrder, TreeFacts DEF IsToward
  <2>2. Placed(b) /\ tree[a].path \subseteq tree[b].path /\ tree[b].path \subseteq tree[n].path
        /\ a \in Nodes /\ a < b
    <3>1. Placed(b)
      BY <2>1, TreeFacts
    <3>2. a \in Nodes /\ a < b /\ tree[b].path = tree[a].path \cup {b}
      BY <2>1, <3>1 DEF Placed
    <3> QED
      BY <1>3, <3>1, <3>2, PathOrder DEF IsToward
  <2>3. a \in tree[a].path /\ a \in Nat
    BY <2>2, TreeFacts DEF Placed
  <2> QED
    BY <2>1, <2>2, <2>3
<1> QED
  BY <1>2, <1>3

\* What is in a node comes before anything that comes after it.
LEMMA Contiguous ==
  ASSUME IsTree(tree), NEW m \in Nodes, NEW n \in Nodes, NEW d \in Nodes,
         m \in tree[d].path, m <= n, n <= d
  PROVE  m \in tree[n].path
<1> DEFINE S == {k \in Nodes : m \in tree[k].path /\ n <= k}
<1>1. d \in S /\ S \in SUBSET Nat
  BY TreeFacts
<1>2. PICK k \in S : \A j \in S : k <= j
  <2> HIDE DEF S
  <2> QED
    BY <1>1, LeastFacts
<1>3. k \in Nodes /\ k \in Nat /\ n \in Nat /\ m \in Nat /\ m \in tree[k].path /\ n <= k
  BY <1>2, TreeFacts
<1>4. CASE k = n
  BY <1>3, <1>4
<1>5. CASE k # n
  <2>1. k \in 2 .. Len(tree) /\ k - 1 \in Nodes /\ n <= k - 1 /\ m # k
    BY <1>3, <1>5, TreeFacts
  <2>2. tree[k].up \in tree[k - 1].path /\ tree[k].path = tree[tree[k].up].path \cup {k}
    BY <2>1 DEF IsTree
  <2>3. m \in tree[k - 1].path
    BY <1>3, <2>1, <2>2, PathOrder
  <2>4. k - 1 \in S
    BY <2>1, <2>3
  <2>5. k <= k - 1
    BY <1>2, <2>4
  <2> QED
    BY <1>3, <2>5
<1> QED
  BY <1>4, <1>5

\* The roles of siblings follow one another.
LEMMA SiblingFacts ==
  ASSUME IsTree(tree), NEW b \in Nodes, NEW c \in Nodes, b < c, b # 1,
         tree[b].up = tree[c].up
  PROVE  Follows(tree[tree[c].up].kind, tree[c].role, tree[b].role)
<1>1. c \in 2 .. Len(tree) /\ b \in 2 .. c - 1
  BY TreeFacts
<1> QED
  BY <1>1 DEF IsTree

\* A node has a role of its parent's, which may hold it.
LEMMA RoleFacts ==
  ASSUME IsTree(tree), NEW n \in Nodes, n # 1
  PROVE  /\ tree[n].up \in Nodes /\ tree[n].up < n /\ tree[n].up # n
         /\ tree[n].path = tree[tree[n].up].path \cup {n}
         /\ n \notin tree[tree[n].up].path
         /\ tree[tree[n].up].kind \in Kinds /\ tree[n].kind \in Kinds
         /\ tree[n].role \in ToSet(Roles(tree[tree[n].up].kind))
         /\ tree[n].kind \in Holds(tree[tree[n].up].kind, tree[n].role) \ {"file"}
         /\ n \in Children(tree[n].up, tree[n].role)
<1>1. n \in 2 .. Len(tree) /\ Placed(n) /\ n \in Nat
  BY TreeFacts
<1>2. tree[n].up \in Nodes /\ tree[n].up < n /\ tree[n].up \in Nat
      /\ tree[n].path = tree[tree[n].up].path \cup {n}
  BY <1>1 DEF Placed
<1>3. tree[tree[n].up].path \subseteq 1 .. tree[n].up
  BY <1>2, PathFacts
<1>4. n \notin tree[tree[n].up].path
  BY <1>1, <1>2, <1>3
<1>5. tree[tree[n].up].kind \in Kinds /\ tree[n].kind \in Kinds
  BY <1>1, <1>2, TreeFacts DEF Placed
<1>6. /\ tree[n].role \in ToSet(Roles(tree[tree[n].up].kind))
      /\ tree[n].kind \in Holds(tree[tree[n].up].kind, tree[n].role) \ {"file"}
  BY <1>1 DEF IsTree
<1> QED
  BY <1>1, <1>2, <1>4, <1>5, <1>6 DEF Children

-----------------------------------------------------------------------------
(* The roles of a plan *)

\* The names that hold inside the node that declares them, and those that hold in
\* the block around the declaration.
Headers == {"tparam", "rtparam", "pname", "rname", "key"}
Blocks == {"tname", "name", "lhs"}

\* A step visits the children of a role, or declares them.
Walks(kind, s, role) ==
  /\ s \in DOMAIN Plan(kind) /\ Plan(kind)[s].op \in {"visit", "slot", "body"}
  /\ Plan(kind)[s].role = role

Binds(kind, s, role) ==
  s \in DOMAIN Plan(kind) /\ Plan(kind)[s].op = "declare" /\ Plan(kind)[s].role = role

\* Role role is at place r of a kind.
Places(kind, r, role) == r \in DOMAIN Roles(kind) /\ Roles(kind)[r] = role

\* A step is taken with the scope of step o as the innermost of its node.
Within(kind, s, o) ==
  /\ o \in Opens(kind) /\ o < s /\ s < Match(kind, o)
  /\ \A p \in Opens(kind) : p < s => p = o

\* A role is walked or declared by one step at most, and no step is about the
\* roles that are silent.
Once(kind) ==
  /\ \A s, t, role : Walks(kind, s, role) /\ Walks(kind, t, role) => s = t
  /\ \A s, t, role : Binds(kind, s, role) /\ Binds(kind, t, role) => s = t
  /\ \A s, role : Walks(kind, s, role) =>
       role \notin {"constraint", "scope"} /\ ~ (kind = "typecase" /\ role = "list")
  /\ \A s, role : Binds(kind, s, role) => role \in Headers \cup Blocks

\* The slots of a plan are those of the detection contract, but for the index of a
\* receiver.
SlotsSupported(kind) ==
  /\ \A s \in DOMAIN Plan(kind) : Plan(kind)[s].op = "slot" =>
       \/ <<kind, Plan(kind)[s].role>> \in Supported
       \/ kind = "func" /\ Plan(kind)[s].role = "rtparam"
  /\ \A role : <<kind, role>> \in Supported =>
       \E s \in DOMAIN Plan(kind) : Plan(kind)[s].op = "slot" /\ Plan(kind)[s].role = role

\* Whatever is not walked is a name, silent, or cannot be there.
AllWalked(kind) ==
  \A r, role : Places(kind, r, role) =>
    \/ \E s : Walks(kind, s, role)
    \/ role \in Names \cup {"constraint", "scope"}
    \/ kind = "typecase" /\ role = "list"

\* A header's name is declared in a scope of its own node, before what it is in
\* scope of is walked and after the rest.
HeaderScope(kind) ==
  \A s, role : Binds(kind, s, role) /\ role \in Headers =>
    /\ \E o : Within(kind, s, o)
    /\ \A v, r : Walks(kind, v, r) =>
         /\ \A o : Within(kind, s, o) => v < Match(kind, o)
         /\ role \in {"tparam", "rtparam"} => s < v
         /\ role \in {"pname", "rname", "key"} => (s < v <=> r = "body")

\* A name for the block around is declared in no scope of its own node, a type
\* before the rest of its node is walked and the others after.
BlockScope(kind) ==
  \A s, role : Binds(kind, s, role) /\ role \in Blocks =>
    /\ kind \in {"typespec", "valuespec", "define"} /\ \A o \in Opens(kind) : s < o
    /\ \A v, r : Walks(kind, v, r) => IF role = "tname" THEN s < v ELSE v < s

\* A role that holds declarations for the block around.
HoldsOne(kind, role) == Holds(kind, role) \cap {"typespec", "valuespec", "define"} # {}

\* Of two siblings one may be in the first role and a later one in the second.
Ordered(kind, first, second) ==
  \E f, s : /\ Places(kind, f, first) /\ Places(kind, s, second)
            /\ f < s \/ (f = s /\ second \in Lists)

\* A local declaration is walked in a scope of the node around it, which lasts to
\* the end of that node, and in the order of the source.
HoldsLocal(kind) ==
  \A v, role : Walks(kind, v, role) /\ kind # "file" /\ HoldsOne(kind, role) =>
    /\ \E o : Within(kind, v, o)
    /\ \A w, r : Walks(kind, w, r) =>
         /\ \A o : Within(kind, v, o) => w < Match(kind, o)
         /\ Ordered(kind, role, r) => v <= w
         /\ Ordered(kind, r, role) => w <= v
         /\ kind \in {"case", "typecase", "comm"} =>
              \A o : Within(kind, v, o) => (o < w <=> r \in {"comm", "stmts"})
         /\ role = "assign" /\ v < w => r = "clauses"
    /\ role = "assign" => kind = "typeswitch" /\ ~ Ordered(kind, role, role)

\* A kind's plan and roles, as its number of steps, those that open and close
\* scopes, walk, declare and are slots, and the places of its roles.
Row(kind, k, opens, closes, walks, binds, slots, places) ==
  /\ Len(Plan(kind)) = k /\ DOMAIN Plan(kind) = 1 .. k
  /\ \A s \in 1 .. k : /\ Plan(kind)[s].op = "open" <=> s \in opens
                       /\ Plan(kind)[s].op = "close" <=> s \in closes
                       /\ Plan(kind)[s].op = "slot" <=> s \in slots
  /\ \A s, role : Walks(kind, s, role) <=> <<s, role>> \in walks
  /\ \A s, role : Binds(kind, s, role) <=> <<s, role>> \in binds
  /\ \A r, role : Places(kind, r, role) <=> <<r, role>> \in places

LEMMA FuncRow ==
  Row("func", 10, {1}, {10},
      {<<4, "rtparam">>, <<5, "recv">>, <<6, "ptype">>, <<9, "body">>},
      {<<2, "rtparam">>, <<3, "tparam">>, <<7, "rname">>, <<8, "pname">>}, {4, 6},
      {<<1, "rname">>, <<2, "rtparam">>, <<3, "recv">>, <<4, "fname">>, <<5, "tparam">>,
      <<6, "constraint">>, <<7, "pname">>, <<8, "ptype">>, <<9, "body">>})
<1>1. Plan("func") = DeclPlan["func"]
  BY DomainFacts DEF Plan
<1> QED
  BY <1>1 DEF DeclPlan, Row, Walks, Binds, Places, Roles,
     Open, Close, Declare, Visit, Slot, Body

LEMMA FuncLitRow ==
  Row("funclit", 5, {1}, {5}, {<<2, "ptype">>, <<4, "body">>}, {<<3, "pname">>},
      {2}, {<<1, "pname">>, <<2, "ptype">>, <<3, "body">>})
<1>1. Plan("funclit") = DeclPlan["funclit"]
  BY DomainFacts DEF Plan
<1> QED
  BY <1>1 DEF DeclPlan, Row, Walks, Binds, Places, Roles,
     Open, Close, Declare, Visit, Slot, Body

LEMMA TypeSpecRow ==
  Row("typespec", 5, {2}, {5}, {<<4, "def">>}, {<<1, "tname">>, <<3, "tparam">>},
      {4}, {<<1, "tname">>, <<2, "tparam">>, <<3, "constraint">>, <<4, "def">>})
<1>1. Plan("typespec") = DeclPlan["typespec"]
  BY DomainFacts DEF Plan
<1> QED
  BY <1>1 DEF DeclPlan, Row, Walks, Binds, Places, Roles,
     Open, Close, Declare, Visit, Slot, Body

LEMMA ValueSpecRow ==
  Row("valuespec", 3, {}, {}, {<<1, "type">>, <<2, "values">>}, {<<3, "name">>},
      {1}, {<<1, "name">>, <<2, "type">>, <<3, "values">>})
<1>1. Plan("valuespec") = DeclPlan["valuespec"]
  BY DomainFacts DEF Plan
<1> QED
  BY <1>1 DEF DeclPlan, Row, Walks, Binds, Places, Roles,
     Open, Close, Declare, Visit, Slot, Body

LEMMA FuncTypeRow ==
  Row("functype", 1, {}, {}, {<<1, "ptype">>}, {}, {1},
      {<<1, "pname">>, <<2, "ptype">>})
<1>1. Plan("functype") = TypePlan["functype"]
  BY DomainFacts DEF Plan
<1> QED
  BY <1>1 DEF TypePlan, Row, Walks, Binds, Places, Roles,
     Open, Close, Declare, Visit, Slot, Body

LEMMA FieldsRow ==
  Row("fields", 1, {}, {}, {<<1, "ftype">>}, {}, {1}, {<<1, "ftype">>})
<1>1. Plan("fields") = TypePlan["fields"]
  BY DomainFacts DEF Plan
<1>2. \A s, role : Places("fields", s, role) <=>
        s \in DOMAIN Plan("fields") /\ Plan("fields")[s].role = role
  BY DEF Places, Roles
<1> QED
  BY <1>1, <1>2 DEF TypePlan, Row, Walks, Binds,
     Open, Close, Declare, Visit, Slot, Body

LEMMA ArrayRow ==
  Row("array", 2, {}, {}, {<<1, "len">>, <<2, "elt">>}, {}, {2},
      {<<1, "len">>, <<2, "elt">>})
<1>1. Plan("array") = TypePlan["array"]
  BY DomainFacts DEF Plan
<1>2. \A s, role : Places("array", s, role) <=>
        s \in DOMAIN Plan("array") /\ Plan("array")[s].role = role
  BY DEF Places, Roles
<1> QED
  BY <1>1, <1>2 DEF TypePlan, Row, Walks, Binds,
     Open, Close, Declare, Visit, Slot, Body

LEMMA MapRow ==
  Row("map", 2, {}, {}, {<<1, "mkey">>, <<2, "mvalue">>}, {}, {1, 2},
      {<<1, "mkey">>, <<2, "mvalue">>})
<1>1. Plan("map") = TypePlan["map"]
  BY DomainFacts DEF Plan
<1>2. \A s, role : Places("map", s, role) <=>
        s \in DOMAIN Plan("map") /\ Plan("map")[s].role = role
  BY DEF Places, Roles
<1> QED
  BY <1>1, <1>2 DEF TypePlan, Row, Walks, Binds,
     Open, Close, Declare, Visit, Slot, Body

LEMMA StarRow ==
  Row("star", 1, {}, {}, {<<1, "target">>}, {}, {1}, {<<1, "target">>})
<1>1. Plan("star") = TypePlan["star"]
  BY DomainFacts DEF Plan
<1>2. \A s, role : Places("star", s, role) <=>
        s \in DOMAIN Plan("star") /\ Plan("star")[s].role = role
  BY DEF Places, Roles
<1> QED
  BY <1>1, <1>2 DEF TypePlan, Row, Walks, Binds,
     Open, Close, Declare, Visit, Slot, Body

LEMMA CallRow ==
  Row("call", 2, {}, {}, {<<1, "fun">>, <<2, "parts">>}, {}, {1},
      {<<1, "fun">>, <<2, "parts">>})
<1>1. Plan("call") = ExprPlan["call"]
  BY DomainFacts DEF Plan
<1>2. \A s, role : Places("call", s, role) <=>
        s \in DOMAIN Plan("call") /\ Plan("call")[s].role = role
  BY DEF Places, Roles
<1> QED
  BY <1>1, <1>2 DEF ExprPlan, Row, Walks, Binds,
     Open, Close, Declare, Visit, Slot, Body

LEMMA AssertRow ==
  Row("assert", 2, {}, {}, {<<1, "x">>, <<2, "asserted">>}, {}, {2},
      {<<1, "x">>, <<2, "asserted">>})
<1>1. Plan("assert") = ExprPlan["assert"]
  BY DomainFacts DEF Plan
<1>2. \A s, role : Places("assert", s, role) <=>
        s \in DOMAIN Plan("assert") /\ Plan("assert")[s].role = role
  BY DEF Places, Roles
<1> QED
  BY <1>1, <1>2 DEF ExprPlan, Row, Walks, Binds,
     Open, Close, Declare, Visit, Slot, Body

LEMMA IndexRow ==
  Row("index", 2, {}, {}, {<<1, "x">>, <<2, "index">>}, {}, {2},
      {<<1, "x">>, <<2, "index">>})
<1>1. Plan("index") = ExprPlan["index"]
  BY DomainFacts DEF Plan
<1>2. \A s, role : Places("index", s, role) <=>
        s \in DOMAIN Plan("index") /\ Plan("index")[s].role = role
  BY DEF Places, Roles
<1> QED
  BY <1>1, <1>2 DEF ExprPlan, Row, Walks, Binds,
     Open, Close, Declare, Visit, Slot, Body

LEMMA PartsRow ==
  Row("parts", 1, {}, {}, {<<1, "parts">>}, {}, {}, {<<1, "parts">>})
<1>1. Plan("parts") = ExprPlan["parts"]
  BY DomainFacts DEF Plan
<1>2. \A s, role : Places("parts", s, role) <=>
        s \in DOMAIN Plan("parts") /\ Plan("parts")[s].role = role
  BY DEF Places, Roles
<1> QED
  BY <1>1, <1>2 DEF ExprPlan, Row, Walks, Binds,
     Open, Close, Declare, Visit, Slot, Body

LEMMA BlockRow ==
  Row("block", 3, {1}, {3}, {<<2, "stmts">>}, {}, {},
      {<<1, "scope">>, <<2, "stmts">>, <<3, "scope">>})
<1>1. Plan("block") = StmtPlan["block"]
  BY DomainFacts DEF Plan
<1>2. \A s, role : Places("block", s, role) <=>
        s \in DOMAIN Plan("block") /\ Plan("block")[s].role = role
  BY DEF Places, Roles
<1> QED
  BY <1>1, <1>2 DEF StmtPlan, Row, Walks, Binds,
     Open, Close, Declare, Visit, Slot, Body

LEMMA DefineRow ==
  Row("define", 3, {}, {}, {<<1, "rhs">>, <<2, "lexpr">>}, {<<3, "lhs">>}, {},
      {<<1, "lhs">>, <<2, "lexpr">>, <<3, "rhs">>})
<1>1. Plan("define") = StmtPlan["define"]
  BY DomainFacts DEF Plan
<1> QED
  BY <1>1 DEF StmtPlan, Row, Walks, Binds, Places, Roles,
     Open, Close, Declare, Visit, Slot, Body

LEMMA IfRow ==
  Row("if", 6, {1}, {6}, {<<2, "init">>, <<3, "cond">>, <<4, "body">>,
      <<5, "else">>}, {}, {}, {<<1, "init">>, <<2, "cond">>, <<3, "body">>,
      <<4, "else">>})
<1>1. Plan("if") = ControlPlan["if"]
  BY DomainFacts DEF Plan
<1> QED
  BY <1>1 DEF ControlPlan, Row, Walks, Binds, Places, Roles,
     Open, Close, Declare, Visit, Slot, Body

LEMMA ForRow ==
  Row("for", 6, {1}, {6}, {<<2, "init">>, <<3, "cond">>, <<4, "post">>,
      <<5, "body">>}, {}, {}, {<<1, "scope">>, <<2, "init">>, <<3, "cond">>,
      <<4, "post">>, <<5, "body">>, <<6, "scope">>})
<1>1. Plan("for") = ControlPlan["for"]
  BY DomainFacts DEF Plan
<1>2. \A s, role : Places("for", s, role) <=>
        s \in DOMAIN Plan("for") /\ Plan("for")[s].role = role
  BY DEF Places, Roles
<1> QED
  BY <1>1, <1>2 DEF ControlPlan, Row, Walks, Binds,
     Open, Close, Declare, Visit, Slot, Body

LEMMA RangeRow ==
  Row("range", 6, {1}, {6}, {<<2, "x">>, <<3, "lexpr">>, <<5, "body">>},
      {<<4, "key">>}, {}, {<<1, "key">>, <<2, "lexpr">>, <<3, "x">>, <<4, "body">>})
<1>1. Plan("range") = ControlPlan["range"]
  BY DomainFacts DEF Plan
<1> QED
  BY <1>1 DEF ControlPlan, Row, Walks, Binds, Places, Roles,
     Open, Close, Declare, Visit, Slot, Body

LEMMA RangeOverRow ==
  Row("rangeover", 5, {1}, {5}, {<<2, "x">>, <<3, "parts">>, <<4, "body">>},
      {}, {}, {<<1, "parts">>, <<2, "x">>, <<3, "body">>})
<1>1. Plan("rangeover") = ControlPlan["rangeover"]
  BY DomainFacts DEF Plan
<1> QED
  BY <1>1 DEF ControlPlan, Row, Walks, Binds, Places, Roles,
     Open, Close, Declare, Visit, Slot, Body

LEMMA SwitchRow ==
  Row("switch", 7, {1, 4}, {6, 7}, {<<2, "init">>, <<3, "tag">>, <<5, "clauses">>},
      {}, {}, {<<1, "scope">>, <<2, "init">>, <<3, "tag">>, <<4, "scope">>,
      <<5, "clauses">>, <<6, "scope">>, <<7, "scope">>})
<1>1. Plan("switch") = ControlPlan["switch"]
  BY DomainFacts DEF Plan
<1>2. \A s, role : Places("switch", s, role) <=>
        s \in DOMAIN Plan("switch") /\ Plan("switch")[s].role = role
  BY DEF Places, Roles
<1> QED
  BY <1>1, <1>2 DEF ControlPlan, Row, Walks, Binds,
     Open, Close, Declare, Visit, Slot, Body

LEMMA TypeSwitchRow ==
  Row("typeswitch", 5, {1}, {5}, {<<2, "init">>, <<3, "assign">>, <<4, "clauses">>},
      {}, {}, {<<1, "scope">>, <<2, "init">>, <<3, "assign">>, <<4, "clauses">>,
      <<5, "scope">>})
<1>1. Plan("typeswitch") = ControlPlan["typeswitch"]
  BY DomainFacts DEF Plan
<1>2. \A s, role : Places("typeswitch", s, role) <=>
        s \in DOMAIN Plan("typeswitch") /\ Plan("typeswitch")[s].role = role
  BY DEF Places, Roles
<1> QED
  BY <1>1, <1>2 DEF ControlPlan, Row, Walks, Binds,
     Open, Close, Declare, Visit, Slot, Body

LEMMA SelectRow ==
  Row("select", 3, {1}, {3}, {<<2, "clauses">>}, {}, {},
      {<<1, "scope">>, <<2, "clauses">>, <<3, "scope">>})
<1>1. Plan("select") = ControlPlan["select"]
  BY DomainFacts DEF Plan
<1>2. \A s, role : Places("select", s, role) <=>
        s \in DOMAIN Plan("select") /\ Plan("select")[s].role = role
  BY DEF Places, Roles
<1> QED
  BY <1>1, <1>2 DEF ControlPlan, Row, Walks, Binds,
     Open, Close, Declare, Visit, Slot, Body

LEMMA CaseRow ==
  Row("case", 4, {2}, {4}, {<<1, "list">>, <<3, "stmts">>}, {}, {},
      {<<1, "list">>, <<2, "stmts">>})
<1>1. Plan("case") = ControlPlan["case"]
  BY DomainFacts DEF Plan
<1> QED
  BY <1>1 DEF ControlPlan, Row, Walks, Binds, Places, Roles,
     Open, Close, Declare, Visit, Slot, Body

LEMMA TypeCaseRow ==
  Row("typecase", 3, {1}, {3}, {<<2, "stmts">>}, {}, {},
      {<<1, "list">>, <<2, "stmts">>})
<1>1. Plan("typecase") = ControlPlan["typecase"]
  BY DomainFacts DEF Plan
<1> QED
  BY <1>1 DEF ControlPlan, Row, Walks, Binds, Places, Roles,
     Open, Close, Declare, Visit, Slot, Body

LEMMA CommRow ==
  Row("comm", 4, {1}, {4}, {<<2, "comm">>, <<3, "stmts">>}, {}, {}, {<<1, "scope">>,
      <<2, "comm">>, <<3, "stmts">>, <<4, "scope">>})
<1>1. Plan("comm") = ControlPlan["comm"]
  BY DomainFacts DEF Plan
<1>2. \A s, role : Places("comm", s, role) <=>
        s \in DOMAIN Plan("comm") /\ Plan("comm")[s].role = role
  BY DEF Places, Roles
<1> QED
  BY <1>1, <1>2 DEF ControlPlan, Row, Walks, Binds,
     Open, Close, Declare, Visit, Slot, Body

LEMMA IdentRow ==
  Row("ident", 0, {}, {}, {}, {}, {}, {})
<1>1. Plan("ident") = FilePlan["ident"]
  BY DomainFacts DEF Plan
<1>2. \A s, role : Places("ident", s, role) <=>
        s \in DOMAIN Plan("ident") /\ Plan("ident")[s].role = role
  BY DEF Places, Roles
<1> QED
  BY <1>1, <1>2 DEF FilePlan, Row, Walks, Binds,
     Open, Close, Declare, Visit, Slot, Body

LEMMA FileRow ==
  Row("file", 1, {}, {}, {<<1, "decls">>}, {}, {}, {<<1, "iname">>, <<2, "decls">>})
<1>1. Plan("file") = FilePlan["file"]
  BY DomainFacts DEF Plan
<1> QED
  BY <1>1 DEF FilePlan, Row, Walks, Binds, Places, Roles,
     Open, Close, Declare, Visit, Slot, Body

\* The plans and roles keep to that.
LEMMA RegularFacts ==
  \A kind \in Kinds :
    Once(kind) /\ SlotsSupported(kind) /\ AllWalked(kind) /\ BlockScope(kind)
<1> USE DEF Row, Once, Headers, Blocks, SlotsSupported, Supported, Walks, AllWalked, Names,
            BlockScope, Opens
<1>1. Once("func") /\ SlotsSupported("func") /\ AllWalked("func") /\ BlockScope("func")
  <2>1. Once("func")
    <3>1. \A s, t, role : Walks("func", s, role) /\ Walks("func", t, role) => s = t
      BY FuncRow
    <3>2. \A s, t, role : Binds("func", s, role) /\ Binds("func", t, role) => s = t
      BY FuncRow
    <3>3. \A s, role : Binds("func", s, role) => role \in Headers \cup Blocks
      BY FuncRow
    <3>4. \A s, role : Walks("func", s, role) => role \notin {"constraint", "scope"}
      BY FuncRow
    <3> QED
      BY <3>1, <3>2, <3>3, <3>4
  <2>2. SlotsSupported("func")
    BY FuncRow
  <2>3. AllWalked("func")
    BY FuncRow
  <2>4. BlockScope("func")
    BY FuncRow
  <2> QED
    BY <2>1, <2>2, <2>3, <2>4
<1>2. Once("funclit") /\ SlotsSupported("funclit") /\ AllWalked("funclit") /\ BlockScope("funclit")
  BY FuncLitRow
<1>3. Once("typespec") /\ SlotsSupported("typespec") /\ AllWalked("typespec") /\ BlockScope("typespec")
  BY TypeSpecRow
<1>4. Once("valuespec") /\ SlotsSupported("valuespec") /\ AllWalked("valuespec") /\ BlockScope("valuespec")
  BY ValueSpecRow
<1>5. Once("functype") /\ SlotsSupported("functype") /\ AllWalked("functype") /\ BlockScope("functype")
  BY FuncTypeRow
<1>6. Once("fields") /\ SlotsSupported("fields") /\ AllWalked("fields") /\ BlockScope("fields")
  BY FieldsRow
<1>7. Once("array") /\ SlotsSupported("array") /\ AllWalked("array") /\ BlockScope("array")
  BY ArrayRow
<1>8. Once("map") /\ SlotsSupported("map") /\ AllWalked("map") /\ BlockScope("map")
  BY MapRow
<1>9. Once("star") /\ SlotsSupported("star") /\ AllWalked("star") /\ BlockScope("star")
  BY StarRow
<1>10. Once("call") /\ SlotsSupported("call") /\ AllWalked("call") /\ BlockScope("call")
  BY CallRow
<1>11. Once("assert") /\ SlotsSupported("assert") /\ AllWalked("assert") /\ BlockScope("assert")
  BY AssertRow
<1>12. Once("index") /\ SlotsSupported("index") /\ AllWalked("index") /\ BlockScope("index")
  BY IndexRow
<1>13. Once("parts") /\ SlotsSupported("parts") /\ AllWalked("parts") /\ BlockScope("parts")
  BY PartsRow
<1>14. Once("block") /\ SlotsSupported("block") /\ AllWalked("block") /\ BlockScope("block")
  BY BlockRow
<1>15. Once("define") /\ SlotsSupported("define") /\ AllWalked("define") /\ BlockScope("define")
  BY DefineRow
<1>16. Once("if") /\ SlotsSupported("if") /\ AllWalked("if") /\ BlockScope("if")
  BY IfRow
<1>17. Once("for") /\ SlotsSupported("for") /\ AllWalked("for") /\ BlockScope("for")
  BY ForRow
<1>18. Once("range") /\ SlotsSupported("range") /\ AllWalked("range") /\ BlockScope("range")
  BY RangeRow
<1>19. Once("switch") /\ SlotsSupported("switch") /\ AllWalked("switch") /\ BlockScope("switch")
  BY SwitchRow
<1>20. Once("typeswitch") /\ SlotsSupported("typeswitch") /\ AllWalked("typeswitch") /\ BlockScope("typeswitch")
  BY TypeSwitchRow
<1>21. Once("select") /\ SlotsSupported("select") /\ AllWalked("select") /\ BlockScope("select")
  BY SelectRow
<1>22. Once("case") /\ SlotsSupported("case") /\ AllWalked("case") /\ BlockScope("case")
  BY CaseRow
<1>23. Once("typecase") /\ SlotsSupported("typecase") /\ AllWalked("typecase") /\ BlockScope("typecase")
  BY TypeCaseRow
<1>24. Once("comm") /\ SlotsSupported("comm") /\ AllWalked("comm") /\ BlockScope("comm")
  BY CommRow
<1>25. Once("ident") /\ SlotsSupported("ident") /\ AllWalked("ident") /\ BlockScope("ident")
  BY IdentRow
<1>26. Once("file") /\ SlotsSupported("file") /\ AllWalked("file") /\ BlockScope("file")
  BY FileRow
<1>27. Once("rangeover") /\ SlotsSupported("rangeover") /\ AllWalked("rangeover") /\ BlockScope("rangeover")
  BY RangeOverRow
<1> HIDE DEF Once, Headers, Blocks, SlotsSupported, Supported, Walks, AllWalked, Names,
             BlockScope, Opens
<1> QED
  BY <1>1, <1>2, <1>3, <1>4, <1>5, <1>6, <1>7, <1>8, <1>9, <1>10, <1>11, <1>12,
     <1>13, <1>14, <1>15, <1>16, <1>17, <1>18, <1>19, <1>20, <1>21, <1>22,
     <1>23, <1>24, <1>25, <1>26, <1>27, DomainFacts DEF Kinds

LEMMA HeaderFacts == \A kind \in Kinds : HeaderScope(kind)
<1> USE DEF Row, HeaderScope, Headers
<1>1. HeaderScope("func")
  <2>1. Opens("func") = {1} /\ Match("func", 1) = 10
    BY FuncRow DEF Opens, Match
  <2>2. ASSUME NEW s, NEW role, Binds("func", s, role), role \in Headers
        PROVE  Within("func", s, 1)
    BY <2>1, <2>2, FuncRow DEF Within
  <2>3. ASSUME NEW s, NEW o, Within("func", s, o) PROVE o = 1
    BY <2>1, <2>3 DEF Within
  <2> QED
    BY <2>1, <2>2, <2>3, FuncRow
<1>2. HeaderScope("funclit")
  BY FuncLitRow DEF Within, Opens, Match
<1>3. HeaderScope("typespec")
  BY TypeSpecRow DEF Within, Opens, Match
<1>4. HeaderScope("valuespec")
  BY ValueSpecRow DEF Within, Opens, Match
<1>5. HeaderScope("functype")
  BY FuncTypeRow DEF Within, Opens, Match
<1>6. HeaderScope("fields")
  BY FieldsRow DEF Within, Opens, Match
<1>7. HeaderScope("array")
  BY ArrayRow DEF Within, Opens, Match
<1>8. HeaderScope("map")
  BY MapRow DEF Within, Opens, Match
<1>9. HeaderScope("star")
  BY StarRow DEF Within, Opens, Match
<1>10. HeaderScope("call")
  BY CallRow DEF Within, Opens, Match
<1>11. HeaderScope("assert")
  BY AssertRow DEF Within, Opens, Match
<1>12. HeaderScope("index")
  BY IndexRow DEF Within, Opens, Match
<1>13. HeaderScope("parts")
  BY PartsRow DEF Within, Opens, Match
<1>14. HeaderScope("block")
  BY BlockRow DEF Within, Opens, Match
<1>15. HeaderScope("define")
  BY DefineRow DEF Within, Opens, Match
<1>16. HeaderScope("if")
  BY IfRow DEF Within, Opens, Match
<1>17. HeaderScope("for")
  BY ForRow DEF Within, Opens, Match
<1>18. HeaderScope("range")
  BY RangeRow DEF Within, Opens, Match
<1>19. HeaderScope("switch")
  BY SwitchRow DEF Within, Opens, Match
<1>20. HeaderScope("typeswitch")
  BY TypeSwitchRow DEF Within, Opens, Match
<1>21. HeaderScope("select")
  BY SelectRow DEF Within, Opens, Match
<1>22. HeaderScope("case")
  BY CaseRow DEF Within, Opens, Match
<1>23. HeaderScope("typecase")
  BY TypeCaseRow DEF Within, Opens, Match
<1>24. HeaderScope("comm")
  BY CommRow DEF Within, Opens, Match
<1>25. HeaderScope("ident")
  BY IdentRow DEF Within, Opens, Match
<1>26. HeaderScope("file")
  BY FileRow DEF Within, Opens, Match
<1>27. HeaderScope("rangeover")
  BY RangeOverRow DEF Within, Opens, Match
<1> HIDE DEF HeaderScope, Headers
<1> QED
  BY <1>1, <1>2, <1>3, <1>4, <1>5, <1>6, <1>7, <1>8, <1>9, <1>10, <1>11, <1>12,
     <1>13, <1>14, <1>15, <1>16, <1>17, <1>18, <1>19, <1>20, <1>21, <1>22,
     <1>23, <1>24, <1>25, <1>26, <1>27, DomainFacts DEF Kinds

\* The roles that hold no declarations for the block around.
Closed == {"rtparam", "recv", "lexpr", "ptype", "body", "def", "type", "values", "ftype", "len", "elt", "mkey",
           "mvalue", "target", "fun", "parts", "x", "asserted", "index", "rhs", "lhs", "cond",
           "else", "post", "key", "tag", "list"}

LEMMA HoldsFacts ==
  \A kind, role :
    \/ role \in Closed
    \/ role = "clauses" /\ kind \in {"switch", "typeswitch", "select"}
    => ~ HoldsOne(kind, role)
<1> SUFFICES ASSUME NEW kind, NEW role,
                    \/ role \in Closed
                    \/ role = "clauses" /\ kind \in {"switch", "typeswitch", "select"}
             PROVE  ~ HoldsOne(kind, role)
  OBVIOUS
<1>1. CASE role = "clauses"
  BY <1>1 DEF Holds, Names, HoldsOne, Closed
<1>2. CASE role \in Closed
  BY <1>2 DEF Holds, HoldsOne, Closed, Names, Types, Exprs
<1> QED
  BY <1>1, <1>2

LEMMA LocalFacts == \A kind \in Kinds : HoldsLocal(kind)
<1> USE DEF Row, HoldsLocal, Within, Opens, Match, Lists, Ordered, Closed
<1>1. HoldsLocal("func")
  BY FuncRow, HoldsFacts
<1>2. HoldsLocal("funclit")
  BY FuncLitRow, HoldsFacts
<1>3. HoldsLocal("typespec")
  BY TypeSpecRow, HoldsFacts
<1>4. HoldsLocal("valuespec")
  BY ValueSpecRow, HoldsFacts
<1>5. HoldsLocal("functype")
  BY FuncTypeRow, HoldsFacts
<1>6. HoldsLocal("fields")
  BY FieldsRow, HoldsFacts
<1>7. HoldsLocal("array")
  BY ArrayRow, HoldsFacts
<1>8. HoldsLocal("map")
  BY MapRow, HoldsFacts
<1>9. HoldsLocal("star")
  BY StarRow, HoldsFacts
<1>10. HoldsLocal("call")
  BY CallRow, HoldsFacts
<1>11. HoldsLocal("assert")
  BY AssertRow, HoldsFacts
<1>12. HoldsLocal("index")
  BY IndexRow, HoldsFacts
<1>13. HoldsLocal("parts")
  BY PartsRow, HoldsFacts
<1>14. HoldsLocal("block")
  BY BlockRow, HoldsFacts
<1>15. HoldsLocal("define")
  BY DefineRow, HoldsFacts
<1>16. HoldsLocal("if")
  BY IfRow, HoldsFacts
<1>17. HoldsLocal("for")
  BY ForRow, HoldsFacts
<1>18. HoldsLocal("range")
  BY RangeRow, HoldsFacts
<1>19. HoldsLocal("switch")
  BY SwitchRow, HoldsFacts
<1>20. HoldsLocal("typeswitch")
  BY TypeSwitchRow, HoldsFacts
<1>21. HoldsLocal("select")
  BY SelectRow, HoldsFacts
<1>22. HoldsLocal("case")
  BY CaseRow, HoldsFacts
<1>23. HoldsLocal("typecase")
  BY TypeCaseRow, HoldsFacts
<1>24. HoldsLocal("comm")
  BY CommRow, HoldsFacts
<1>25. HoldsLocal("ident")
  BY IdentRow, HoldsFacts
<1>26. HoldsLocal("file")
  BY FileRow, HoldsFacts
<1>27. HoldsLocal("rangeover")
  BY RangeOverRow, HoldsFacts
<1> HIDE DEF HoldsLocal, Within, Opens, Match, Lists, Ordered, Closed
<1> QED
  BY <1>1, <1>2, <1>3, <1>4, <1>5, <1>6, <1>7, <1>8, <1>9, <1>10, <1>11, <1>12,
     <1>13, <1>14, <1>15, <1>16, <1>17, <1>18, <1>19, <1>20, <1>21, <1>22,
     <1>23, <1>24, <1>25, <1>26, <1>27, DomainFacts DEF Kinds

\* The places of the roles order the children of a node.
LEMMA FollowFacts ==
  /\ \A kind, role, earlier : Follows(kind, role, earlier) => Ordered(kind, earlier, role)
  /\ \A kind : \A role \in ToSet(Roles(kind)) : \E r : Places(kind, r, role)
BY DEF Follows, Ordered, Places, ToSet

-----------------------------------------------------------------------------
(* Where the walk is *)

\* Step i of b's parent visits b, or declares it.
Visits(i, b) ==
  /\ i \in Steps(tree[b].up) /\ i[2] = b
  /\ Op(tree[b].up, i) \in {"visit", "slot", "body"}

Binding(i, b) == i \in Steps(tree[b].up) /\ i[2] = b /\ Op(tree[b].up, i) = "declare"

\* The steps of a node, one by one.
LEMMA StepIs ==
  ASSUME NEW n, NEW s, NEW c
  PROVE  LET step == Plan(tree[n].kind)[s] IN
         <<s, c>> \in Steps(n) <=>
           /\ s \in DOMAIN Plan(tree[n].kind)
           /\ IF \/ step.op \in {"open", "close"}
                 \/ step.op = "body" /\ Children(n, step.role) = {}
              THEN c = 0 ELSE c \in Children(n, step.role)
<1> DEFINE plan == Plan(tree[n].kind)
           About(step) ==
             IF \/ step.op \in {"open", "close"}
                \/ step.op = "body" /\ Children(n, step.role) = {}
             THEN {0} ELSE Children(n, step.role)
<1>1. Steps(n) = UNION {{t} \X About(plan[t]) : t \in DOMAIN plan}
  BY DEF Steps
<1>2. <<s, c>> \in Steps(n) <=> s \in DOMAIN plan /\ c \in About(plan[s])
  <2> HIDE DEF plan, About
  <2> QED
    BY <1>1
<1> QED
  BY <1>2

\* The step about a child is the one of its role.
LEMMA VisitFacts ==
  ASSUME IsTree(tree), NEW b \in Nodes, b # 1
  PROVE  LET kind == tree[tree[b].up].kind IN
         /\ \A s : Walks(kind, s, tree[b].role) => Visits(<<s, b>>, b)
         /\ \A i : Visits(i, b) => Walks(kind, i[1], tree[b].role) /\ i = <<i[1], b>>
         /\ \A i, j : Visits(i, b) /\ Visits(j, b) => i = j
         /\ \A s : Binds(kind, s, tree[b].role) => Binding(<<s, b>>, b)
         /\ \A i : Binding(i, b) => Binds(kind, i[1], tree[b].role) /\ i = <<i[1], b>>
         /\ \A i, j : Binding(i, b) /\ Binding(j, b) => i = j
<1> DEFINE a == tree[b].up
           kind == tree[a].kind
           role == tree[b].role
<1>1. a \in Nodes /\ kind \in Kinds /\ b \in Children(a, role) /\ b # 0
  BY RoleFacts, TreeFacts
<1>2. Once(kind)
  BY <1>1, RegularFacts
<1>3. ASSUME NEW s, Walks(kind, s, role) PROVE Visits(<<s, b>>, b)
  BY <1>1, <1>3, StepIs DEF Walks, Visits, Op
<1>4. ASSUME NEW s, Binds(kind, s, role) PROVE Binding(<<s, b>>, b)
  BY <1>1, <1>4, StepIs DEF Binds, Binding, Op
<1>5. ASSUME NEW i \in Steps(a), i[2] = b, Op(a, i) \notin {"open", "close"}
      PROVE  i = <<i[1], b>> /\ i[1] \in DOMAIN Plan(kind) /\ Plan(kind)[i[1]].role = role
  <2>1. i = <<i[1], b>>
    BY <1>1, <1>5, StepFacts
  <2>2. <<i[1], b>> \in Steps(a)
    BY <1>5, <2>1
  <2>3. i[1] \in DOMAIN Plan(kind) /\ b \in Children(a, Plan(kind)[i[1]].role)
    BY <1>1, <1>5, <2>2, StepIs DEF Op
  <2> QED
    BY <2>1, <2>3 DEF Children
<1>6. ASSUME NEW i, Visits(i, b) PROVE Walks(kind, i[1], role) /\ i = <<i[1], b>>
  BY <1>5, <1>6 DEF Visits, Walks, Op
<1>7. ASSUME NEW i, Binding(i, b) PROVE Binds(kind, i[1], role) /\ i = <<i[1], b>>
  BY <1>5, <1>7 DEF Binding, Binds, Op
<1>8. ASSUME NEW i, NEW j, Visits(i, b), Visits(j, b) PROVE i = j
  BY <1>2, <1>6, <1>8 DEF Once
<1>9. ASSUME NEW i, NEW j, Binding(i, b), Binding(j, b) PROVE i = j
  BY <1>2, <1>7, <1>9 DEF Once
<1> QED
  BY <1>3, <1>4, <1>6, <1>7, <1>8, <1>9

\* A handler takes its steps in the order of the plan, those of one step in the
\* order of the children.
Later(i, j) == i[1] > j[1] \/ (i[1] = j[1] /\ i[2] > j[2])

\* The steps left, with the node that takes them.
Held(s) ==
  {x \in Nat \X (Nat \X Nat) :
     \E t \in 1 .. Len(s) : s[t].node = x[1] /\ x[2] \in s[t].steps}

\* To the nodes that n is in are left the steps after those that led to n.
Trail(H, n) ==
  \A b \in tree[n].path \ {1} : \E i : Visits(i, b) /\
    \A j \in Steps(tree[b].up) : <<tree[b].up, j>> \in H <=> Later(j, i)

\* Each call is for a node inside the one before, with no step left out.
Nested(s) ==
  \A t, u \in 1 .. Len(s) :
    t < u => s[t].node \in tree[s[u].node].path /\ s[t].node # s[u].node

Rest(call) ==
  \A i \in call.steps : \A j \in Steps(call.node) : Later(j, i) => j \in call.steps

Walking(s) ==
  /\ Nested(s) /\ \A t \in 1 .. Len(s) : Rest(s[t])
  /\ s # <<>> => Trail(Held(s), s[Len(s)].node)

\* The walk is at step i of node x, with the steps of H left.
Cursor(H, x, i) ==
  /\ x \in Nodes /\ i \in Steps(x)
  /\ \A j \in Steps(x) : <<x, j>> \in H <=> j = i \/ Later(j, i)
  /\ \A y \in H : y = <<y[1], y[2]>> /\ y[1] \in tree[x].path /\ y[2] \in Steps(y[1])
  /\ Trail(H, x)

LEMMA CursorFacts ==
  ASSUME IsTree(tree), Calls(todo), Walking(todo), todo # <<>>
  PROVE  Cursor(Held(todo), todo[Len(todo)].node, At)
<1> DEFINE L == Len(todo)
           x == todo[L].node
           H == Held(todo)
<1>1. /\ todo \in Seq(Frames) /\ L \in Nat /\ L >= 1
      /\ \A t \in 1 .. L : Sound(todo[t]) /\ Rest(todo[t])
  BY DEF Calls, Walking
<1>2. \A t \in 1 .. L : /\ todo[t].node \in Nodes /\ todo[t].steps # {}
                        /\ todo[t].steps \subseteq Steps(todo[t].node)
  BY <1>1 DEF Sound
<1>3. /\ At \in todo[L].steps /\ At \in Nat \X Nat
      /\ \A j \in todo[L].steps : At[1] < j[1] \/ (At[1] = j[1] /\ At[2] <= j[2])
  BY <1>1, <1>2, AtFacts
<1>4. \A t \in 1 .. L : todo[t].node \in Nat /\ todo[t].steps \subseteq Nat \X Nat
  <2>1. \A t \in 1 .. L : todo[t] \in Frames
    BY <1>1, ElementOfSeq
  <2> QED
    BY <2>1 DEF Frames
<1>5. \A t \in 1 .. L : t # L => todo[t].node \in tree[x].path /\ todo[t].node # x
  BY <1>1 DEF Walking, Nested
<1>6. x \in Nodes /\ x \in tree[x].path
  BY <1>1, <1>2, TreeFacts DEF Placed
<1>7. \A a, j : <<a, j>> \in H <=> \E t \in 1 .. L : todo[t].node = a /\ j \in todo[t].steps
  BY <1>4 DEF Held
<1>8. \A j : <<x, j>> \in H <=> j \in todo[L].steps
  BY <1>1, <1>5, <1>7
<1>9. ASSUME NEW j \in Steps(x) PROVE <<x, j>> \in H <=> j = At \/ Later(j, At)
  <2>1. ASSUME j \in todo[L].steps PROVE j = At \/ Later(j, At)
    <3>1. j \in Nat \X Nat
      BY <1>1, <1>4, <2>1
    <3>2. At[1] < j[1] \/ (At[1] = j[1] /\ At[2] <= j[2])
      BY <1>3, <2>1
    <3> QED
      BY <1>3, <3>1, <3>2 DEF Later
  <2>2. ASSUME Later(j, At) PROVE j \in todo[L].steps
    BY <1>1, <1>3, <2>2 DEF Rest
  <2> QED
    BY <1>3, <1>8, <2>1, <2>2
<1>10. ASSUME NEW y \in H
       PROVE  y = <<y[1], y[2]>> /\ y[1] \in tree[x].path /\ y[2] \in Steps(y[1])
  <2>1. y = <<y[1], y[2]>>
    BY <1>10 DEF Held
  <2>2. PICK t \in 1 .. L : todo[t].node = y[1] /\ y[2] \in todo[t].steps
    BY <1>10 DEF Held
  <2> QED
    BY <1>2, <1>5, <1>6, <2>1, <2>2
<1>11. Trail(H, x)
  BY DEF Walking
<1>12. At \in Steps(x)
  BY <1>1, <1>2, <1>3
<1> HIDE DEF x, H
<1>13. Cursor(H, x, At)
  BY <1>6, <1>9, <1>10, <1>11, <1>12 DEF Cursor
<1> QED
  BY <1>13 DEF x, H

\* Steps are pairs of numbers, none later than itself.
LEMMA StepTypes ==
  ASSUME IsTree(tree), NEW n \in Nodes
  PROVE  Steps(n) \subseteq Nat \X Nat /\ \A i \in Steps(n) : ~ Later(i, i)
<1>1. DOMAIN Plan(tree[n].kind) \subseteq Nat
  BY TreeFacts, PlanFacts DEF Placed, Matched
<1>2. Steps(n) \subseteq Nat \X Nat
  BY <1>1, StepFacts, TreeFacts
<1>3. ASSUME NEW i \in Steps(n) PROVE ~ Later(i, i)
  <2>1. i[1] \in Nat /\ i[2] \in Nat
    BY <1>2
  <2> QED
    BY <2>1 DEF Later
<1> QED
  BY <1>2, <1>3

\* A step taken is no longer held,
LEMMA HeldLeft ==
  ASSUME Calls(todo), Nested(todo), todo # <<>>
  PROVE  Held(Left) = Held(todo) \ {<<todo[Len(todo)].node, At>>}
<1> DEFINE L == Len(todo)
           x == todo[L].node
           rest == todo[L].steps \ {At}
<1>1. todo \in Seq(Frames) /\ L \in Nat /\ L >= 1 /\ \A t \in 1 .. L : t < L => todo[t].node # x
  BY DEF Calls, Nested
<1>2. /\ Len(Left) = IF rest = {} THEN L - 1 ELSE L
      /\ \A t \in 1 .. Len(Left) : /\ Left[t].node = todo[t].node
                                   /\ Left[t].steps = IF t = L THEN rest ELSE todo[t].steps
  BY <1>1, LeftFacts
<1> HIDE DEF x, L
<1>3. ASSUME NEW a, NEW j
      PROVE  (\E t \in 1 .. Len(Left) : Left[t].node = a /\ j \in Left[t].steps) <=>
               (\E t \in 1 .. L : todo[t].node = a /\ j \in todo[t].steps) /\ <<a, j>> # <<x, At>>
  <2>1. ASSUME NEW t \in 1 .. Len(Left), Left[t].node = a, j \in Left[t].steps
        PROVE  t \in 1 .. L /\ todo[t].node = a /\ j \in todo[t].steps /\ <<a, j>> # <<x, At>>
    <3>1. t \in 1 .. L /\ todo[t].node = a
      BY <1>1, <1>2, <2>1
    <3>2. CASE t = L
      BY <1>2, <2>1, <3>1, <3>2 DEF x, L
    <3>3. CASE t # L
      BY <1>1, <1>2, <2>1, <3>1, <3>3
    <3> QED
      BY <3>2, <3>3
  <2>2. ASSUME NEW t \in 1 .. L, todo[t].node = a, j \in todo[t].steps, <<a, j>> # <<x, At>>
        PROVE  t \in 1 .. Len(Left) /\ Left[t].node = a /\ j \in Left[t].steps
    <3>1. CASE t = L
      <4>1. a = x /\ j \in rest
        BY <2>2, <3>1 DEF x, L
      <4>2. t \in 1 .. Len(Left)
        BY <1>1, <1>2, <3>1, <4>1
      <4> QED
        BY <1>2, <2>2, <3>1, <4>1, <4>2
    <3>2. CASE t # L
      <4>1. t \in 1 .. Len(Left)
        BY <1>1, <1>2, <3>2
      <4> QED
        BY <1>2, <2>2, <3>2, <4>1
    <3> QED
      BY <3>1, <3>2
  <2> QED
    BY <2>1, <2>2
<1> QED
  <2>1. ASSUME NEW y \in Nat \X (Nat \X Nat)
        PROVE  y \in Held(Left) <=> y \in Held(todo) /\ y # <<x, At>>
    <3>1. y = <<y[1], y[2]>>
      BY <2>1
    <3>2. (\E t \in 1 .. Len(Left) : Left[t].node = y[1] /\ y[2] \in Left[t].steps) <=>
            (\E t \in 1 .. L : todo[t].node = y[1] /\ y[2] \in todo[t].steps)
              /\ <<y[1], y[2]>> # <<x, At>>
      BY <1>3
    <3>3. y \in Held(Left) <=>
            \E t \in 1 .. Len(Left) : Left[t].node = y[1] /\ y[2] \in Left[t].steps
      BY <2>1 DEF Held
    <3>4. y \in Held(todo) <=>
            \E t \in 1 .. L : todo[t].node = y[1] /\ y[2] \in todo[t].steps
      BY <2>1 DEF Held, L
    <3> QED
      BY <3>1, <3>2, <3>3, <3>4
  <2>2. Held(Left) \subseteq Nat \X (Nat \X Nat) /\ Held(todo) \subseteq Nat \X (Nat \X Nat)
    BY DEF Held
  <2>3. Held(Left) = Held(todo) \ {<<x, At>>}
    BY <2>1, <2>2
  <2> QED
    BY <2>3 DEF L, x

\* and a call brings all the steps of its node.
LEMMA HeldCall ==
  ASSUME IsTree(tree), NEW s \in Seq(Frames), NEW n \in Nodes, NEW owner \in Nodes
  PROVE  Held(s \o Call(n, owner)) = Held(s) \cup ({n} \X Steps(n))
<1> DEFINE new == s \o Call(n, owner)
           call == [node |-> n, owner |-> Owner(n, owner), steps |-> Steps(n)]
           L == Len(s)
<1>1. /\ L \in Nat
      /\ Len(new) = IF Steps(n) = {} THEN L ELSE L + 1
      /\ \A t \in 1 .. L : new[t] = s[t]
      /\ Steps(n) # {} => new[L + 1] = call
  BY CallFacts
<1>2. call.node = n /\ call.steps = Steps(n)
  OBVIOUS
<1>3. Steps(n) \subseteq Nat \X Nat /\ n \in Nat
  BY StepTypes, TreeFacts
<1> HIDE DEF new, call, L
<1>4. ASSUME NEW a, NEW j
      PROVE  (\E t \in 1 .. Len(new) : new[t].node = a /\ j \in new[t].steps) <=>
               \/ \E t \in 1 .. L : s[t].node = a /\ j \in s[t].steps
               \/ a = n /\ j \in Steps(n)
  <2>1. ASSUME NEW t \in 1 .. Len(new), new[t].node = a, j \in new[t].steps, t \notin 1 .. L
        PROVE  a = n /\ j \in Steps(n)
    <3>1. t = L + 1 /\ Steps(n) # {}
      BY <1>1, <2>1
    <3> QED
      BY <1>1, <1>2, <2>1, <3>1
  <2>2. ASSUME NEW t \in 1 .. L, s[t].node = a, j \in s[t].steps
        PROVE  t \in 1 .. Len(new) /\ new[t].node = a /\ j \in new[t].steps
    BY <1>1, <2>2
  <2>3. ASSUME a = n, j \in Steps(n)
        PROVE  L + 1 \in 1 .. Len(new) /\ new[L + 1].node = a /\ j \in new[L + 1].steps
    BY <1>1, <1>2, <2>3
  <2> QED
    BY <1>1, <2>1, <2>2, <2>3
<1>5. \A x : x \in {n} \X Steps(n) <=>
        x \in Nat \X (Nat \X Nat) /\ x[1] = n /\ x[2] \in Steps(n)
  BY <1>3
<1> QED
  <2>1. ASSUME NEW y \in Nat \X (Nat \X Nat)
        PROVE  y \in Held(new) <=> y \in Held(s) \/ y \in {n} \X Steps(n)
    <3>1. (\E t \in 1 .. Len(new) : new[t].node = y[1] /\ y[2] \in new[t].steps) <=>
            \/ \E t \in 1 .. L : s[t].node = y[1] /\ y[2] \in s[t].steps
            \/ y[1] = n /\ y[2] \in Steps(n)
      BY <1>4
    <3>2. y \in Held(new) <=>
            \E t \in 1 .. Len(new) : new[t].node = y[1] /\ y[2] \in new[t].steps
      BY <2>1 DEF Held
    <3>3. y \in Held(s) <=> \E t \in 1 .. L : s[t].node = y[1] /\ y[2] \in s[t].steps
      BY <2>1 DEF Held, L
    <3> QED
      BY <1>5, <2>1, <3>1, <3>2, <3>3
  <2>2. Held(new) \subseteq Nat \X (Nat \X Nat) /\ Held(s) \subseteq Nat \X (Nat \X Nat)
        /\ {n} \X Steps(n) \subseteq Nat \X (Nat \X Nat)
    BY <1>5 DEF Held
  <2>3. Held(new) = Held(s) \cup ({n} \X Steps(n))
    BY <2>1, <2>2
  <2> QED
    BY <2>3 DEF new

\* With the step at hand taken, what is left of the nodes around is as before, and
\* the same goes for the child it visits.
LEMMA TrailFacts ==
  ASSUME IsTree(tree), NEW H, NEW x, NEW i, Cursor(H, x, i)
  PROVE  /\ Trail(H \ {<<x, i>>}, x)
         /\ \A c \in Nodes \ {1} : Visits(i, c) /\ tree[c].up = x => Trail(H \ {<<x, i>>}, c)
<1> DEFINE G == H \ {<<x, i>>}
<1>1. x \in Nodes /\ i \in Steps(x) /\ ~ Later(i, i)
  BY StepTypes DEF Cursor
<1>2. ASSUME NEW b \in tree[x].path \ {1}
      PROVE  \E h : Visits(h, b) /\
               \A j \in Steps(tree[b].up) : <<tree[b].up, j>> \in G <=> Later(j, h)
  <2>1. IsToward(b, tree[b].up, x)
    BY <1>2 DEF IsToward
  <2>2. tree[b].up # x
    BY <1>1, <2>1, TowardFacts
  <2>3. PICK h : Visits(h, b) /\
               \A j \in Steps(tree[b].up) : <<tree[b].up, j>> \in H <=> Later(j, h)
    BY <1>2 DEF Cursor, Trail
  <2>4. \A j : <<tree[b].up, j>> \in G <=> <<tree[b].up, j>> \in H
    BY <2>2
  <2> QED
    BY <2>3, <2>4
<1> HIDE DEF G
<1>3. Trail(G, x)
  BY <1>2 DEF Trail
<1>4. ASSUME NEW c \in Nodes \ {1}, Visits(i, c), tree[c].up = x PROVE Trail(G, c)
  <2>1. tree[c].path = tree[x].path \cup {c}
    BY <1>4, RoleFacts
  <2>2. \A j \in Steps(x) : <<x, j>> \in G <=> Later(j, i)
    <3>1. \A j \in Steps(x) : <<x, j>> \in G <=> (j = i \/ Later(j, i)) /\ j # i
      BY DEF Cursor, G
    <3> QED
      BY <1>1, <3>1
  <2> QED
    BY <1>2, <1>4, <2>1, <2>2 DEF Trail
<1> QED
  BY <1>3, <1>4 DEF G

\* What is left of the walk is in order,
LEMMA LeftWalking ==
  ASSUME IsTree(tree), Calls(todo), Walking(todo), todo # <<>>
  PROVE  /\ Walking(Left) /\ Calls(Left)
         /\ \A t \in 1 .. Len(Left) : Left[t].node \in tree[todo[Len(todo)].node].path
<1> DEFINE L == Len(todo)
           x == todo[L].node
           rest == todo[L].steps \ {At}
<1>1. /\ todo \in Seq(Frames) /\ L \in Nat /\ L >= 1
      /\ \A t \in 1 .. L : Sound(todo[t]) /\ Rest(todo[t]) /\ todo[t].node \in Nodes
  BY DEF Calls, Walking, Sound
<1>2. /\ Len(Left) = IF rest = {} THEN L - 1 ELSE L
      /\ \A t \in 1 .. Len(Left) : /\ Left[t].node = todo[t].node
                                   /\ Left[t].steps = IF t = L THEN rest ELSE todo[t].steps
      /\ Left \in Seq(Frames)
  BY <1>1, LeftFacts
<1>3. Cursor(Held(todo), x, At)
  BY CursorFacts
<1>4. Calls(Left)
  BY <1>1, <1>2, LeftSound DEF Calls
<1> HIDE DEF L
<1>5. \A t \in 1 .. Len(Left) : t \in 1 .. L
  BY <1>1, <1>2
<1>6. Nested(Left)
  BY <1>1, <1>2, <1>5 DEF Walking, Nested, L
<1>7. ASSUME NEW t \in 1 .. Len(Left) PROVE Rest(Left[t])
  <2>1. CASE t # L
    BY <1>1, <1>2, <1>5, <2>1 DEF Rest
  <2>2. CASE t = L
    <3>1. Left[t].steps = rest /\ Left[t].node = x
      BY <1>2, <2>2
    <3>2. ASSUME NEW j \in rest, NEW k \in Steps(x), Later(k, j) PROVE k \in rest
      <4>1. k \in todo[L].steps
        BY <1>1, <3>2 DEF Rest
      <4>2. j \in Steps(x) /\ At \in Steps(x) /\ (j = At \/ Later(j, At)) /\ ~ Later(At, At)
        <5>1. j \in Steps(x)
          BY <1>1, <3>2 DEF Sound
        <5>2. <<x, j>> \in Held(todo)
          <6>1. todo[L] \in Frames
            BY <1>1, ElementOfSeq DEF L
          <6>2. x \in Nat /\ j \in Nat \X Nat
            BY <3>2, <6>1 DEF Frames
          <6> QED
            BY <1>1, <3>2, <6>2 DEF Held, L
        <5> QED
          BY <1>1, <1>3, <5>1, <5>2, StepTypes DEF Cursor
      <4>3. ASSUME k = At PROVE FALSE
        <5>1. Later(At, j) /\ (j = At \/ Later(j, At))
          BY <3>2, <4>2, <4>3
        <5>2. At[1] \in Nat /\ At[2] \in Nat /\ j[1] \in Nat /\ j[2] \in Nat
          BY <1>1, <4>2, StepTypes
        <5> QED
          BY <4>2, <5>1, <5>2 DEF Later
      <4> QED
        BY <4>1, <4>3
    <3> HIDE DEF rest, x
    <3> QED
      BY <3>1, <3>2 DEF Rest
  <2> QED
    BY <2>1, <2>2
<1>8. ASSUME NEW t \in 1 .. Len(Left) PROVE Left[t].node \in tree[x].path
  <2>1. t \in 1 .. L /\ Left[t].node = todo[t].node
    BY <1>2, <1>5
  <2>2. CASE t = L
    BY <1>1, <2>1, <2>2, TreeFacts DEF Placed
  <2>3. CASE t # L
    <3>1. t < L /\ L \in 1 .. L
      BY <1>1, <2>1, <2>3
    <3> QED
      BY <2>1, <3>1 DEF Walking, Nested, L
  <2> QED
    BY <2>2, <2>3
<1>9. ASSUME Left # <<>> PROVE Trail(Held(Left), Left[Len(Left)].node)
  <2>1. Len(Left) \in Nat /\ Len(Left) >= 1
    BY <1>2, <1>9
  <2>2. Left[Len(Left)].node \in tree[x].path
    BY <1>8, <2>1
  <2>3. tree[Left[Len(Left)].node].path \subseteq tree[x].path
    BY <1>1, <2>2, PathOrder DEF L
  <2>4. Held(Left) = Held(todo) \ {<<x, At>>}
    BY HeldLeft DEF Walking, L
  <2>5. Trail(Held(Left), x)
    BY <1>3, <2>4, TrailFacts
  <2> HIDE DEF x
  <2> QED
    BY <2>3, <2>5 DEF Trail
<1> QED
  BY <1>4, <1>6, <1>7, <1>8, <1>9 DEF Walking, L

\* and stays so with a call for the child at hand.
LEMMA CallWalking ==
  ASSUME IsTree(tree), Calls(todo), Walking(todo), todo # <<>>,
         Child \in Nodes, Child # 1, tree[Child].up = todo[Len(todo)].node,
         Visits(At, Child), NEW owner \in Nodes
  PROVE  Walking(Left \o Call(Child, owner))
<1> DEFINE x == todo[Len(todo)].node
           c == Child
           new == Left \o Call(c, owner)
           call == [node |-> c, owner |-> Owner(c, owner), steps |-> Steps(c)]
           K == Len(Left)
<1>1. /\ Walking(Left) /\ Calls(Left)
      /\ \A t \in 1 .. K : Left[t].node \in tree[x].path
  BY LeftWalking
<1>2. Left \in Seq(Frames) /\ K \in Nat /\ \A t \in 1 .. K : Left[t].node \in Nodes
  BY <1>1 DEF Calls, Sound
<1>3. /\ Len(new) = IF Steps(c) = {} THEN K ELSE K + 1
      /\ \A t \in 1 .. K : new[t] = Left[t]
      /\ Steps(c) # {} => new[K + 1] = call
      /\ new \in Seq(Frames)
  BY <1>2, CallFacts
<1>4. call.node = c /\ call.steps = Steps(c)
  OBVIOUS
<1>5. Held(new) = Held(Left) \cup ({c} \X Steps(c))
  BY <1>2, HeldCall
<1>6. Held(Left) = Held(todo) \ {<<x, At>>} /\ Cursor(Held(todo), x, At)
  BY HeldLeft, CursorFacts DEF Walking
<1>7. Trail(Held(Left), c)
  <2>1. c \in Nodes \ {1} /\ Visits(At, c) /\ tree[c].up = x
    OBVIOUS
  <2> HIDE DEF c, x
  <2>2. Trail(Held(todo) \ {<<x, At>>}, c)
    BY <1>6, <2>1, TrailFacts
  <2> QED
    BY <1>6, <2>2
<1>8. tree[c].path = tree[x].path \cup {c} /\ c \notin tree[x].path /\ x \in Nodes
  BY RoleFacts
<1> HIDE DEF x, c, new, call, K
<1>9. CASE Steps(c) = {}
  <2>1. Len(new) = K /\ \A t \in 1 .. K : new[t] = Left[t]
    BY <1>3, <1>9
  <2>2. new = Left
    BY <1>2, <1>3, <2>1, SeqEqual DEF K
  <2> QED
    BY <1>1, <2>2 DEF new, c
<1>10. CASE Steps(c) # {}
  <2>1. Len(new) = K + 1 /\ new[K + 1] = call /\ \A t \in 1 .. K : new[t] = Left[t]
    BY <1>3, <1>10
  <2>2. Nested(new)
    <3>1. Nested(Left)
      BY <1>1 DEF Walking
    <3>2. ASSUME NEW t \in 1 .. Len(new), NEW u \in 1 .. Len(new), t < u
          PROVE  new[t].node \in tree[new[u].node].path /\ new[t].node # new[u].node
      <4>1. t \in 1 .. K /\ new[t] = Left[t]
        BY <1>2, <2>1, <3>2
      <4>2. CASE u = K + 1
        BY <1>1, <1>4, <1>8, <2>1, <4>1, <4>2
      <4>3. CASE u # K + 1
        <5>1. u \in 1 .. K /\ new[u] = Left[u]
          BY <1>2, <2>1, <3>2, <4>3
        <5> QED
          BY <3>1, <3>2, <4>1, <5>1 DEF Nested, K
      <4> QED
        BY <4>2, <4>3
    <3> QED
      BY <3>2 DEF Nested
  <2>3. ASSUME NEW t \in 1 .. Len(new) PROVE Rest(new[t])
    <3>1. CASE t = K + 1
      BY <1>4, <2>1, <3>1 DEF Rest
    <3>2. CASE t # K + 1
      <4>1. t \in 1 .. K /\ new[t] = Left[t]
        BY <1>2, <2>1, <3>2
      <4> QED
        BY <1>1, <4>1 DEF Walking, K
    <3> QED
      BY <3>1, <3>2
  <2>4. Trail(Held(new), c)
    <3>1. ASSUME NEW b \in tree[c].path \ {1} PROVE tree[b].up # c
      <4>1. IsToward(b, tree[b].up, c)
        BY <3>1 DEF IsToward
      <4> QED
        BY <4>1, TowardFacts DEF c
    <3>2. \A b \in tree[c].path \ {1} : \A j :
            <<tree[b].up, j>> \in Held(new) <=> <<tree[b].up, j>> \in Held(Left)
      BY <1>5, <3>1
    <3> QED
      BY <1>7, <3>2 DEF Trail
  <2>5. new[Len(new)].node = c
    BY <1>4, <2>1
  <2> QED
    BY <2>2, <2>3, <2>4, <2>5 DEF Walking, new, c
<1> QED
  BY <1>9, <1>10

\* It is in order at the start.
LEMMA StartWalking ==
  ASSUME IsTree(tree)
  PROVE  /\ Walking(<<>>) /\ Held(<<>>) = {}
         /\ Walking(Call(1, 1)) /\ Held(Call(1, 1)) = {1} \X Steps(1)
<1>1. 1 \in Nodes
  BY TreeFacts
<1>2. <<>> \in Seq(Frames) /\ Len(<<>>) = 0 /\ Walking(<<>>) /\ Held(<<>>) = {}
  BY DEF Walking, Nested, Held
<1>3. <<>> \o Call(1, 1) = Call(1, 1)
  BY DEF Call
<1>4. Held(Call(1, 1)) = {1} \X Steps(1)
  <2>1. \A n \in Nodes : Held(<<>> \o Call(n, n)) = Held(<<>>) \cup ({n} \X Steps(n))
    BY <1>2, HeldCall
  <2> QED
    BY <1>1, <1>2, <1>3, <2>1
<1>5. ASSUME NEW n, n = 1 PROVE Walking(Call(n, n))
  <2> DEFINE call == [node |-> n, owner |-> Owner(n, n), steps |-> Steps(n)]
  <2>1. Call(n, n) = IF Steps(n) = {} THEN <<>> ELSE <<call>>
    BY DEF Call
  <2>2. call.node = n /\ call.steps = Steps(n)
    OBVIOUS
  <2>3. Len(<<call>>) = 1 /\ <<call>>[1] = call /\ <<call>> # <<>>
    OBVIOUS
  <2> HIDE DEF call
  <2>4. tree[n].path = {1}
    BY <1>5 DEF IsTree
  <2>5. CASE Steps(n) = {}
    BY <1>2, <2>1, <2>5
  <2>6. CASE Steps(n) # {}
    <3>1. Call(n, n) = <<call>>
      BY <2>1, <2>6
    <3>2. Nested(<<call>>)
      BY <2>3 DEF Nested
    <3>3. Rest(call)
      BY <2>2 DEF Rest
    <3>4. Trail(Held(<<call>>), n)
      BY <2>4 DEF Trail
    <3> QED
      BY <2>2, <2>3, <3>1, <3>2, <3>3, <3>4 DEF Walking
  <2> QED
    BY <2>5, <2>6
<1> QED
  BY <1>2, <1>4, <1>5

-----------------------------------------------------------------------------
(* What the stack of scopes means *)

\* Step o of node a has opened a scope and the step that closes it is left.
OpenIn(H, a, o) ==
  /\ a \in Nodes /\ o \in Opens(tree[a].kind)
  /\ <<a, <<o, 0>>>> \notin H /\ <<a, <<Match(tree[a].kind, o), 0>>>> \in H

\* The scope that step o of node a opens is the one that d is declared in: for a
\* header's name one of its node's, for a block's one of the node around.
Homed(d, a, o) ==
  /\ Declares(d) /\ d # 1 /\ \E s : Binds(tree[tree[d].up].kind, s, tree[d].role)
  /\ \/ /\ tree[d].role \in Headers /\ a = tree[d].up
        /\ \E s : Binds(tree[a].kind, s, tree[d].role) /\ Within(tree[a].kind, s, o)
     \/ /\ tree[d].role \in Blocks /\ tree[d].up # 1 /\ a = tree[tree[d].up].up
        /\ \E v : Walks(tree[a].kind, v, tree[tree[d].up].role) /\ Within(tree[a].kind, v, o)

\* The step that declares d is left, or the one that visits the node it is of.
Awaited(H, d) ==
  \/ \E i : Binding(i, d) /\ <<tree[d].up, i>> \in H
  \/ /\ tree[d].role \in Blocks
     /\ \E i : Visits(i, tree[d].up) /\ <<tree[tree[d].up].up, i>> \in H

\* A scope opened by p is around one opened by q.
Around(p, q) == p[1] \in tree[q[1]].path /\ (p[1] = q[1] => p[2] < q[2])

\* The scopes on the stack are those that openers opened and have not closed, the
\* outermost first, and the flag of each says that something is declared in it.
Opened(H, flags, openers) ==
  /\ openers \in Seq(Nat \X Nat) /\ Len(openers) = Len(flags)
  /\ \A k \in 1 .. Len(flags) : OpenIn(H, openers[k][1], openers[k][2])
  /\ \A a, o : OpenIn(H, a, o) => \E k \in 1 .. Len(flags) : openers[k] = <<a, o>>
  /\ \A j, k \in 1 .. Len(flags) : j < k => Around(openers[j], openers[k])
  /\ \A k \in 1 .. Len(flags) :
       flags[k] <=> \E d \in Nodes : Homed(d, openers[k][1], openers[k][2]) /\ ~ Awaited(H, d)

Flagged(H, flags) == \E openers \in Seq(Nat \X Nat) : Opened(H, flags, openers)

\* Of two scopes of a plan the one opened later is closed first.
LEMMA NestFacts ==
  \A kind \in Kinds : \A o, p \in Opens(kind) :
    o < p => p < Match(kind, o) /\ Match(kind, p) < Match(kind, o)
<1>1. ASSUME NEW kind, NEW k, NEW closes, Scoped(kind, k, {}, closes) PROVE Opens(kind) = {}
  BY <1>1 DEF Scoped, Opens
<1>2. ASSUME NEW kind, NEW k, NEW q \in Nat, NEW closes, Scoped(kind, k, {q}, closes)
      PROVE  Opens(kind) \subseteq {q}
  BY <1>2 DEF Scoped, Opens
<1>3. Opens("switch") = {1, 4} /\ Match("switch", 1) = 7 /\ Match("switch", 4) = 6
  BY SwitchRow DEF Row, Opens, Match
<1>4. \A kind \in Kinds \ {"switch"} : \E q \in Nat : Opens(kind) \subseteq {q}
  BY <1>1, <1>2, PlanTable, DomainFacts DEF Kinds
<1>5. ASSUME NEW kind \in Kinds, NEW o \in Opens(kind), NEW p \in Opens(kind), o < p
      PROVE  p < Match(kind, o) /\ Match(kind, p) < Match(kind, o)
  <2>1. CASE kind = "switch"
    BY <1>3, <1>5, <2>1
  <2>2. CASE kind # "switch"
    <3>1. PICK q \in Nat : Opens(kind) \subseteq {q}
      BY <1>4, <2>2
    <3>2. o = q /\ p = q
      BY <1>5, <3>1
    <3> QED
      BY <1>5, <3>1, <3>2
  <2> QED
    BY <2>1, <2>2
<1> QED
  BY <1>5

\* A node's steps to open and close a scope, and where they are in the plan.
LEMMA OpensFacts ==
  ASSUME IsTree(tree), NEW a \in Nodes, NEW o \in Opens(tree[a].kind)
  PROVE  LET kind == tree[a].kind
             c == Match(kind, o)
         IN  /\ kind \in Kinds /\ o \in Nat /\ c \in Nat /\ o < c
             /\ <<o, 0>> \in Steps(a) /\ Op(a, <<o, 0>>) = "open"
             /\ <<c, 0>> \in Steps(a) /\ Op(a, <<c, 0>>) = "close"
             /\ \A i \in Steps(a) : i[1] = o => i = <<o, 0>>
             /\ \A i \in Steps(a) : i[1] = c => i = <<c, 0>>
<1> DEFINE kind == tree[a].kind
           c == Match(kind, o)
<1>1. kind \in Kinds /\ Matched(kind)
  BY TreeFacts, PlanFacts DEF Placed
<1>2. o \in DOMAIN Plan(kind) /\ Plan(kind)[o].op = "open" /\ o \in Nat
  BY <1>1 DEF Opens, Matched
<1>3. c \in DOMAIN Plan(kind) /\ Plan(kind)[c].op = "close" /\ c \in Nat /\ o < c
  BY <1>1 DEF Closes, Matched
<1>4. <<o, 0>> \in Steps(a) /\ <<c, 0>> \in Steps(a)
  BY <1>2, <1>3, StepFacts
<1>5. ASSUME NEW i \in Steps(a), NEW s \in {o, c}, i[1] = s PROVE i = <<s, 0>>
  <2>1. i = <<i[1], i[2]>>
    BY StepTypes
  <2>2. <<s, i[2]>> \in Steps(a)
    BY <1>5, <2>1
  <2>3. s \in DOMAIN Plan(kind) /\ Plan(kind)[s].op \in {"open", "close"}
    BY <1>2, <1>3
  <2>4. \A e : <<s, e>> \in Steps(a) <=> e = 0
    BY <2>3, StepFacts
  <2> QED
    BY <1>5, <2>1, <2>2, <2>4
<1> HIDE DEF c, kind
<1>6. Op(a, <<o, 0>>) = "open" /\ Op(a, <<c, 0>>) = "close"
  BY <1>2, <1>3 DEF Op, kind
<1> QED
  BY <1>1, <1>2, <1>3, <1>4, <1>5, <1>6 DEF c, kind

\* Open scopes are around the walk.
LEMMA OpenInFacts ==
  ASSUME IsTree(tree), NEW H, NEW x, NEW i, Cursor(H, x, i), NEW a, NEW o, OpenIn(H, a, o)
  PROVE  /\ a \in tree[x].path /\ a \in Nodes /\ a \in Nat /\ o \in Nat
         /\ a = x => o < i[1] /\ i[1] <= Match(tree[x].kind, o)
<1> DEFINE c == Match(tree[a].kind, o)
<1>1. a \in Nodes /\ o \in Opens(tree[a].kind) /\ <<a, <<o, 0>>>> \notin H /\ <<a, <<c, 0>>>> \in H
  BY DEF OpenIn
<1>2. a \in tree[x].path
  BY <1>1 DEF Cursor
<1>3. ASSUME a = x PROVE o < i[1] /\ i[1] <= c
  <2>1. /\ <<o, 0>> \in Steps(x) /\ <<c, 0>> \in Steps(x) /\ o \in Nat /\ c \in Nat
        /\ i[1] = o => i = <<o, 0>>
    BY <1>1, <1>3, OpensFacts DEF Cursor
  <2>2. i \in Nat \X Nat
    BY StepTypes DEF Cursor
  <2>3. ~ (<<o, 0>> = i \/ Later(<<o, 0>>, i)) /\ (<<c, 0>> = i \/ Later(<<c, 0>>, i))
    BY <1>1, <1>3, <2>1 DEF Cursor
  <2>4. i[1] <= c
    BY <2>1, <2>2, <2>3 DEF Later
  <2>5. ~ (o > i[1]) /\ o # i[1]
    BY <2>1, <2>2, <2>3 DEF Later
  <2> QED
    BY <2>1, <2>2, <2>4, <2>5
<1> QED
  BY <1>1, <1>2, <1>3, OpensFacts, TreeFacts

\* A step that declares or visits is about a child, which is not the file.
LEMMA AboutFacts ==
  ASSUME IsTree(tree), NEW x \in Nodes, NEW i \in Steps(x), Op(x, i) \notin {"open", "close"},
         i[2] # 0
  PROVE  LET c == i[2] IN
         /\ c \in Nodes /\ c # 1 /\ tree[c].up = x
         /\ tree[c].path = tree[x].path \cup {c} /\ c \notin tree[x].path /\ c # x
         /\ Op(x, i) = "declare" => Binding(i, c) /\ Binds(tree[x].kind, i[1], tree[c].role)
         /\ Op(x, i) \in {"visit", "slot", "body"} =>
              Visits(i, c) /\ Walks(tree[x].kind, i[1], tree[c].role)
<1> DEFINE c == i[2]
<1>1. c \in Nodes /\ tree[c].up = x
  BY StepFacts
<1>2. c # 1
  BY <1>1, TreeFacts DEF Placed
<1>3. Op(x, i) = "declare" => Binding(i, c)
  BY <1>1 DEF Binding
<1>4. Op(x, i) \in {"visit", "slot", "body"} => Visits(i, c)
  BY <1>1 DEF Visits
<1> HIDE DEF c
<1>5. tree[c].path = tree[x].path \cup {c} /\ c \notin tree[x].path /\ c # x
  BY <1>1, <1>2, RoleFacts
<1>6. /\ Binding(i, c) => Binds(tree[x].kind, i[1], tree[c].role)
      /\ Visits(i, c) => Walks(tree[x].kind, i[1], tree[c].role)
  BY <1>1, <1>2, VisitFacts
<1> QED
  BY <1>1, <1>2, <1>3, <1>4, <1>5, <1>6 DEF c

\* A name is an identifier.
LEMMA NameFacts == \A kind : \A role \in Names : Holds(kind, role) = {"ident"}
BY DEF Holds, Names

\* What is declared is a declaration, and not the file's.
LEMMA BindingFacts ==
  ASSUME IsTree(tree), NEW d \in Nodes, d # 1, NEW i, Binding(i, d)
  PROVE  /\ Declares(d) /\ tree[d].up # 1
         /\ tree[d].role \in Headers \cup Blocks
         /\ Binds(tree[tree[d].up].kind, i[1], tree[d].role)
<1> DEFINE x == tree[d].up
<1>1. /\ x \in Nodes /\ tree[x].kind \in Kinds
      /\ tree[d].kind \in Holds(tree[x].kind, tree[d].role) \ {"file"}
  BY RoleFacts
<1>2. Binds(tree[x].kind, i[1], tree[d].role)
  BY VisitFacts
<1> HIDE DEF x
<1>3. tree[d].role \in Headers \cup Blocks
  BY <1>1, <1>2, RegularFacts DEF Once
<1>4. tree[d].role \in Names
  BY <1>3 DEF Headers, Blocks, Names
<1>5. tree[d].kind = "ident"
  BY <1>1, <1>4, NameFacts
<1>6. tree[x].kind # "file"
  BY <1>2, FileRow DEF Row
<1>7. x # 1
  BY <1>1, <1>6, TreeFacts DEF Placed
<1>8. tree[x].kind # "functype"
  BY <1>2, FuncTypeRow DEF Row
<1> QED
  BY <1>2, <1>3, <1>4, <1>5, <1>7, <1>8 DEF Declares, x

\* A declaration has one home at most.
LEMMA HomedFacts ==
  ASSUME IsTree(tree), NEW d \in Nodes, NEW a, NEW o, Homed(d, a, o)
  PROVE  /\ d # 1 /\ tree[d].up \in Nodes /\ a \in Nodes
         /\ tree[d].role \in Headers => a = tree[d].up
         /\ tree[d].role \in Blocks =>
              tree[d].up # 1 /\ a = tree[tree[d].up].up /\ a # tree[d].up
         /\ tree[d].role \in Headers \cup Blocks
         /\ \A b, p : Homed(d, b, p) => b = a /\ p = o
<1> DEFINE role == tree[d].role
<1>1. d # 1 /\ tree[d].up \in Nodes /\ tree[tree[d].up].kind \in Kinds
  BY RoleFacts DEF Homed
<1>2. ~ (role \in Headers /\ role \in Blocks)
  BY DEF Headers, Blocks
<1>3. \A kind, s, p, q : Within(kind, s, p) /\ Within(kind, s, q) => p = q
  BY DEF Within
<1>4. ASSUME role \in Headers, NEW b, NEW p, Homed(d, b, p)
      PROVE  b = tree[d].up /\ a = tree[d].up /\ p = o
  <2>1. a = tree[d].up /\ b = tree[d].up
    BY <1>2, <1>4 DEF Homed
  <2>2. PICK s : Binds(tree[a].kind, s, role) /\ Within(tree[a].kind, s, o)
    BY <1>2, <1>4 DEF Homed
  <2>3. PICK t : Binds(tree[b].kind, t, role) /\ Within(tree[b].kind, t, p)
    BY <1>2, <1>4 DEF Homed
  <2>4. s = t
    BY <1>1, <2>1, <2>2, <2>3, RegularFacts DEF Once
  <2> QED
    BY <1>3, <2>1, <2>2, <2>3, <2>4
<1>5. ASSUME role \in Blocks, NEW b, NEW p, Homed(d, b, p)
      PROVE  /\ tree[d].up # 1 /\ a = tree[tree[d].up].up /\ a \in Nodes /\ a # tree[d].up
             /\ b = a /\ p = o
  <2> DEFINE m == tree[d].up
  <2>1. m # 1 /\ a = tree[m].up /\ b = tree[m].up
    BY <1>2, <1>5 DEF Homed
  <2>2. a \in Nodes /\ tree[a].kind \in Kinds /\ a # m
    BY <1>1, <2>1, RoleFacts
  <2>3. PICK s : Walks(tree[a].kind, s, tree[m].role) /\ Within(tree[a].kind, s, o)
    BY <1>2, <1>5 DEF Homed
  <2>4. PICK t : Walks(tree[b].kind, t, tree[m].role) /\ Within(tree[b].kind, t, p)
    BY <1>2, <1>5 DEF Homed
  <2>5. s = t
    BY <2>1, <2>2, <2>3, <2>4, RegularFacts DEF Once
  <2> QED
    BY <1>3, <2>1, <2>2, <2>3, <2>4, <2>5
<1>6. role \in Headers \/ role \in Blocks
  BY DEF Homed
<1>7. Homed(d, a, o)
  OBVIOUS
<1> HIDE DEF role
<1>8. a \in Nodes
  BY <1>1, <1>4, <1>5, <1>6, <1>7
<1> QED
  BY <1>1, <1>2, <1>4, <1>5, <1>6, <1>7, <1>8 DEF role

\* With the same steps left that open and close, the same scopes are open,
LEMMA SameOpen ==
  ASSUME IsTree(tree), NEW H, NEW K,
         \A a \in Nodes : \A j \in Steps(a) :
           Op(a, j) \in {"open", "close"} => (<<a, j>> \in H <=> <<a, j>> \in K)
  PROVE  \A a, o : OpenIn(H, a, o) <=> OpenIn(K, a, o)
<1> SUFFICES ASSUME NEW a, NEW o PROVE OpenIn(H, a, o) <=> OpenIn(K, a, o)
  OBVIOUS
<1>1. CASE ~ (a \in Nodes /\ o \in Opens(tree[a].kind))
  BY <1>1 DEF OpenIn
<1>2. CASE a \in Nodes /\ o \in Opens(tree[a].kind)
  <2> DEFINE c == Match(tree[a].kind, o)
  <2>1. /\ <<o, 0>> \in Steps(a) /\ Op(a, <<o, 0>>) = "open"
        /\ <<c, 0>> \in Steps(a) /\ Op(a, <<c, 0>>) = "close"
    BY <1>2, OpensFacts
  <2> HIDE DEF c
  <2>2. /\ <<a, <<o, 0>>>> \in H <=> <<a, <<o, 0>>>> \in K
        /\ <<a, <<c, 0>>>> \in H <=> <<a, <<c, 0>>>> \in K
    BY <1>2, <2>1
  <2> QED
    BY <2>2 DEF OpenIn, c
<1> QED
  BY <1>1, <1>2

\* and they are flagged alike if the same declarations are awaited in them.
LEMMA SameFlags ==
  ASSUME NEW H, NEW K, NEW flags, NEW openers, Opened(H, flags, openers),
         \A a, o : OpenIn(H, a, o) <=> OpenIn(K, a, o),
         \A d \in Nodes : \A a, o : OpenIn(H, a, o) /\ Homed(d, a, o) =>
           (Awaited(H, d) <=> Awaited(K, d))
  PROVE  Opened(K, flags, openers)
<1>1. \A k \in 1 .. Len(flags) : OpenIn(H, openers[k][1], openers[k][2])
  BY DEF Opened
<1>2. ASSUME NEW k \in 1 .. Len(flags)
      PROVE  (\E d \in Nodes : Homed(d, openers[k][1], openers[k][2]) /\ ~ Awaited(H, d)) <=>
               (\E d \in Nodes : Homed(d, openers[k][1], openers[k][2]) /\ ~ Awaited(K, d))
  BY <1>1
<1> QED
  BY <1>2 DEF Opened

\* Without a step of node x that is about nothing d is awaited as before.
LEMMA StillAwaited ==
  ASSUME IsTree(tree), NEW H, NEW x \in Nodes, NEW i \in Steps(x), NEW d,
         \/ Op(x, i) \in {"open", "close"}
         \/ Op(x, i) = "declare" /\ i[2] # d
  PROVE  Awaited(H \ {<<x, i>>}, d) <=> Awaited(H, d)
<1> DEFINE G == H \ {<<x, i>>}
<1>1. \A j : Binding(j, d) => <<tree[d].up, j>> # <<x, i>>
  BY DEF Binding
<1>2. \A j : Visits(j, tree[d].up) => <<tree[tree[d].up].up, j>> # <<x, i>>
  BY DEF Visits
<1>3. \A y : y # <<x, i>> => (y \in G <=> y \in H)
  OBVIOUS
<1> HIDE DEF G
<1>4. Awaited(G, d) <=> Awaited(H, d)
  BY <1>1, <1>2, <1>3 DEF Awaited
<1> QED
  BY <1>4 DEF G

\* A new scope has no declarations yet.
LEMMA FlagsOpen ==
  ASSUME IsTree(tree), NEW H, NEW x, NEW i, Cursor(H, x, i), Op(x, i) = "open",
         NEW flags \in Seq(BOOLEAN), Flagged(H, flags)
  PROVE  Flagged(H \ {<<x, i>>}, Append(flags, FALSE))
<1> DEFINE G == H \ {<<x, i>>}
           o == i[1]
           c == Match(tree[x].kind, o)
           L == Len(flags)
<1>1. x \in Nodes /\ x \in Nat /\ i \in Steps(x) /\ tree[x].kind \in Kinds
  BY TreeFacts DEF Cursor, Placed
<1>2. o \in Opens(tree[x].kind) /\ o \in Nat
  <2>1. o \in DOMAIN Plan(tree[x].kind)
    BY <1>1, StepFacts
  <2> QED
    BY <1>1, <2>1, StepTypes DEF Opens, Op
<1>3. /\ i = <<o, 0>> /\ <<c, 0>> \in Steps(x) /\ Op(x, <<c, 0>>) = "close" /\ o < c /\ c \in Nat
  BY <1>1, <1>2, OpensFacts
<1>4. <<x, i>> \notin G /\ <<x, <<c, 0>>>> \in G
  <2>1. Later(<<c, 0>>, i)
    BY <1>3 DEF Later
  <2> QED
    BY <1>1, <1>3, <2>1 DEF Cursor
<1>5. PICK openers \in Seq(Nat \X Nat) : Opened(H, flags, openers)
  BY DEF Flagged
<1> DEFINE new == Append(openers, <<x, o>>)
           marks == Append(flags, FALSE)
<1>6. /\ L \in Nat /\ Len(openers) = L /\ new \in Seq(Nat \X Nat)
      /\ Len(new) = L + 1 /\ Len(marks) = L + 1
      /\ \A k \in 1 .. L : new[k] = openers[k] /\ marks[k] = flags[k]
      /\ new[L + 1] = <<x, o>> /\ marks[L + 1] = FALSE
  BY <1>1, <1>2, <1>5 DEF Opened
<1> DEFINE M == 1 .. Len(marks)
           K == 1 .. L
<1>61. /\ \A k \in M : k \in K \/ k = L + 1
       /\ \A j, k \in M : j < k => j \in K
       /\ L + 1 \in M /\ K \subseteq M
       /\ \A k \in K : new[k] = openers[k] /\ marks[k] = flags[k]
  BY <1>6
<1>7. ASSUME NEW a, NEW p PROVE OpenIn(G, a, p) <=> OpenIn(H, a, p) \/ <<a, p>> = <<x, o>>
  <2>1. CASE <<a, p>> = <<x, o>>
    BY <1>1, <1>2, <1>3, <1>4, <2>1 DEF OpenIn
  <2>2. CASE <<a, p>> # <<x, o>> /\ a \in Nodes /\ p \in Opens(tree[a].kind)
    <3>1. <<a, <<p, 0>>>> # <<x, i>>
      BY <1>3, <2>2
    <3>2. <<a, <<Match(tree[a].kind, p), 0>>>> # <<x, i>>
      BY <2>2, OpensFacts
    <3> QED
      BY <2>2, <3>1, <3>2 DEF OpenIn
  <2>3. CASE <<a, p>> # <<x, o>> /\ ~ (a \in Nodes /\ p \in Opens(tree[a].kind))
    BY <2>3 DEF OpenIn
  <2> QED
    BY <2>1, <2>2, <2>3
<1>8. \A d : Awaited(G, d) <=> Awaited(H, d)
  BY <1>1, StillAwaited
<1>9. ASSUME NEW d \in Nodes, Homed(d, x, o) PROVE Awaited(G, d)
  <2> DEFINE m == tree[d].up
  <2>1. d # 1 /\ m \in Nodes
    BY <1>9, HomedFacts
  <2>3. CASE tree[d].role \in Headers
    <3>1. x = m
      BY <1>9, <2>3, HomedFacts
    <3>2. PICK s : Binds(tree[x].kind, s, tree[d].role) /\ Within(tree[x].kind, s, o)
      BY <1>9, <2>3 DEF Homed, Headers, Blocks
    <3>3. Binding(<<s, d>>, d)
      BY <2>1, <3>1, <3>2, VisitFacts
    <3>4. <<s, d>> \in Steps(x) /\ s \in Nat /\ o < s
      BY <1>1, <3>1, <3>2, <3>3, StepTypes DEF Within, Binding
    <3>5. Later(<<s, d>>, i) /\ <<s, d>> # i
      BY <1>2, <1>3, <3>4 DEF Later
    <3>6. <<x, <<s, d>>>> \in G
      BY <3>4, <3>5 DEF Cursor
    <3> QED
      BY <3>1, <3>3, <3>6 DEF Awaited
  <2>4. CASE tree[d].role \in Blocks
    <3>1. x = tree[m].up /\ m # 1
      BY <1>9, <2>4, HomedFacts
    <3>2. PICK s : Walks(tree[x].kind, s, tree[m].role) /\ Within(tree[x].kind, s, o)
      BY <1>9, <2>4 DEF Homed, Headers, Blocks
    <3>3. Visits(<<s, m>>, m)
      BY <2>1, <3>1, <3>2, VisitFacts
    <3>4. <<s, m>> \in Steps(x) /\ s \in Nat /\ o < s
      BY <1>1, <3>1, <3>2, <3>3, StepTypes DEF Within, Visits
    <3>5. Later(<<s, m>>, i) /\ <<s, m>> # i
      BY <1>2, <1>3, <3>4 DEF Later
    <3>6. <<x, <<s, m>>>> \in G
      BY <3>4, <3>5 DEF Cursor
    <3> QED
      BY <2>4, <3>1, <3>3, <3>6 DEF Awaited
  <2> QED
    BY <1>9, <2>3, <2>4, HomedFacts
<1>10. Opened(G, marks, new)
  <2> HIDE DEF G, o, new, marks, L, K, M
  <2>1. \A k \in M : OpenIn(G, new[k][1], new[k][2])
    <3>1. \A k \in K : OpenIn(G, new[k][1], new[k][2])
      BY <1>5, <1>6, <1>7 DEF Opened, L, K
    <3>2. OpenIn(G, new[L + 1][1], new[L + 1][2])
      BY <1>6, <1>7
    <3> QED
      BY <1>61, <3>1, <3>2
  <2>2. ASSUME NEW a, NEW p, OpenIn(G, a, p) PROVE \E k \in M : new[k] = <<a, p>>
    <3>1. CASE OpenIn(H, a, p)
      <4>1. PICK k \in K : openers[k] = <<a, p>>
        BY <1>5, <3>1 DEF Opened, L, K
      <4> QED
        BY <1>6, <1>61, <4>1
    <3>2. CASE <<a, p>> = <<x, o>>
      <4>1. L + 1 \in M /\ new[L + 1] = <<a, p>>
        BY <1>6, <1>61, <3>2
      <4> QED
        BY <4>1
    <3> QED
      BY <1>7, <2>2, <3>1, <3>2
  <2>3. ASSUME NEW j \in M, NEW k \in M, j < k
        PROVE  Around(new[j], new[k])
    <3>1. j \in K /\ new[j] = openers[j]
      BY <1>6, <1>61, <2>3
    <3>2. CASE k = L + 1
      <4>1. OpenIn(H, openers[j][1], openers[j][2])
        BY <1>5, <3>1 DEF Opened, L, K
      <4>2. openers[j][1] \in tree[x].path /\ (openers[j][1] = x => openers[j][2] < o)
        BY <4>1, OpenInFacts DEF o
      <4> QED
        BY <1>6, <3>1, <3>2, <4>2 DEF Around
    <3>3. CASE k # L + 1
      <4>1. k \in K /\ new[k] = openers[k]
        BY <1>6, <1>61, <2>3, <3>3
      <4> QED
        BY <1>5, <2>3, <3>1, <4>1 DEF Opened, L, K
    <3> QED
      BY <3>2, <3>3
  <2>4. ASSUME NEW k \in M
        PROVE  marks[k] <=> \E d \in Nodes : Homed(d, new[k][1], new[k][2]) /\ ~ Awaited(G, d)
    <3>1. CASE k = L + 1
      <4>1. ~ marks[k] /\ new[k][1] = x /\ new[k][2] = o
        BY <1>6, <3>1
      <4> QED
        BY <1>9, <4>1
    <3>2. CASE k # L + 1
      <4>1. k \in K /\ new[k] = openers[k] /\ marks[k] = flags[k]
        BY <1>6, <1>61, <2>4, <3>2
      <4>2. flags[k] <=>
              \E d \in Nodes : Homed(d, openers[k][1], openers[k][2]) /\ ~ Awaited(H, d)
        BY <1>5, <4>1 DEF Opened, L, K
      <4> QED
        BY <1>8, <4>1, <4>2
    <3> QED
      BY <3>1, <3>2
  <2> QED
    BY <1>6, <2>1, <2>2, <2>3, <2>4 DEF Opened, M
<1> QED
  BY <1>6, <1>10 DEF Flagged

\* An open scope that no other is inside.
Innermost(H, a, o) ==
  /\ OpenIn(H, a, o)
  /\ \A b, p : OpenIn(H, b, p) => ~ Around(<<a, o>>, <<b, p>>)

\* Place n of a sequence is the only one for p.
OnlyAt(s, n, p) == s[n] = p /\ n \in 1 .. n /\ \A k \in 1 .. n : s[k] = p => k = n

\* It is the last of the stack, and no other place of the stack is for it.
LEMMA LastOpener ==
  ASSUME IsTree(tree), NEW H, NEW flags, Len(flags) \in Nat, NEW openers, Opened(H, flags, openers),
         NEW a, NEW o, Innermost(H, a, o)
  PROVE  OnlyAt(openers, Len(flags), <<a, o>>)
<1> DEFINE L == Len(flags)
<1>1. /\ L \in Nat /\ OpenIn(H, a, o)
      /\ \A b, p : OpenIn(H, b, p) => ~ Around(<<a, o>>, <<b, p>>)
  BY DEF Innermost
<1>2. \A k \in 1 .. L : OpenIn(H, openers[k][1], openers[k][2])
                        /\ openers[k] = <<openers[k][1], openers[k][2]>>
  <2>1. openers \in Seq(Nat \X Nat) /\ Len(openers) = L
    BY DEF Opened
  <2>2. \A k \in 1 .. L : openers[k] \in Nat \X Nat
    BY <1>1, <2>1, ElementOfSeq
  <2>3. \A k \in 1 .. L : OpenIn(H, openers[k][1], openers[k][2])
    BY DEF Opened
  <2>4. \A y \in Nat \X Nat : y = <<y[1], y[2]>>
    OBVIOUS
  <2> QED
    BY <2>2, <2>3, <2>4
<1>3. PICK k \in 1 .. L : openers[k] = <<a, o>>
  BY <1>1 DEF Opened
<1>4. ASSUME NEW j \in 1 .. L, openers[j] = <<a, o>>, j # L PROVE FALSE
  <2>1. j \in Nat /\ L \in 1 .. L /\ j < L
    BY <1>1, <1>4
  <2>2. Around(openers[j], openers[L])
    BY <2>1 DEF Opened
  <2> QED
    BY <1>1, <1>2, <1>4, <2>1, <2>2
<1>5. k = L
  BY <1>3, <1>4
<1> QED
  BY <1>3, <1>4, <1>5 DEF OnlyAt

\* Of two nodes that are in each other there is one.
LEMMA Antisymmetry ==
  ASSUME IsTree(tree), NEW a \in Nodes, NEW b \in Nodes,
         a \in tree[b].path, b \in tree[a].path
  PROVE  a = b
<1>1. a \in Nat /\ b \in Nat /\ tree[a].path \subseteq 1 .. a /\ tree[b].path \subseteq 1 .. b
  BY PathFacts, TreeFacts
<1>2. a <= b /\ b <= a
  BY <1>1
<1> QED
  BY <1>1, <1>2

\* The scope closed is the last one, and its declarations go with it.
LEMMA FlagsClose ==
  ASSUME IsTree(tree), NEW H, NEW x, NEW i, Cursor(H, x, i), Op(x, i) = "close",
         NEW flags \in Seq(BOOLEAN), Flagged(H, flags)
  PROVE  flags # <<>> /\ Flagged(H \ {<<x, i>>}, Front(flags))
<1> DEFINE G == H \ {<<x, i>>}
           L == Len(flags)
           kind == tree[x].kind
<1>1. x \in Nodes /\ x \in Nat /\ i \in Steps(x) /\ kind \in Kinds /\ Matched(kind)
      /\ x \in tree[x].path
  BY TreeFacts, PlanFacts DEF Cursor, Placed
<1>2. i[1] \in Closes(kind)
  <2>1. i[1] \in DOMAIN Plan(kind)
    BY <1>1, StepFacts
  <2> QED
    BY <1>1, <2>1 DEF Closes, Op
<1>3. PICK o \in Opens(kind) : Match(kind, o) = i[1]
  BY <1>1, <1>2 DEF Matched
<1>4. /\ o \in Nat /\ i[1] \in Nat /\ o < i[1] /\ <<o, 0>> \in Steps(x) /\ i = <<i[1], 0>>
      /\ Op(x, <<o, 0>>) = "open"
  <2>1. \A j \in Steps(x) : j[1] = Match(kind, o) => j = <<Match(kind, o), 0>>
    BY <1>1, OpensFacts
  <2>2. o \in Nat /\ Match(kind, o) \in Nat /\ o < Match(kind, o) /\ <<o, 0>> \in Steps(x)
        /\ Op(x, <<o, 0>>) = "open"
    BY <1>1, OpensFacts
  <2>3. i = <<i[1], 0>>
    BY <1>1, <1>3, <2>1
  <2> QED
    BY <1>3, <2>2, <2>3
<1>5. OpenIn(H, x, o)
  <2>1. <<x, i>> \in H
    BY <1>1 DEF Cursor
  <2>2. <<x, <<o, 0>>>> \notin H
    BY <1>4 DEF Cursor, Later
  <2> QED
    BY <1>1, <1>3, <1>4, <2>1, <2>2 DEF OpenIn
<1>6. ASSUME NEW b, NEW p, OpenIn(H, b, p), Around(<<x, o>>, <<b, p>>) PROVE FALSE
  <2>1. b \in tree[x].path /\ b \in Nodes /\ p \in Nat /\ p \in Opens(tree[b].kind)
    BY <1>6, OpenInFacts DEF OpenIn
  <2>2. x \in tree[b].path /\ (x = b => o < p)
    BY <1>6 DEF Around
  <2>3. b = x
    BY <1>1, <2>1, <2>2, Antisymmetry
  <2>4. o < p /\ i[1] <= Match(kind, p)
    BY <1>6, <2>2, <2>3, OpenInFacts
  <2>5. p \in Opens(kind) /\ Match(kind, p) \in Nat
    BY <1>1, <2>1, <2>3, OpensFacts
  <2>6. Match(kind, p) < i[1]
    BY <1>1, <1>3, <2>4, <2>5, NestFacts
  <2> QED
    BY <1>4, <2>4, <2>5, <2>6
<1>7. PICK openers \in Seq(Nat \X Nat) : Opened(H, flags, openers)
  BY DEF Flagged
<1>8. /\ L \in Nat /\ flags # <<>> /\ L \in 1 .. L /\ openers[L] = <<x, o>>
      /\ \A k \in 1 .. L : openers[k] = <<x, o>> => k = L
  <2>1. \A b, p : OpenIn(H, b, p) => ~ Around(<<x, o>>, <<b, p>>)
    BY <1>6
  <2>2. Innermost(H, x, o)
    BY <1>5, <2>1 DEF Innermost
  <2>3. L \in Nat /\ (flags = <<>> => L = 0)
    OBVIOUS
  <2>4. OnlyAt(openers, L, <<x, o>>)
    BY <1>7, <2>2, <2>3, LastOpener
  <2> QED
    BY <2>3, <2>4 DEF OnlyAt
<1>9. ASSUME NEW a, NEW p
      PROVE  OpenIn(G, a, p) <=> OpenIn(H, a, p) /\ <<a, p>> # <<x, o>>
  <2>1. CASE <<a, p>> = <<x, o>>
    BY <1>3, <1>4, <2>1 DEF OpenIn
  <2>2. CASE <<a, p>> # <<x, o>> /\ a \in Nodes /\ p \in Opens(tree[a].kind)
    <3>1. <<a, <<p, 0>>>> # <<x, i>>
      BY <2>2, OpensFacts
    <3>2. <<a, <<Match(tree[a].kind, p), 0>>>> # <<x, i>>
      BY <1>1, <1>3, <1>4, <2>2 DEF Matched
    <3> QED
      BY <2>2, <3>1, <3>2 DEF OpenIn
  <2>3. CASE ~ (a \in Nodes /\ p \in Opens(tree[a].kind))
    BY <2>3 DEF OpenIn
  <2> QED
    BY <2>1, <2>2, <2>3
<1>10. \A d : Awaited(G, d) <=> Awaited(H, d)
  BY <1>1, StillAwaited
<1> DEFINE rest == Front(openers)
           marks == Front(flags)
           K == 1 .. Len(marks)
<1>11. openers # <<>> /\ Len(openers) = L
  BY <1>7, <1>8 DEF Opened
<1>12. /\ rest \in Seq(Nat \X Nat) /\ Len(rest) = L - 1 /\ Len(marks) = L - 1
       /\ \A k \in K : k \in 1 .. L /\ k # L /\ rest[k] = openers[k] /\ marks[k] = flags[k]
       /\ \A k \in 1 .. L : k # L => k \in K
  <2>1. rest \in Seq(Nat \X Nat) /\ Len(rest) = L - 1 /\ Len(marks) = L - 1
    BY <1>8, <1>11, FrontFacts
  <2>2. \A k \in K : rest[k] = openers[k] /\ marks[k] = flags[k]
    BY <1>8, <1>11, <2>1 DEF Front
  <2>3. \A k : (k \in K => k \in 1 .. L /\ k # L) /\ (k \in 1 .. L /\ k # L => k \in K)
    BY <1>8, <2>1
  <2> QED
    BY <2>1, <2>2, <2>3
<1> HIDE DEF G, L, rest, marks, K
<1>13. \A k \in K : OpenIn(G, rest[k][1], rest[k][2])
  <2>1. ASSUME NEW k \in K PROVE OpenIn(G, rest[k][1], rest[k][2])
    <3>1. k \in 1 .. L /\ k # L /\ rest[k] = openers[k]
      BY <1>12
    <3>2. openers[k] \in Nat \X Nat
      BY <1>7, <3>1 DEF Opened, L
    <3>3. openers[k] # <<x, o>>
      BY <1>8, <3>1
    <3>4. OpenIn(H, openers[k][1], openers[k][2])
      BY <1>7, <3>1 DEF Opened, L
    <3> QED
      BY <1>9, <3>1, <3>2, <3>3, <3>4
  <2> QED
    BY <2>1
<1>14. ASSUME NEW a, NEW p, OpenIn(G, a, p) PROVE \E k \in K : rest[k] = <<a, p>>
  <2>1. OpenIn(H, a, p) /\ <<a, p>> # <<x, o>>
    BY <1>9, <1>14
  <2>2. PICK k \in 1 .. L : openers[k] = <<a, p>>
    BY <1>7, <2>1 DEF Opened, L
  <2> QED
    BY <1>8, <1>12, <2>1, <2>2
<1>15. \A j, k \in K : j < k => Around(rest[j], rest[k])
  <2>1. \A j, k \in 1 .. L : j < k => Around(openers[j], openers[k])
    BY <1>7 DEF Opened, L
  <2> QED
    BY <1>12, <2>1
<1>16. ASSUME NEW k \in K
       PROVE  marks[k] <=> \E d \in Nodes : Homed(d, rest[k][1], rest[k][2]) /\ ~ Awaited(G, d)
  <2>1. k \in 1 .. L /\ rest[k] = openers[k] /\ marks[k] = flags[k]
    BY <1>12
  <2>2. flags[k] <=> \E d \in Nodes : Homed(d, openers[k][1], openers[k][2]) /\ ~ Awaited(H, d)
    BY <1>7, <2>1 DEF Opened, L
  <2> QED
    BY <1>10, <2>1, <2>2
<1>17. Opened(G, marks, rest)
  BY <1>12, <1>13, <1>14, <1>15, <1>16 DEF Opened, K
<1> QED
  BY <1>8, <1>12, <1>17 DEF Flagged, G, marks, rest

\* What is declared is declared in the last scope, or at the top.
LEMMA InnermostHome ==
  ASSUME IsTree(tree), NEW H, NEW x, NEW i, Cursor(H, x, i), Op(x, i) = "declare", i[2] # 0
  PROVE  \/ \A a, o : ~ OpenIn(H, a, o)
         \/ \E a, o : Innermost(H, a, o) /\ Homed(i[2], a, o)
<1> DEFINE d == i[2]
           kind == tree[x].kind
           role == tree[d].role
           s == i[1]
<1>1. /\ x \in Nodes /\ x \in Nat /\ i \in Steps(x) /\ kind \in Kinds /\ x \in tree[x].path
      /\ i \in Nat \X Nat
  BY TreeFacts, StepTypes DEF Cursor, Placed
<1>2. /\ d \in Nodes /\ d # 1 /\ tree[d].up = x /\ Binding(i, d) /\ Binds(kind, s, role)
      /\ Declares(d) /\ x # 1 /\ role \in Headers \cup Blocks
  BY <1>1, AboutFacts, BindingFacts
<1>3. s \in Nat
  BY <1>1
<1> HIDE DEF d
<1>4. CASE role \in Headers
  <2>1. PICK o : Within(kind, s, o)
    BY <1>1, <1>2, <1>4, HeaderFacts DEF HeaderScope
  <2>2. /\ o \in Opens(kind) /\ o \in Nat /\ o < s /\ s < Match(kind, o) /\ Match(kind, o) \in Nat
        /\ <<o, 0>> \in Steps(x) /\ <<Match(kind, o), 0>> \in Steps(x)
    BY <1>1, <2>1, OpensFacts DEF Within
  <2>3. OpenIn(H, x, o)
    <3>1. <<x, <<o, 0>>>> \notin H
      BY <1>1, <1>3, <2>2 DEF Cursor, Later
    <3>2. <<x, <<Match(kind, o), 0>>>> \in H
      BY <1>1, <1>3, <2>2 DEF Cursor, Later
    <3> QED
      BY <1>1, <2>2, <3>1, <3>2 DEF OpenIn
  <2>4. Homed(d, x, o)
    BY <1>2, <1>4, <2>1 DEF Homed
  <2>5. ASSUME NEW b, NEW p, OpenIn(H, b, p), Around(<<x, o>>, <<b, p>>) PROVE FALSE
    <3>1. b \in tree[x].path /\ b \in Nodes /\ p \in Nat /\ p \in Opens(tree[b].kind)
      BY <2>5, OpenInFacts DEF OpenIn
    <3>2. x \in tree[b].path /\ (x = b => o < p)
      BY <2>5 DEF Around
    <3>3. b = x
      BY <1>1, <3>1, <3>2, Antisymmetry
    <3>4. o < p /\ p < s
      BY <2>5, <3>2, <3>3, OpenInFacts
    <3>5. p = o
      BY <2>1, <3>1, <3>3, <3>4 DEF Within
    <3> QED
      BY <2>2, <3>4, <3>5
  <2> QED
    BY <2>3, <2>4, <2>5 DEF d, Innermost
<1>5. CASE role \in Blocks
  <2> DEFINE a == tree[x].up
  <2>1. kind \in {"typespec", "valuespec", "define"} /\ \A o \in Opens(kind) : s < o
    BY <1>1, <1>2, <1>5, RegularFacts DEF BlockScope
  <2>2. ASSUME NEW p, OpenIn(H, x, p) PROVE FALSE
    <3>1. p \in Opens(kind) /\ p \in Nat /\ p < s
      BY <2>2, OpenInFacts DEF OpenIn
    <3> QED
      BY <1>3, <2>1, <3>1
  <2>3. /\ a \in Nodes /\ tree[a].kind \in Kinds /\ tree[x].path = tree[a].path \cup {x} /\ a # x
        /\ kind \in Holds(tree[a].kind, tree[x].role)
    BY <1>1, <1>2, RoleFacts
  <2>4. CASE a = 1
    <3>1. tree[a].path = {a} /\ tree[a].kind = "file"
      BY <2>4 DEF IsTree
    <3>2. Opens("file") = {}
      BY FileRow DEF Row, Opens
    <3>3. ASSUME NEW b, NEW p, OpenIn(H, b, p) PROVE FALSE
      <4>1. b \in tree[x].path /\ p \in Opens(tree[b].kind)
        BY <3>3, OpenInFacts DEF OpenIn
      <4> QED
        BY <2>2, <2>3, <3>1, <3>2, <3>3, <4>1
    <3> QED
      BY <3>3
  <2>5. CASE a # 1
    <3>1. PICK h : Visits(h, x) /\ \A j \in Steps(a) : <<a, j>> \in H <=> Later(j, h)
      BY <1>1, <1>2 DEF Cursor, Trail
    <3>2. Walks(tree[a].kind, h[1], tree[x].role) /\ h \in Steps(a)
      BY <1>1, <1>2, <3>1, VisitFacts DEF Visits
    <3>3. h \in Nat \X Nat
      BY <2>3, <3>2, StepTypes
    <3>4. tree[a].kind # "file"
      BY <2>3, <2>5, TreeFacts DEF Placed
    <3>5. HoldsOne(tree[a].kind, tree[x].role)
      BY <2>1, <2>3 DEF HoldsOne
    <3>6. PICK o : Within(tree[a].kind, h[1], o)
      BY <2>3, <3>2, <3>4, <3>5, LocalFacts DEF HoldsLocal
    <3>7. LET c == Match(tree[a].kind, o) IN
          /\ o \in Opens(tree[a].kind) /\ o \in Nat /\ o < h[1] /\ h[1] < c /\ c \in Nat
          /\ <<o, 0>> \in Steps(a) /\ <<c, 0>> \in Steps(a)
      BY <2>3, <3>6, OpensFacts DEF Within
    <3>8. OpenIn(H, a, o)
      <4>1. <<a, <<o, 0>>>> \notin H
        BY <3>1, <3>3, <3>7 DEF Later
      <4>2. <<a, <<Match(tree[a].kind, o), 0>>>> \in H
        BY <3>1, <3>3, <3>7 DEF Later
      <4> QED
        BY <2>3, <3>7, <4>1, <4>2 DEF OpenIn
    <3>9. Homed(d, a, o)
      BY <1>2, <1>5, <3>2, <3>6 DEF Homed
    <3>10. ASSUME NEW b, NEW p, OpenIn(H, b, p), Around(<<a, o>>, <<b, p>>) PROVE FALSE
      <4>1. b \in tree[x].path /\ b \in Nodes /\ p \in Nat /\ p \in Opens(tree[b].kind) /\ b # x
        BY <2>2, <3>10, OpenInFacts DEF OpenIn
      <4>2. a \in tree[b].path /\ (a = b => o < p)
        BY <3>10 DEF Around
      <4>3. b = a
        BY <2>3, <4>1, <4>2, Antisymmetry
      <4>4. o < p /\ <<p, 0>> \in Steps(a) /\ Op(a, <<p, 0>>) = "open" /\ <<a, <<p, 0>>>> \notin H
        BY <2>3, <3>10, <4>1, <4>2, <4>3, OpensFacts DEF OpenIn
      <4>5. ~ Later(<<p, 0>>, h)
        BY <3>1, <4>4
      <4>6. p # h[1]
        BY <3>2, <4>4 DEF Walks, Op
      <4>7. p < h[1]
        BY <3>3, <4>1, <4>5, <4>6 DEF Later
      <4>8. p = o
        BY <3>6, <4>1, <4>3, <4>7 DEF Within
      <4> QED
        BY <3>7, <4>4, <4>8
    <3> QED
      BY <3>8, <3>9, <3>10 DEF d, Innermost
  <2> QED
    BY <2>4, <2>5
<1> QED
  BY <1>2, <1>4, <1>5

\* A step that neither opens nor closes a scope leaves the same scopes open, with
\* or without the steps of a child.
LEMMA KeepsOpen ==
  ASSUME IsTree(tree), NEW H, NEW x, NEW i, Cursor(H, x, i), Op(x, i) \notin {"open", "close"}
  PROVE  /\ \A a, o : OpenIn(H, a, o) <=> OpenIn(H \ {<<x, i>>}, a, o)
         /\ \A c \in Nodes : c \notin tree[x].path =>
              \A a, o : OpenIn(H, a, o) <=> OpenIn((H \ {<<x, i>>}) \cup ({c} \X Steps(c)), a, o)
<1> DEFINE G == H \ {<<x, i>>}
<1>1. \A a \in Nodes : \A j \in Steps(a) :
        Op(a, j) \in {"open", "close"} => (<<a, j>> \in H <=> <<a, j>> \in G)
  OBVIOUS
<1>2. \A a, o : OpenIn(H, a, o) <=> OpenIn(G, a, o)
  <2> HIDE DEF G
  <2> QED
    BY <1>1, SameOpen
<1>3. ASSUME NEW c \in Nodes, c \notin tree[x].path, NEW a, NEW o
      PROVE  OpenIn(G, a, o) <=> OpenIn(G \cup ({c} \X Steps(c)), a, o)
  <2> DEFINE K == G \cup ({c} \X Steps(c))
  <2>1. CASE a # c
    <3>1. \A j : <<a, j>> \in K <=> <<a, j>> \in G
      BY <2>1
    <3> HIDE DEF K, G
    <3> QED
      BY <3>1 DEF OpenIn, K
  <2>2. CASE a = c
    <3>1. ~ OpenIn(G, a, o)
      BY <1>2, <1>3, <2>2, OpenInFacts
    <3>2. ASSUME OpenIn(K, a, o) PROVE FALSE
      <4>1. a \in Nodes /\ o \in Opens(tree[a].kind) /\ <<a, <<o, 0>>>> \notin K
        BY <3>2 DEF OpenIn
      <4>2. <<o, 0>> \in Steps(a)
        BY <4>1, OpensFacts
      <4> QED
        BY <2>2, <4>1, <4>2
    <3> QED
      BY <3>1, <3>2
  <2> QED
    BY <2>1, <2>2
<1> HIDE DEF G
<1>4. ASSUME NEW c \in Nodes, c \notin tree[x].path, NEW a, NEW o
      PROVE  OpenIn(H, a, o) <=> OpenIn(G \cup ({c} \X Steps(c)), a, o)
  BY <1>2, <1>3, <1>4
<1> QED
  BY <1>2, <1>4 DEF G

\* A visit changes no flag: the declarations of the child are awaited in its own
\* scopes, which are yet to open, or as those of its node were.
LEMMA FlagsVisit ==
  ASSUME IsTree(tree), NEW H, NEW x, NEW i, Cursor(H, x, i),
         Op(x, i) \in {"visit", "slot", "body"}, i[2] # 0,
         NEW flags, Flagged(H, flags)
  PROVE  Flagged((H \ {<<x, i>>}) \cup ({i[2]} \X Steps(i[2])), flags)
<1> DEFINE c == i[2]
           G == (H \ {<<x, i>>}) \cup ({c} \X Steps(c))
<1>1. x \in Nodes /\ i \in Steps(x) /\ <<x, i>> \in H
  BY DEF Cursor
<1>2. /\ c \in Nodes /\ c # 1 /\ tree[c].up = x /\ c \notin tree[x].path /\ c # x
      /\ Visits(i, c)
  BY <1>1, AboutFacts
<1>3. /\ \A a : a # c => \A j : <<a, j>> \in G <=> <<a, j>> \in H /\ <<a, j>> # <<x, i>>
      /\ \A j \in Steps(c) : <<c, j>> \in G
      /\ \A j : <<c, j>> \notin H
  <2>1. \A j : <<c, j>> \notin H
    BY <1>2 DEF Cursor
  <2>2. ASSUME NEW a, a # c, NEW j PROVE <<a, j>> \in G <=> <<a, j>> \in H /\ <<a, j>> # <<x, i>>
    BY <2>2
  <2>3. ASSUME NEW j \in Steps(c) PROVE <<c, j>> \in G
    <3>1. <<c, j>> \in {c} \X Steps(c)
      OBVIOUS
    <3> QED
      BY <3>1
  <2> QED
    BY <2>1, <2>2, <2>3
<1>4. \A a, o : OpenIn(H, a, o) <=> OpenIn(G, a, o)
  <2>1. Op(x, i) \notin {"open", "close"}
    OBVIOUS
  <2>2. \A e \in Nodes : e \notin tree[x].path =>
          \A a, o : OpenIn(H, a, o) <=> OpenIn((H \ {<<x, i>>}) \cup ({e} \X Steps(e)), a, o)
    BY <2>1, KeepsOpen
  <2> QED
    BY <1>2, <2>2
<1> HIDE DEF G, c
<1>5. ASSUME NEW d \in Nodes, NEW a, NEW o, OpenIn(H, a, o), Homed(d, a, o)
      PROVE  Awaited(H, d) <=> Awaited(G, d)
  <2> DEFINE m == tree[d].up
             u == tree[m].up
  <2>1. /\ a \in tree[x].path /\ a # c /\ d # 1 /\ m \in Nodes
        /\ tree[d].role \in Headers => a = m
        /\ tree[d].role \in Blocks => a = u /\ m # 1
        /\ tree[d].role \in Headers \cup Blocks
    BY <1>2, <1>5, OpenInFacts, HomedFacts
  <2>2. CASE m = c
    <3>1. tree[d].role \in Blocks /\ u = x
      BY <1>2, <2>1, <2>2
    <3>2. Awaited(H, d)
      BY <1>1, <1>2, <2>2, <3>1 DEF Awaited
    <3>3. PICK s : Binds(tree[m].kind, s, tree[d].role)
      BY <1>5 DEF Homed
    <3>4. Binding(<<s, d>>, d)
      BY <2>1, <3>3, VisitFacts
    <3>5. <<s, d>> \in Steps(c)
      BY <2>2, <3>4 DEF Binding
    <3>6. Awaited(G, d)
      BY <1>3, <2>2, <3>4, <3>5 DEF Awaited
    <3> QED
      BY <3>2, <3>6
  <2>3. CASE m # c
    <3>1. \A j : Binding(j, d) => (<<m, j>> \in G <=> <<m, j>> \in H)
      <4>1. \A j : Binding(j, d) => <<m, j>> # <<x, i>>
        BY DEF Binding
      <4> HIDE DEF m
      <4> QED
        BY <1>3, <2>3, <4>1
    <3>2. tree[d].role \in Blocks =>
            \A j : Visits(j, m) => (<<u, j>> \in G <=> <<u, j>> \in H)
      <4>1. \A j : Visits(j, m) => <<u, j>> # <<x, i>>
        BY <2>3 DEF Visits, c
      <4>2. tree[d].role \in Blocks => u # c
        BY <2>1
      <4> HIDE DEF m, u
      <4> QED
        BY <1>3, <4>1, <4>2
    <3> QED
      BY <3>1, <3>2 DEF Awaited
  <2> QED
    BY <2>2, <2>3
<1>6. PICK openers \in Seq(Nat \X Nat) : Opened(H, flags, openers)
  BY DEF Flagged
<1>7. Opened(G, flags, openers)
  <2>1. \A d \in Nodes : \A a, o : OpenIn(H, a, o) /\ Homed(d, a, o) =>
          (Awaited(H, d) <=> Awaited(G, d))
    BY <1>5
  <2> QED
    BY <1>4, <1>6, <2>1, SameFlags
<1> QED
  BY <1>6, <1>7 DEF Flagged, G, c

\* A sequence with its last element set.
LEMMA SetLast ==
  ASSUME NEW S, NEW s \in Seq(S), NEW e \in S, s # <<>>
  PROVE  LET set == [s EXCEPT ![Len(s)] = e] IN
         /\ Len(set) = Len(s) /\ set[Len(s)] = e
         /\ \A k \in 1 .. Len(s) : k # Len(s) => set[k] = s[k]
<1>1. Len(s) \in Nat /\ Len(s) \in 1 .. Len(s)
  OBVIOUS
<1> QED
  BY <1>1, ExceptSeq

\* A declaration sets the flag of the last scope, its home, and of no other.
LEMMA FlagsDeclare ==
  ASSUME IsTree(tree), NEW H, NEW x, NEW i, Cursor(H, x, i), Op(x, i) = "declare", i[2] # 0,
         NEW flags \in Seq(BOOLEAN), Flagged(H, flags)
  PROVE  Flagged(H \ {<<x, i>>},
                 IF flags = <<>> THEN flags ELSE [flags EXCEPT ![Len(flags)] = TRUE])
<1> DEFINE d0 == i[2]
           G == H \ {<<x, i>>}
           L == Len(flags)
           marks == [flags EXCEPT ![L] = TRUE]
<1>1. x \in Nodes /\ i \in Steps(x)
  BY DEF Cursor
<1>2. /\ d0 \in Nodes /\ d0 # 1 /\ tree[d0].up = x /\ Binding(i, d0) /\ x # 1
      /\ Declares(d0)
  BY <1>1, AboutFacts, BindingFacts
<1>3. \A a, o : OpenIn(H, a, o) <=> OpenIn(G, a, o)
  BY KeepsOpen
<1>4. \A d : d # d0 => (Awaited(G, d) <=> Awaited(H, d))
  BY <1>1, StillAwaited
<1>5. ~ Awaited(G, d0)
  <2>1. \A j : Binding(j, d0) => <<x, j>> \notin G
    BY <1>2, VisitFacts
  <2>2. PICK h : Visits(h, x) /\
          \A j \in Steps(tree[x].up) : <<tree[x].up, j>> \in H <=> Later(j, h)
    <3>1. x \in tree[x].path
      BY <1>1, TreeFacts DEF Placed
    <3> QED
      BY <1>2, <3>1 DEF Cursor, Trail
  <2>3. tree[x].up \in Nodes
    BY <1>1, <1>2, RoleFacts
  <2>4. \A j : Visits(j, x) => j = h /\ j \in Steps(tree[x].up) /\ ~ Later(j, j)
    BY <1>1, <1>2, <2>2, <2>3, VisitFacts, StepTypes DEF Visits
  <2>5. \A j : Visits(j, x) => <<tree[x].up, j>> \notin G
    BY <2>2, <2>4
  <2> HIDE DEF G, d0
  <2> QED
    BY <1>2, <2>1, <2>5 DEF Awaited
<1>6. PICK openers \in Seq(Nat \X Nat) : Opened(H, flags, openers)
  BY DEF Flagged
<1>7. L \in Nat /\ (flags # <<>> => L \in 1 .. L)
  OBVIOUS
<1> HIDE DEF G, d0
<1>8. CASE \A a, o : ~ OpenIn(H, a, o)
  <2>1. L \notin 1 .. L
    BY <1>6, <1>8 DEF Opened
  <2>2. flags = <<>>
    BY <1>7, <2>1
  <2>3. Opened(G, flags, openers)
    <3>1. \A d \in Nodes : \A a, o : OpenIn(H, a, o) /\ Homed(d, a, o) =>
            (Awaited(H, d) <=> Awaited(G, d))
      BY <1>8
    <3> QED
      BY <1>3, <1>6, <3>1, SameFlags
  <2> QED
    BY <1>6, <2>2, <2>3 DEF Flagged, G
<1>9. CASE \E a, o : Innermost(H, a, o) /\ Homed(d0, a, o)
  <2>1. PICK a, o : Innermost(H, a, o) /\ Homed(d0, a, o)
    BY <1>9
  <2>2. OnlyAt(openers, L, <<a, o>>)
    BY <1>6, <1>7, <2>1, LastOpener
  <2>3. L \in 1 .. L /\ flags # <<>>
    BY <1>7, <2>2 DEF OnlyAt
  <2>4. Len(marks) = L /\ marks[L] = TRUE /\ \A k \in 1 .. L : k # L => marks[k] = flags[k]
    <3>1. TRUE \in BOOLEAN
      OBVIOUS
    <3>2. Len(marks) = L /\ marks[L] = TRUE /\ \A k \in 1 .. L : k # L => marks[k] = flags[k]
      BY <2>3, <3>1, SetLast
    <3> QED
      BY <3>2
  <2> DEFINE K == 1 .. L
  <2> HIDE DEF marks, L
  <2>5. ASSUME NEW k \in K
        PROVE  marks[k] <=>
                 \E d \in Nodes : Homed(d, openers[k][1], openers[k][2]) /\ ~ Awaited(G, d)
    <3>1. CASE k = L
      <4>1. openers[k][1] = a /\ openers[k][2] = o
        BY <2>2, <3>1 DEF OnlyAt
      <4> QED
        BY <1>2, <1>5, <2>1, <2>4, <3>1, <4>1
    <3>2. CASE k # L
      <4>1. openers[k] # <<a, o>>
        BY <2>2, <2>5, <3>2 DEF OnlyAt
      <4>2. openers[k] \in Nat \X Nat
        <5>1. Len(openers) = L
          BY <1>6 DEF Opened, L
        <5> QED
          BY <1>7, <5>1, ElementOfSeq DEF L
      <4>3. ~ Homed(d0, openers[k][1], openers[k][2])
        BY <1>2, <2>1, <4>1, <4>2, HomedFacts
      <4>4. flags[k] <=> \E d \in Nodes : Homed(d, openers[k][1], openers[k][2]) /\ ~ Awaited(H, d)
        BY <1>6 DEF Opened, L
      <4> QED
        BY <1>4, <2>4, <3>2, <4>3, <4>4
    <3> QED
      BY <3>1, <3>2
  <2>6. Opened(G, marks, openers)
    <3>1. /\ openers \in Seq(Nat \X Nat) /\ Len(openers) = L
          /\ \A k \in K : OpenIn(H, openers[k][1], openers[k][2])
          /\ \A b, p : OpenIn(H, b, p) => \E k \in K : openers[k] = <<b, p>>
          /\ \A j, k \in K : j < k => Around(openers[j], openers[k])
      BY <1>6 DEF Opened, L
    <3>2. 1 .. Len(marks) = K
      BY <2>4
    <3> HIDE DEF K
    <3> QED
      BY <1>3, <2>4, <2>5, <3>1, <3>2 DEF Opened
  <2> QED
    BY <1>6, <2>3, <2>6 DEF Flagged, G, marks, L
<1> QED
  BY <1>8, <1>9, InnermostHome DEF d0

-----------------------------------------------------------------------------
(* Where the walk is, what is in scope *)

\* A name is declared by a step, but for the parameters of a function type, and
\* some roles are of certain kinds only.
Bound(kind) ==
  \A r, role : Places(kind, r, role) =>
    /\ role \in Headers \cup Blocks =>
         (kind = "functype" /\ role = "pname") \/ \E s : Binds(kind, s, role)
    /\ role = "fname" => kind = "func"
    /\ role \in {"iname", "decls"} => kind = "file"
    /\ role = "clauses" => kind \in {"switch", "typeswitch", "select"}
    /\ role \in Closed \cup Names \cup {"decls", "clauses", "stmts", "init", "assign", "comm",
                                        "constraint", "scope"}

LEMMA BoundFacts == \A kind \in Kinds : Bound(kind)
<1> USE DEF Row, Bound, Headers, Blocks, Closed, Names
<1>1. Bound("func")
  BY FuncRow
<1>2. Bound("funclit")
  BY FuncLitRow
<1>3. Bound("typespec")
  BY TypeSpecRow
<1>4. Bound("valuespec")
  BY ValueSpecRow
<1>5. Bound("functype")
  BY FuncTypeRow
<1>6. Bound("fields")
  BY FieldsRow
<1>7. Bound("array")
  BY ArrayRow
<1>8. Bound("map")
  BY MapRow
<1>9. Bound("star")
  BY StarRow
<1>10. Bound("call")
  BY CallRow
<1>11. Bound("assert")
  BY AssertRow
<1>12. Bound("index")
  BY IndexRow
<1>13. Bound("parts")
  BY PartsRow
<1>14. Bound("block")
  BY BlockRow
<1>15. Bound("define")
  BY DefineRow
<1>16. Bound("if")
  BY IfRow
<1>17. Bound("for")
  BY ForRow
<1>18. Bound("range")
  BY RangeRow
<1>19. Bound("switch")
  BY SwitchRow
<1>20. Bound("typeswitch")
  BY TypeSwitchRow
<1>21. Bound("select")
  BY SelectRow
<1>22. Bound("case")
  BY CaseRow
<1>23. Bound("typecase")
  BY TypeCaseRow
<1>24. Bound("comm")
  BY CommRow
<1>25. Bound("ident")
  BY IdentRow
<1>26. Bound("file")
  BY FileRow
<1>27. Bound("rangeover")
  BY RangeOverRow
<1> HIDE DEF Bound, Closed, Names
<1> QED
  BY <1>1, <1>2, <1>3, <1>4, <1>5, <1>6, <1>7, <1>8, <1>9, <1>10, <1>11, <1>12,
     <1>13, <1>14, <1>15, <1>16, <1>17, <1>18, <1>19, <1>20, <1>21, <1>22,
     <1>23, <1>24, <1>25, <1>26, <1>27, DomainFacts DEF Kinds

\* The roles that hold declarations for the block around are walked.
LEMMA HoldsWalked ==
  \A kind, role :
    /\ HoldsOne(kind, role) => role \notin Names \cup {"constraint", "scope", "list"}
    /\ role = "assign" => "typespec" \notin Holds(kind, role)
<1>1. ASSUME NEW kind, NEW role, role \in {"constraint", "scope", "list"}
      PROVE  ~ HoldsOne(kind, role)
  BY <1>1 DEF Holds, Names, HoldsOne, Types, Exprs
<1>2. \A kind : \A role \in Names : ~ HoldsOne(kind, role)
  BY NameFacts DEF HoldsOne
<1>3. \A kind, role : role = "assign" => "typespec" \notin Holds(kind, role)
  BY DEF Holds, Names
<1> QED
  BY <1>1, <1>2, <1>3

\* The walk has reached the identifier n, with the steps of G left.
Reached(G, n) ==
  /\ n \in Nodes /\ n # 1 /\ tree[n].kind = "ident" /\ Trail(G, n)
  /\ \A y \in G : y[1] \in tree[n].path /\ y[1] # n

\* Every node around n has a child that n is in, and is taking the step that visits
\* it.
LEMMA ReachedFacts ==
  ASSUME IsTree(tree), NEW G, NEW n, Reached(G, n), NEW a \in tree[n].path, a # n
  PROVE  /\ a \in Nodes /\ a \in Nat /\ tree[a].kind \in Kinds
         /\ \E b \in Nodes, v \in Nat :
              /\ IsToward(b, a, n) /\ b # 1 /\ tree[b].up = a /\ b \in Nat /\ b <= n
              /\ Visits(<<v, b>>, b) /\ Walks(tree[a].kind, v, tree[b].role)
              /\ \A j \in Steps(a) : <<a, j>> \in G <=> Later(j, <<v, b>>)
<1>1. n \in Nodes /\ Trail(G, n)
  BY DEF Reached
<1>2. PICK b \in tree[n].path : IsToward(b, a, n)
  BY <1>1, TowardFacts
<1>3. a \in Nodes /\ b \in Nodes /\ b # 1 /\ tree[b].up = a /\ a \in Nat /\ b \in Nat /\ b <= n
      /\ tree[a].kind \in Kinds
  BY <1>1, <1>2, TowardFacts, PathFacts, PathOrder, TreeFacts DEF IsToward, Placed
<1>4. PICK i : Visits(i, b) /\ \A j \in Steps(a) : <<a, j>> \in G <=> Later(j, i)
  BY <1>1, <1>2, <1>3 DEF Trail
<1>5. i = <<i[1], b>> /\ Walks(tree[a].kind, i[1], tree[b].role) /\ i \in Steps(a)
  BY <1>3, <1>4, VisitFacts DEF Visits
<1>6. i[1] \in Nat
  BY <1>3, <1>5, StepTypes
<1> QED
  BY <1>2, <1>3, <1>4, <1>5, <1>6

\* Nothing is below an identifier.
LEMMA IdentFacts ==
  ASSUME IsTree(tree), NEW n \in Nodes, n # 1
  PROVE  tree[tree[n].up].kind # "ident"
<1>1. tree[n].role \in ToSet(Roles(tree[tree[n].up].kind))
  BY RoleFacts
<1>2. \A r, role : ~ Places("ident", r, role)
  BY IdentRow DEF Row
<1> QED
  BY <1>1, <1>2, FollowFacts

\* The declarations in scope everywhere.
Global(d) ==
  \/ tree[d].role = "iname"
  \/ tree[d].role \in {"tname", "name"} /\ tree[tree[d].up].up = 1
  \/ tree[d].role = "fname" /\ ~ IsMethod(tree[d].up)

\* A declaration has a step that declares it.
LEMMA DeclaresFacts ==
  ASSUME IsTree(tree), NEW d \in Nodes, Declares(d), tree[d].role \in Headers \cup Blocks
  PROVE  /\ d # 1 /\ tree[d].up \in Nodes /\ tree[tree[d].up].kind \in Kinds /\ tree[d].up < d
         /\ \E s \in Nat : /\ Binds(tree[tree[d].up].kind, s, tree[d].role)
                           /\ Binding(<<s, d>>, d) /\ <<s, d>> \in Steps(tree[d].up)
<1> DEFINE m == tree[d].up
<1>1. d # 1
  BY TreeFacts DEF Declares, Placed
<1>2. m \in Nodes /\ tree[m].kind \in Kinds /\ m < d /\ tree[d].role \in ToSet(Roles(tree[m].kind))
  BY <1>1, RoleFacts
<1>3. PICK r : Places(tree[m].kind, r, tree[d].role)
  BY <1>2, FollowFacts
<1>4. ~ (tree[m].kind = "functype" /\ tree[d].role = "pname")
  BY DEF Declares
<1>5. PICK s : Binds(tree[m].kind, s, tree[d].role)
  BY <1>2, <1>3, <1>4, BoundFacts DEF Bound
<1>6. Binding(<<s, d>>, d)
  BY <1>1, <1>5, VisitFacts
<1>7. <<s, d>> \in Steps(m) /\ s \in Nat
  <2>1. <<s, d>> \in Steps(m)
    BY <1>6 DEF Binding
  <2> QED
    BY <1>2, <2>1, StepTypes
<1> QED
  BY <1>1, <1>2, <1>5, <1>6, <1>7

\* A scope of node a is open if it is opened before the child at hand and closed
\* after it.
LEMMA OpenHere ==
  ASSUME IsTree(tree), NEW G, NEW a \in Nodes, NEW b, NEW v \in Nat,
         \A j \in Steps(a) : <<a, j>> \in G <=> Later(j, <<v, b>>),
         Walks(tree[a].kind, v, tree[b].role),
         NEW o \in Opens(tree[a].kind), v < Match(tree[a].kind, o)
  PROVE  /\ o \in Nat /\ o # v
         /\ o < v => OpenIn(G, a, o)
<1> DEFINE c == Match(tree[a].kind, o)
<1>1. /\ o \in Nat /\ c \in Nat /\ <<o, 0>> \in Steps(a) /\ Op(a, <<o, 0>>) = "open"
      /\ <<c, 0>> \in Steps(a)
  BY OpensFacts
<1>2. o # v
  BY <1>1 DEF Walks, Op
<1>3. Later(<<c, 0>>, <<v, b>>)
  BY <1>1 DEF Later
<1>4. <<a, <<c, 0>>>> \in G
  BY <1>1, <1>3
<1>5. ASSUME o < v PROVE <<a, <<o, 0>>>> \notin G
  <2>1. ~ Later(<<o, 0>>, <<v, b>>)
    BY <1>1, <1>5 DEF Later
  <2> QED
    BY <1>1, <2>1
<1> QED
  BY <1>1, <1>2, <1>4, <1>5 DEF OpenIn

\* A scope that is open and flagged for d.
Shadows(G, d) == \E a, o : OpenIn(G, a, o) /\ Homed(d, a, o) /\ ~ Awaited(G, d)

\* A name of a header is declared in an open scope where it is in scope.
LEMMA HeaderShadows ==
  ASSUME IsTree(tree), NEW G, NEW n, Reached(G, n), NEW d \in Nodes, Declares(d),
         tree[d].role \in Headers
  PROVE  n \in Scope(d) <=> Shadows(G, d)
<1> DEFINE m == tree[d].up
           kind == tree[m].kind
           role == tree[d].role
           inside == IF role \in {"tparam", "rtparam"} THEN In(n, m) ELSE InRole(n, m, {"body"})
<1>1. /\ d # 1 /\ m \in Nodes /\ kind \in Kinds
      /\ n \in Nodes /\ n # 1 /\ tree[n].kind = "ident"
  BY DeclaresFacts DEF Reached
<1>2. PICK s \in Nat : Binds(kind, s, role) /\ Binding(<<s, d>>, d) /\ <<s, d>> \in Steps(m)
  BY DeclaresFacts
<1>3. n \in Scope(d) <=> inside
  <2>1. role \notin {"iname", "tname", "name", "fname", "lhs"}
        /\ role \in {"tparam", "rtparam", "pname", "rname", "key"}
    BY DEF Headers
  <2>2. role \in {"tparam", "rtparam"} => role \notin {"pname", "rname", "key"}
    OBVIOUS
  <2> HIDE DEF role
  <2> QED
    BY <1>1, <2>1, <2>2 DEF Scope, role
<1>4. PICK o : Within(kind, s, o)
  BY <1>1, <1>2, HeaderFacts DEF HeaderScope
<1>5. \A v, r : Walks(kind, v, r) =>
        /\ v < Match(kind, o)
        /\ role \in {"tparam", "rtparam"} => s < v
        /\ role \in {"pname", "rname", "key"} => (s < v <=> r = "body")
  BY <1>1, <1>2, <1>4, HeaderFacts DEF HeaderScope
<1>6. Homed(d, m, o)
  BY <1>1, <1>2, <1>4 DEF Homed
<1>7. Shadows(G, d) <=> OpenIn(G, m, o) /\ <<m, <<s, d>>>> \notin G
  <2>1. Shadows(G, d) <=> OpenIn(G, m, o) /\ ~ Awaited(G, d)
    BY <1>6, HomedFacts DEF Shadows
  <2>2. role \notin Blocks
    BY DEF Headers, Blocks
  <2>3. Awaited(G, d) <=> <<m, <<s, d>>>> \in G
    BY <1>1, <1>2, <2>2, VisitFacts DEF Awaited
  <2> QED
    BY <2>1, <2>3
<1>8. CASE m \notin tree[n].path
  <2>1. ~ inside
    <3>1. ~ In(n, m)
      BY <1>8 DEF In
    <3>2. ASSUME NEW b \in Nodes, tree[b].up = m, In(n, b) PROVE FALSE
      <4>1. b # 1
        BY <1>1, <3>2, TreeFacts DEF Placed
      <4>2. IsToward(b, m, n)
        BY <3>2, <4>1 DEF IsToward, In
      <4> QED
        BY <1>1, <1>8, <4>2, TowardFacts
    <3> QED
      BY <3>1, <3>2 DEF InRole
  <2>2. ~ OpenIn(G, m, o)
    BY <1>8 DEF OpenIn, Reached
  <2> HIDE DEF inside
  <2> QED
    BY <1>3, <1>7, <2>1, <2>2
<1>9. CASE m \in tree[n].path
  <2>1. m # n
    BY <1>1, IdentFacts
  <2>2. PICK b \in Nodes, v \in Nat :
          /\ IsToward(b, m, n) /\ b # 1 /\ tree[b].up = m
          /\ Walks(kind, v, tree[b].role)
          /\ \A j \in Steps(m) : <<m, j>> \in G <=> Later(j, <<v, b>>)
    BY <1>9, <2>1, ReachedFacts
  <2>3. v < Match(kind, o) /\ o \in Opens(kind) /\ o < s
    BY <1>4, <1>5, <2>2 DEF Within
  <2>4. s # v
    BY <1>2, <2>2 DEF Binds, Walks
  <2>5. <<m, <<s, d>>>> \notin G <=> s < v
    BY <1>2, <2>2, <2>4 DEF Later
  <2>6. o \in Nat /\ (o < v => OpenIn(G, m, o))
    BY <1>1, <2>2, <2>3, OpenHere
  <2>7. Shadows(G, d) <=> s < v
    <3>1. s < v => o < v
      BY <2>3, <2>6
    <3> QED
      BY <1>7, <2>5, <2>6, <3>1
  <2>8. InRole(n, m, {"body"}) <=> tree[b].role = "body"
    <3>1. ASSUME NEW c \in Nodes, tree[c].up = m, In(n, c) PROVE c = b
      <4>1. c # 1
        BY <1>1, <3>1, TreeFacts DEF Placed
      <4>2. IsToward(c, m, n)
        BY <3>1, <4>1 DEF IsToward, In
      <4> QED
        BY <1>1, <2>2, <4>2, TowardFacts
    <3>2. In(n, b)
      BY <2>2 DEF In, IsToward
    <3> QED
      BY <2>2, <3>1, <3>2 DEF InRole
  <2>9. inside <=> s < v
    <3>1. CASE role \in {"tparam", "rtparam"}
      BY <1>5, <1>9, <2>2, <3>1 DEF In
    <3>2. CASE role \notin {"tparam", "rtparam"}
      <4>1. role \in {"pname", "rname", "key"}
        BY <3>2 DEF Headers
      <4> QED
        BY <1>5, <2>2, <2>8, <3>2, <4>1
    <3> QED
      BY <3>1, <3>2
  <2> HIDE DEF inside
  <2> QED
    BY <1>3, <2>7, <2>9
<1> QED
  BY <1>8, <1>9

\* The home of a local declaration is in the node around its own.
LEMMA LocalHome ==
  ASSUME IsTree(tree), NEW d \in Nodes, Declares(d), tree[d].role \in Blocks, ~ Global(d)
  PROVE  LET m == tree[d].up
             a == tree[m].up
             kind == tree[a].kind
         IN  /\ d # 1 /\ m \in Nodes /\ m # 1 /\ a \in Nodes /\ a # 1 /\ kind \in Kinds
             /\ kind # "file" /\ HoldsOne(kind, tree[m].role)
             /\ tree[m].kind \in Holds(kind, tree[m].role)
             /\ tree[d].role = "tname" => tree[m].kind = "typespec"
             /\ \E v, o : /\ v \in Nat /\ Walks(kind, v, tree[m].role) /\ Visits(<<v, m>>, m)
                          /\ <<v, m>> \in Steps(a)
                          /\ Within(kind, v, o) /\ Homed(d, a, o)
<1> DEFINE m == tree[d].up
           a == tree[m].up
           kind == tree[a].kind
           role == tree[d].role
<1>1. d # 1 /\ m \in Nodes /\ tree[m].kind \in Kinds
  BY DeclaresFacts
<1>2. PICK s \in Nat : Binds(tree[m].kind, s, role)
  BY DeclaresFacts
<1>3. tree[m].kind \in {"typespec", "valuespec", "define"}
  BY <1>1, <1>2, RegularFacts DEF BlockScope
<1>4. /\ tree[m].kind = "typespec" => role \in {"tname", "tparam"}
      /\ tree[m].kind = "valuespec" => role = "name"
      /\ tree[m].kind = "define" => role = "lhs"
  BY <1>2, TypeSpecRow, ValueSpecRow, DefineRow DEF Row
<1>5. m # 1
  BY <1>3, TreeFacts DEF Placed
<1>6. /\ a \in Nodes /\ kind \in Kinds /\ tree[m].role \in ToSet(Roles(kind))
      /\ tree[m].kind \in Holds(kind, tree[m].role)
  BY <1>1, <1>5, RoleFacts
<1> HIDE DEF m, a, kind, role
<1>7. HoldsOne(kind, tree[m].role)
  BY <1>3, <1>6 DEF HoldsOne
<1>8. PICK r : Places(kind, r, tree[m].role)
  BY <1>6, FollowFacts
<1>9. ~ (role \in {"tname", "name"} /\ a = 1)
  BY DEF Global, m, a, role
<1>10. kind # "file"
  <2>1. ASSUME kind = "file" PROVE FALSE
    <3>1. tree[m].role \in {"iname", "decls"}
      BY <1>8, <2>1, FileRow DEF Row
    <3>2. tree[m].role = "decls"
      BY <1>7, <3>1, HoldsWalked DEF Names
    <3>3. tree[m].kind # "define"
      BY <1>6, <3>2 DEF Holds, Names
    <3>4. a = 1
      BY <1>6, <2>1, TreeFacts DEF Placed, kind
    <3>5. role \in Blocks
      BY DEF role
    <3> QED
      BY <1>3, <1>4, <1>9, <3>3, <3>4, <3>5 DEF Blocks
  <2> QED
    BY <2>1
<1>11. a # 1
  BY <1>6, <1>10, TreeFacts DEF Placed, kind
<1>12. PICK v : Walks(kind, v, tree[m].role)
  BY <1>6, <1>7, <1>8, HoldsWalked, RegularFacts DEF AllWalked
<1>13. Visits(<<v, m>>, m)
  BY <1>1, <1>5, <1>12, VisitFacts DEF kind, a
<1>14. <<v, m>> \in Steps(a) /\ v \in Nat
  <2>1. <<v, m>> \in Steps(a)
    BY <1>13 DEF Visits, a
  <2> QED
    BY <1>6, <2>1, StepTypes
<1>15. PICK o : Within(kind, v, o)
  BY <1>6, <1>7, <1>10, <1>12, LocalFacts DEF HoldsLocal
<1>16. Homed(d, a, o)
  BY <1>1, <1>2, <1>5, <1>12, <1>15 DEF Homed, m, a, kind, role
<1>17. role = "tname" => tree[m].kind = "typespec"
  BY <1>3, <1>4
<1> QED
  BY <1>1, <1>5, <1>6, <1>7, <1>10, <1>11, <1>12, <1>13, <1>14, <1>15, <1>16, <1>17
     DEF m, a, kind, role

\* The child of a node that another node is in is the only one.
LEMMA OneToward ==
  ASSUME IsTree(tree), NEW n \in Nodes, NEW a \in Nodes, NEW b, IsToward(b, a, n)
  PROVE  /\ \A c \in Nodes : tree[c].up = a /\ In(n, c) => c = b
         /\ \A roles : InRole(n, a, roles) <=> b \in Nodes /\ tree[b].role \in roles
<1>1. ASSUME NEW c \in Nodes, tree[c].up = a, In(n, c) PROVE c = b
  <2>1. c # 1
    BY <1>1, TreeFacts DEF Placed
  <2>2. IsToward(c, a, n)
    BY <1>1, <2>1 DEF IsToward, In
  <2> QED
    BY <2>2, TowardFacts
<1>2. In(n, b) /\ tree[b].up = a
  BY DEF IsToward, In
<1> QED
  BY <1>1, <1>2 DEF InRole

\* What is in a child of a node is in the node.
LEMMA InRoleIn ==
  ASSUME IsTree(tree), NEW n \in Nodes, NEW a \in Nodes, NEW roles, InRole(n, a, roles)
  PROVE  In(n, a)
<1>1. PICK c \in Nodes : tree[c].up = a /\ In(n, c)
  BY DEF InRole
<1>2. c # 1
  BY <1>1, TreeFacts DEF Placed
<1>3. IsToward(c, a, n)
  BY <1>1, <1>2 DEF IsToward, In
<1> QED
  BY <1>3, TowardFacts DEF In

\* The block around a statement, by the role of the statement and the node around.
LEMMA BlockCases ==
  ASSUME NEW n, NEW s
  PROVE  LET a == tree[s].up IN
         /\ tree[s].role = "assign" =>
              (InBlockOf(n, s) <=> \E c \in Nodes : /\ tree[c].kind = "typecase" /\ tree[c].up = a
                                                   /\ InRole(n, c, {"stmts"}))
         /\ tree[s].role # "assign" /\ tree[a].kind \in {"case", "typecase", "comm"} =>
              (InBlockOf(n, s) <=> InRole(n, a, {"comm", "stmts"}))
         /\ tree[s].role # "assign" /\ tree[a].kind \notin {"case", "typecase", "comm"} =>
              (InBlockOf(n, s) <=> In(n, a))
BY DEF InBlockOf

\* The block around a statement is in the node around it.
LEMMA BlockIn ==
  ASSUME IsTree(tree), NEW n \in Nodes, NEW m \in Nodes, m # 1, InBlockOf(n, m)
  PROVE  In(n, tree[m].up)
<1> DEFINE a == tree[m].up
<1>1. a \in Nodes
  BY RoleFacts
<1>2. CASE tree[m].role = "assign"
  <2>1. PICK c \in Nodes : tree[c].up = a /\ InRole(n, c, {"stmts"})
    BY <1>2, BlockCases
  <2>2. In(n, c) /\ c # 1
    BY <1>1, <2>1, InRoleIn, TreeFacts DEF Placed
  <2>3. IsToward(c, a, n)
    BY <2>1, <2>2 DEF IsToward, In
  <2> QED
    BY <2>3, TowardFacts DEF In
<1>3. CASE tree[m].role # "assign"
  <2>1. CASE tree[a].kind \in {"case", "typecase", "comm"}
    <3>1. InRole(n, a, {"comm", "stmts"})
      BY <1>3, <2>1, BlockCases
    <3> QED
      BY <1>1, <3>1, InRoleIn
  <2>2. CASE tree[a].kind \notin {"case", "typecase", "comm"}
    BY <1>3, <2>2, BlockCases
  <2> QED
    BY <2>1, <2>2
<1> QED
  BY <1>2, <1>3

\* After a local declaration the rest of the block is in its scope.
LEMMA AfterLocal ==
  ASSUME IsTree(tree), NEW G, NEW n, Reached(G, n), NEW m \in Nodes, m # 1,
         tree[m].up \in tree[n].path, tree[m].up # n, tree[tree[m].up].kind # "file",
         HoldsOne(tree[tree[m].up].kind, tree[m].role),
         NEW v \in Nat, Walks(tree[tree[m].up].kind, v, tree[m].role),
         NEW b \in Nodes, IsToward(b, tree[m].up, n), b # m,
         NEW w \in Nat, Walks(tree[tree[m].up].kind, w, tree[b].role)
  PROVE  /\ n > m <=> v < w \/ (v = w /\ m < b)
         /\ n > m => InBlockOf(n, m)
<1> DEFINE a == tree[m].up
           kind == tree[a].kind
<1>1. /\ n \in Nodes /\ n \in Nat /\ m \in Nat /\ b \in Nat /\ a \in Nat /\ a \in Nodes
      /\ kind \in Kinds /\ b # 1 /\ tree[b].up = a /\ b <= n /\ a < b /\ n # 1
      /\ tree[n].kind = "ident"
  BY RoleFacts, TreeFacts, PathFacts DEF Reached, IsToward, Placed
<1>2. \A x, r : Walks(kind, x, r) =>
        /\ Ordered(kind, tree[m].role, r) => v <= x
        /\ Ordered(kind, r, tree[m].role) => x <= v
        /\ kind \in {"case", "typecase", "comm"} =>
             \A o : Within(kind, v, o) => (o < x <=> r \in {"comm", "stmts"})
        /\ tree[m].role = "assign" /\ v < x => r = "clauses"
  BY <1>1, LocalFacts DEF HoldsLocal
<1>3. PICK o : Within(kind, v, o)
  BY <1>1, LocalFacts DEF HoldsLocal
<1>4. tree[m].role = "assign" =>
        kind = "typeswitch" /\ ~ Ordered(kind, tree[m].role, tree[m].role)
  BY <1>1, LocalFacts DEF HoldsLocal
<1>5. m < b => Ordered(kind, tree[m].role, tree[b].role)
  BY <1>1, SiblingFacts, FollowFacts
<1>6. b < m => Ordered(kind, tree[b].role, tree[m].role)
  BY <1>1, SiblingFacts, FollowFacts
<1>7. m < b <=> v < w \/ (v = w /\ m < b)
  <2>1. m < b => v <= w
    BY <1>2, <1>5
  <2>2. b < m => w <= v
    BY <1>2, <1>6
  <2> QED
    BY <1>1, <2>1, <2>2
<1>8. n > m <=> m < b
  <2>1. ASSUME n > m, b < m PROVE FALSE
    <3>1. b \in tree[n].path
      BY DEF IsToward
    <3>2. b \in tree[m].path
      BY <1>1, <2>1, <3>1, Contiguous
    <3>3. tree[m].path = tree[a].path \cup {m} /\ tree[a].path \subseteq 1 .. a
      BY <1>1, RoleFacts, PathFacts
    <3> QED
      BY <1>1, <3>2, <3>3
  <2> QED
    BY <1>1, <2>1
<1>9. ASSUME n > m PROVE InBlockOf(n, m)
  <2>1. m < b /\ v <= w /\ Ordered(kind, tree[m].role, tree[b].role)
    BY <1>1, <1>5, <1>7, <1>8, <1>9
  <2>2. CASE tree[m].role = "assign"
    <3>1. v # w
      <4>1. v = w => tree[m].role = tree[b].role
        BY DEF Walks
      <4> QED
        BY <1>4, <2>1, <2>2, <4>1
    <3>2. tree[b].role = "clauses" /\ kind = "typeswitch"
      BY <1>2, <1>4, <2>1, <2>2, <3>1
    <3>3. tree[b].kind = "typecase"
      <4>1. tree[b].kind \in Holds(kind, tree[b].role)
        BY <1>1, RoleFacts
      <4>2. Holds("typeswitch", "clauses") = {"typecase"}
        BY DEF Holds, Names
      <4> QED
        BY <3>2, <4>1, <4>2
    <3>4. b \in tree[n].path /\ b # n
      BY <1>1, <3>3 DEF IsToward
    <3>5. PICK c \in Nodes, x \in Nat : IsToward(c, b, n) /\ Walks(tree[b].kind, x, tree[c].role)
      BY <3>4, ReachedFacts
    <3>6. tree[c].role = "stmts"
      BY <3>3, <3>5, TypeCaseRow DEF Row
    <3>7. InRole(n, b, {"stmts"})
      BY <1>1, <3>5, <3>6, OneToward
    <3> QED
      BY <1>1, <2>2, <3>3, <3>7, BlockCases
  <2>3. CASE tree[m].role # "assign" /\ kind \in {"case", "typecase", "comm"}
    <3>1. o < w
      <4>1. o < v /\ o \in Nat
        BY <1>1, <1>3, OpensFacts DEF Within
      <4> QED
        BY <2>1, <4>1
    <3>2. tree[b].role \in {"comm", "stmts"}
      BY <1>2, <1>3, <2>3, <3>1
    <3>3. InRole(n, a, {"comm", "stmts"})
      BY <1>1, <3>2, OneToward
    <3> QED
      BY <2>3, <3>3, BlockCases
  <2>4. CASE tree[m].role # "assign" /\ kind \notin {"case", "typecase", "comm"}
    BY <2>4 , BlockCases DEF In
  <2> QED
    BY <2>2, <2>3, <2>4
<1> QED
  BY <1>1, <1>7, <1>8, <1>9

\* A node is beyond those that its predecessors are beyond.
LEMMA Beyond == \A p, q, r \in Nat : ~ (q < p) /\ q # p /\ q <= r => r > p
OBVIOUS

\* The name of a type comes before its definition.
LEMMA TypeSpecOrder == ~ Ordered("typespec", "def", "tname")
<1>1. \A r, role : Places("typespec", r, role) <=>
        <<r, role>> \in {<<1, "tname">>, <<2, "tparam">>, <<3, "constraint">>, <<4, "def">>}
  BY TypeSpecRow DEF Row
<1> QED
  BY <1>1 DEF Ordered, Lists

\* In a type declaration what is walked is in the block around and after the name.
LEMMA InTypeSpec ==
  ASSUME IsTree(tree), NEW G, NEW n, Reached(G, n), NEW d \in Nodes, d # 1,
         tree[d].role = "tname", tree[tree[d].up].kind = "typespec",
         tree[d].up \in tree[n].path, tree[d].up # 1,
         tree[tree[tree[d].up].up].kind # "file",
         HoldsOne(tree[tree[tree[d].up].up].kind, tree[tree[d].up].role),
         NEW v \in Nat, Walks(tree[tree[tree[d].up].up].kind, v, tree[tree[d].up].role)
  PROVE  n > d /\ InBlockOf(n, tree[d].up)
<1> DEFINE m == tree[d].up
           a == tree[m].up
           kind == tree[a].kind
<1>1. m \in Nodes
  BY RoleFacts
<1>2. /\ tree[d].up = m /\ tree[m].up = a /\ tree[a].kind = kind /\ m # 1
      /\ tree[m].kind = "typespec" /\ m \in tree[n].path /\ kind # "file"
      /\ HoldsOne(kind, tree[m].role) /\ Walks(kind, v, tree[m].role)
  OBVIOUS
<1> HIDE DEF m, a, kind
<1>3. a \in Nodes /\ kind \in Kinds
  BY <1>1, <1>2, RoleFacts
<1>4. n \in Nodes /\ n \in Nat /\ m # n /\ d \in Nat
  <2>1. n \in Nodes /\ tree[n].kind = "ident"
    BY DEF Reached
  <2> QED
    BY <1>2, <2>1, TreeFacts
<1>5. PICK b \in Nodes, w \in Nat :
        /\ IsToward(b, m, n) /\ b # 1 /\ tree[b].up = m /\ b \in Nat /\ b <= n
        /\ Visits(<<w, b>>, b) /\ Walks(tree[m].kind, w, tree[b].role)
        /\ \A j \in Steps(m) : <<m, j>> \in G <=> Later(j, <<w, b>>)
  <2>1. m \in tree[n].path /\ m # n
    BY <1>2, <1>4
  <2> QED
    BY <2>1, ReachedFacts
<1>6. n > d
  <2>1. ~ Ordered("typespec", "def", "tname")
    BY TypeSpecOrder
  <2>2. tree[b].role = "def"
    BY <1>2, <1>5, TypeSpecRow DEF Row
  <2>3. ~ (b < d)
    <3>1. b < d => Follows(tree[m].kind, tree[d].role, tree[b].role)
      BY <1>2, <1>5, SiblingFacts
    <3> QED
      BY <1>2, <2>1, <2>2, <3>1, FollowFacts
  <2>4. b # d
    BY <2>2
  <2>5. b \in Nat /\ b <= n
    BY <1>5
  <2> QED
    BY <1>4, <2>3, <2>4, <2>5, Beyond
<1>7. IsToward(m, a, n)
  BY <1>2 DEF IsToward
<1>8. tree[m].role # "assign"
  <2>1. tree[m].kind \in Holds(kind, tree[m].role)
    BY <1>1, <1>2, RoleFacts
  <2> QED
    BY <1>2, <2>1, HoldsWalked
<1>9. CASE kind \in {"case", "typecase", "comm"}
  <2>1. HoldsLocal(kind)
    BY <1>3, LocalFacts
  <2>2. PICK o : Within(kind, v, o)
    BY <1>2, <2>1 DEF HoldsLocal
  <2>3. o < v
    BY <2>2 DEF Within
  <2>4. \A x, r : Walks(kind, x, r) =>
          \A p : Within(kind, v, p) => (p < x <=> r \in {"comm", "stmts"})
    BY <1>2, <1>9, <2>1 DEF HoldsLocal
  <2>5. tree[m].role \in {"comm", "stmts"}
    BY <1>2, <2>2, <2>3, <2>4
  <2>6. InRole(n, a, {"comm", "stmts"})
    BY <1>1, <1>3, <1>4, <1>7, <2>5, OneToward
  <2> QED
    BY <1>2, <1>6, <1>8, <1>9, <2>6, BlockCases DEF m
<1>10. CASE kind \notin {"case", "typecase", "comm"}
  <2>1. In(n, a)
    BY <1>4, <1>7, TowardFacts DEF In
  <2> QED
    BY <1>2, <1>6, <1>8, <1>10, <2>1, BlockCases DEF m
<1> QED
  BY <1>9, <1>10

\* The scope of a local name is in the block around its declaration.
LEMMA LocalScope ==
  ASSUME NEW d, NEW n \in Nodes, tree[d].role \in {"tname", "name", "lhs"},
         tree[tree[d].up].up # 1
  PROVE  n \in Scope(d) <=>
           IF tree[d].role = "tname" THEN n > d /\ InBlockOf(n, tree[d].up)
           ELSE After(n, tree[d].up) /\ InBlockOf(n, tree[d].up)
<1> DEFINE s == tree[d].up
           role == tree[d].role
           top == tree[s].up = 1
<1>1. ~ top /\ role \in {"tname", "name", "lhs"}
  OBVIOUS
<1>2. n \in Scope(d) <=>
        \/ role = "iname"
        \/ role \in {"tname", "name"} /\ top
        \/ role = "fname" /\ ~ IsMethod(s)
        \/ role \in {"tparam", "rtparam"} /\ In(n, s)
        \/ role \in {"pname", "rname", "key"} /\ InRole(n, s, {"body"})
        \/ role = "tname" /\ ~ top /\ n > d /\ InBlockOf(n, s)
        \/ role \in {"name", "lhs"} /\ ~ top /\ After(n, s) /\ InBlockOf(n, s)
  BY DEF Scope
<1> HIDE DEF s, role, top
<1>3. n \in Scope(d) <=> IF role = "tname" THEN n > d /\ InBlockOf(n, s)
                        ELSE After(n, s) /\ InBlockOf(n, s)
  BY <1>1, <1>2
<1> QED
  BY <1>3 DEF s, role

\* A local name is declared in an open scope where it is in scope.
LEMMA BlockShadows ==
  ASSUME IsTree(tree), NEW G, NEW n, Reached(G, n), NEW d \in Nodes, Declares(d),
         tree[d].role \in Blocks, ~ Global(d)
  PROVE  n \in Scope(d) <=> Shadows(G, d)
<1> DEFINE m == tree[d].up
           a == tree[m].up
           kind == tree[a].kind
           role == tree[d].role
           inside == IF role = "tname" THEN n > d /\ InBlockOf(n, m)
                     ELSE After(n, m) /\ InBlockOf(n, m)
<1>1. /\ d # 1 /\ m \in Nodes /\ m # 1 /\ a \in Nodes /\ a # 1 /\ kind \in Kinds
      /\ kind # "file" /\ HoldsOne(kind, tree[m].role)
      /\ role = "tname" => tree[m].kind = "typespec"
      /\ n \in Nodes /\ n # 1 /\ tree[n].kind = "ident"
  BY LocalHome DEF Reached
<1>2. PICK v, o : /\ v \in Nat /\ Walks(kind, v, tree[m].role) /\ Visits(<<v, m>>, m)
                  /\ <<v, m>> \in Steps(a)
                  /\ Within(kind, v, o) /\ Homed(d, a, o)
  BY LocalHome
<1>3. PICK s \in Nat : /\ Binds(tree[m].kind, s, role)
                       /\ Binding(<<s, d>>, d) /\ <<s, d>> \in Steps(m)
  BY DeclaresFacts
<1>4. /\ n \in Nat /\ d \in Nat /\ m \in Nat /\ a \in Nat /\ m < d /\ a < m /\ m # n
      /\ m \in tree[d].path
  <2>1. m < d /\ a < m /\ tree[d].path = tree[m].path \cup {d} /\ m \in tree[m].path
    BY <1>1, RoleFacts, TreeFacts DEF Placed
  <2>2. m # n
    BY <1>1, IdentFacts
  <2>3. n \in Nat /\ d \in Nat /\ m \in Nat /\ a \in Nat
    BY <1>1, TreeFacts
  <2> QED
    BY <2>1, <2>2, <2>3, Zenon
<1>5. n \in Scope(d) <=> inside
  <2>1. role \in {"tname", "name", "lhs"}
    BY DEF Blocks
  <2>2. tree[m].up # 1
    BY <1>1
  <2> QED
    BY <1>1, <2>1, <2>2, LocalScope
<1>6. Shadows(G, d) <=> OpenIn(G, a, o) /\ <<m, <<s, d>>>> \notin G /\ <<a, <<v, m>>>> \notin G
  <2>1. Shadows(G, d) <=> OpenIn(G, a, o) /\ ~ Awaited(G, d)
    BY <1>2, HomedFacts DEF Shadows
  <2>2. Awaited(G, d) <=> <<m, <<s, d>>>> \in G \/ <<a, <<v, m>>>> \in G
    BY <1>1, <1>2, <1>3, VisitFacts DEF Awaited
  <2> QED
    BY <2>1, <2>2
<1>7. o \in Opens(kind) /\ o < v /\ \A w, r : Walks(kind, w, r) => w < Match(kind, o)
  <2>1. HoldsLocal(kind)
    BY <1>1, LocalFacts
  <2>2. \A w, r : Walks(kind, w, r) => \A p : Within(kind, v, p) => w < Match(kind, p)
    BY <1>1, <1>2, <2>1 DEF HoldsLocal
  <2> QED
    BY <1>2, <2>2 DEF Within
<1> HIDE DEF inside, role, kind, a, m
<1>8. CASE a \notin tree[n].path
  <2>1. ~ inside
    BY <1>1, <1>8, BlockIn DEF inside, In, a
  <2>2. ~ OpenIn(G, a, o)
    BY <1>8 DEF OpenIn, Reached
  <2> QED
    BY <1>5, <1>6, <2>1, <2>2
<1>9. CASE a \in tree[n].path
  <2>1. a # n
    BY <1>1, IdentFacts DEF a
  <2>2. PICK b \in Nodes, w \in Nat :
          /\ IsToward(b, a, n) /\ b # 1 /\ tree[b].up = a /\ b \in Nat /\ b <= n
          /\ Visits(<<w, b>>, b) /\ Walks(kind, w, tree[b].role)
          /\ \A j \in Steps(a) : <<a, j>> \in G <=> Later(j, <<w, b>>)
    BY <1>9, <2>1, ReachedFacts DEF kind
  <2>3. <<a, <<v, m>>>> \notin G <=> v < w \/ (v = w /\ m <= b)
    BY <1>2, <1>4, <2>2 DEF Later
  <2>4. o \in Nat /\ (o < w => OpenIn(G, a, o))
    BY <1>1, <1>7, <2>2, OpenHere DEF kind
  <2>5. CASE b = m
    <3>1. w = v
      <4>1. <<w, m>> = <<v, m>>
        BY <1>1, <1>2, <2>2, <2>5, VisitFacts
      <4> QED
        BY <4>1
    <3>2. OpenIn(G, a, o) /\ <<a, <<v, m>>>> \notin G
      BY <1>4, <1>7, <2>3, <2>4, <2>5, <3>1
    <3>3. m \in tree[n].path
      BY <2>2, <2>5 DEF IsToward
    <3>4. PICK c \in Nodes, x \in Nat :
            /\ IsToward(c, m, n) /\ Walks(tree[m].kind, x, tree[c].role)
            /\ \A j \in Steps(m) : <<m, j>> \in G <=> Later(j, <<x, c>>)
      BY <1>4, <3>3, ReachedFacts
    <3>5. s # x
      BY <1>3, <3>4 DEF Binds, Walks
    <3>6. <<m, <<s, d>>>> \notin G <=> s < x
      BY <1>3, <3>4, <3>5 DEF Later
    <3>7. IF role = "tname" THEN s < x ELSE x < s
      <4>1. role \in Blocks
        BY DEF role
      <4>2. tree[m].kind \in Kinds
        BY <1>1, TreeFacts DEF Placed
      <4> QED
        BY <1>3, <3>4, <4>1, <4>2, RegularFacts DEF BlockScope
    <3>8. Shadows(G, d) <=> role = "tname"
      BY <1>6, <3>2, <3>5, <3>6, <3>7
    <3>9. CASE role = "tname"
      <4>1. n > d /\ InBlockOf(n, m)
        BY <1>1, <1>2, <3>3, <3>9, InTypeSpec DEF role, kind, a, m
      <4> QED
        BY <1>5, <3>8, <3>9, <4>1 DEF inside
    <3>10. CASE role # "tname"
      <4>1. ~ After(n, m)
        BY <3>3 DEF After, In
      <4> QED
        BY <1>5, <3>8, <3>10, <4>1 DEF inside
    <3> QED
      BY <3>9, <3>10
  <2>6. CASE b # m
    <3>1. /\ n > m <=> v < w \/ (v = w /\ m < b)
          /\ n > m => InBlockOf(n, m)
      BY <1>1, <1>2, <1>9, <2>1, <2>2, <2>6, AfterLocal DEF kind, a
    <3>2. m \notin tree[n].path
      <4>1. m \in tree[n].path => IsToward(m, a, n)
        BY <1>1 DEF IsToward, a
      <4> QED
        BY <1>1, <2>2, <2>6, <4>1, TowardFacts
    <3>3. <<m, <<s, d>>>> \notin G
      BY <3>2 DEF Reached
    <3>4. <<a, <<v, m>>>> \notin G <=> n > m
      BY <1>4, <2>2, <2>3, <2>6, <3>1
    <3>5. n > m => o < w
      BY <1>2, <1>7, <2>4, <3>1
    <3>6. Shadows(G, d) <=> n > m
      BY <1>6, <2>4, <3>3, <3>4, <3>5
    <3>7. n > d <=> n > m
      <4>1. ASSUME m <= n, n <= d PROVE FALSE
        BY <1>1, <1>4, <3>2, <4>1, Contiguous
      <4> QED
        BY <1>4, <4>1
    <3>8. After(n, m) <=> n > m
      BY <3>2 DEF After, In
    <3> QED
      BY <1>5, <3>1, <3>6, <3>7, <3>8 DEF inside
  <2> QED
    BY <2>5, <2>6
<1> QED
  BY <1>8, <1>9

\* Whatever is shadowed, is by a name that holds in a scope.
LEMMA HomeKinds ==
  ASSUME IsTree(tree), NEW d \in Nodes, NEW a, NEW o, Homed(d, a, o)
  PROVE  Declares(d) /\ ~ Global(d)
<1>1. Declares(d) /\ d # 1 /\ tree[d].role \in Headers \cup Blocks
  BY HomedFacts DEF Homed
<1>2. tree[d].role \notin {"iname", "fname"}
  BY <1>1 DEF Headers, Blocks
<1>3. CASE tree[d].role \in Headers
  BY <1>1, <1>2, <1>3 DEF Headers, Global
<1>4. CASE tree[d].role \in Blocks
  <2>1. a = tree[tree[d].up].up /\ a \in Nodes
    BY <1>4, HomedFacts
  <2>2. \E s : Within(tree[a].kind, s, o)
    BY DEF Homed
  <2>3. o \in Opens(tree[a].kind)
    BY <2>2 DEF Within
  <2>4. Opens("file") = {}
    BY FileRow DEF Row, Opens
  <2>5. a # 1
    BY <2>1, <2>3, <2>4, TreeFacts DEF Placed
  <2> QED
    BY <1>1, <1>2, <2>1, <2>5 DEF Global
<1> QED
  BY <1>1, <1>3, <1>4

\* A flag is set if and only if the identifier reached is in scope of a name that is
\* not in scope everywhere.
LEMMA FlagsResolve ==
  ASSUME IsTree(tree), NEW G, NEW n, Reached(G, n), NEW flags, Flagged(G, flags)
  PROVE  (\E k \in 1 .. Len(flags) : flags[k]) <=>
           \E d \in Nodes : Declares(d) /\ ~ Global(d) /\ n \in Scope(d)
<1>1. PICK openers : Opened(G, flags, openers)
  BY DEF Flagged
<1>2. (\E k \in 1 .. Len(flags) : flags[k]) <=> \E d \in Nodes : Shadows(G, d)
  <2>1. ASSUME NEW k \in 1 .. Len(flags), flags[k] PROVE \E d \in Nodes : Shadows(G, d)
    <3>1. PICK d \in Nodes : Homed(d, openers[k][1], openers[k][2]) /\ ~ Awaited(G, d)
      BY <1>1, <2>1 DEF Opened
    <3>2. OpenIn(G, openers[k][1], openers[k][2])
      BY <1>1 DEF Opened
    <3> QED
      BY <3>1, <3>2 DEF Shadows
  <2>2. ASSUME NEW d \in Nodes, Shadows(G, d) PROVE \E k \in 1 .. Len(flags) : flags[k]
    <3>1. PICK a, o : OpenIn(G, a, o) /\ Homed(d, a, o) /\ ~ Awaited(G, d)
      BY <2>2 DEF Shadows
    <3>2. PICK k \in 1 .. Len(flags) : openers[k] = <<a, o>>
      BY <1>1, <3>1 DEF Opened
    <3>3. openers[k][1] = a /\ openers[k][2] = o
      BY <3>2
    <3>4. flags[k]
      BY <1>1, <3>1, <3>3 DEF Opened
    <3> QED
      BY <3>4
  <2> QED
    BY <2>1, <2>2
<1>3. ASSUME NEW d \in Nodes
      PROVE  Shadows(G, d) <=> Declares(d) /\ ~ Global(d) /\ n \in Scope(d)
  <2>1. ASSUME Shadows(G, d) PROVE Declares(d) /\ ~ Global(d) /\ n \in Scope(d)
    <3>1. Declares(d) /\ ~ Global(d) /\ tree[d].role \in Headers \cup Blocks
      BY <2>1, HomeKinds, HomedFacts DEF Shadows
    <3> QED
      BY <2>1, <3>1, HeaderShadows, BlockShadows
  <2>2. ASSUME Declares(d), ~ Global(d), n \in Scope(d) PROVE Shadows(G, d)
    <3>1. tree[d].role \in Headers \cup Blocks
      <4>1. tree[d].role \in Names
        BY <2>2 DEF Declares
      <4>2. tree[d].role # "iname"
        BY <2>2 DEF Global
      <4>3. tree[d].role # "fname"
        BY <2>2 DEF Global, Scope
      <4> QED
        BY <4>1, <4>2, <4>3 DEF Names, Headers, Blocks
    <3> QED
      BY <2>2, <3>1, HeaderShadows, BlockShadows
  <2> QED
    BY <2>1, <2>2
<1> QED
  BY <1>2, <1>3

-----------------------------------------------------------------------------
(* The resolver's answer *)

\* Functions are at the top, and so are imports.
LEMMA TopFacts ==
  ASSUME IsTree(tree), NEW n \in Nodes, n # 1
  PROVE  /\ tree[n].role \in {"iname", "decls"} => tree[n].up = 1
         /\ tree[n].kind = "func" => tree[n].up = 1
         /\ tree[n].role = "fname" => tree[tree[n].up].up = 1
<1>1. ASSUME NEW m \in Nodes, m # 1
      PROVE  /\ tree[m].up \in Nodes /\ tree[tree[m].up].kind \in Kinds /\ tree[m].kind # "file"
             /\ tree[m].kind \in Holds(tree[tree[m].up].kind, tree[m].role)
             /\ \E r : Places(tree[tree[m].up].kind, r, tree[m].role)
  BY <1>1, RoleFacts, FollowFacts
<1>2. ASSUME NEW m \in Nodes, m # 1, tree[m].role \in {"iname", "decls"} PROVE tree[m].up = 1
  <2>1. tree[tree[m].up].kind = "file"
    BY <1>1, <1>2, BoundFacts DEF Bound
  <2> QED
    BY <1>1, <1>2, <2>1
<1>3. ASSUME NEW m \in Nodes, m # 1, tree[m].kind = "func" PROVE tree[m].up = 1
  <2>1. \A kind : \A role \in Closed \cup Names \cup {"stmts", "init", "assign", "comm",
                                                   "constraint", "scope"} :
          "func" \notin Holds(kind, role)
    BY DEF Holds, Types, Exprs, Stmts, Closed, Names
  <2>2. tree[m].role # "clauses"
    <3>1. SUFFICES ASSUME tree[m].role = "clauses" PROVE FALSE
      OBVIOUS
    <3>2. tree[tree[m].up].kind \in {"switch", "typeswitch", "select"}
      BY <1>1, <1>3, <3>1, BoundFacts DEF Bound
    <3>3. \A kind \in {"switch", "typeswitch", "select"} : "func" \notin Holds(kind, "clauses")
      BY DEF Holds, Names
    <3> QED
      BY <1>1, <1>3, <3>1, <3>2, <3>3
  <2>3. tree[m].role \in Closed \cup Names \cup {"decls", "clauses", "stmts", "init", "assign",
                                               "comm", "constraint", "scope"}
    BY <1>1, <1>3, BoundFacts DEF Bound
  <2>4. tree[m].role = "decls"
    BY <1>1, <1>3, <2>1, <2>2, <2>3
  <2> QED
    BY <1>2, <1>3, <2>4
<1>4. ASSUME tree[n].role = "fname" PROVE tree[tree[n].up].up = 1
  <2>1. tree[n].up \in Nodes /\ tree[tree[n].up].kind = "func"
    BY <1>1, <1>4, BoundFacts DEF Bound
  <2>2. tree[n].up # 1
    BY <2>1, TreeFacts DEF Placed
  <2> QED
    BY <1>3, <2>1, <2>2
<1> QED
  BY <1>2, <1>3, <1>4

\* The resolver starts out shadowed for the names in scope everywhere.
LEMMA GlobalFacts ==
  ASSUME IsTree(tree)
  PROVE  /\ PackageDeclaresAny \/ FileImportsAny <=> \E d \in Nodes : Declares(d) /\ Global(d)
         /\ \A d, n \in Nodes : Declares(d) /\ Global(d) => n \in Scope(d)
<1>1. ASSUME NEW d \in Nodes, tree[d].kind = "ident" PROVE d # 1
  BY <1>1, TreeFacts DEF Placed
<1>2. ASSUME PackageDeclaresAny PROVE \E d \in Nodes : Declares(d) /\ Global(d)
  <2>1. PICK n \in Nodes : /\ tree[n].kind = "ident" /\ tree[n].role \in {"fname", "tname", "name"}
                           /\ tree[tree[n].up].up = 1
                           /\ ~ (tree[n].role = "fname" /\ IsMethod(tree[n].up))
    BY <1>2 DEF PackageDeclaresAny
  <2> QED
    BY <2>1 DEF Declares, Global, Names
<1>3. ASSUME FileImportsAny PROVE \E d \in Nodes : Declares(d) /\ Global(d)
  <2>1. PICK n \in Nodes : tree[n].up = 1 /\ tree[n].role = "iname"
    BY <1>3 DEF FileImportsAny, Children
  <2>2. n # 1
    BY <2>1, TreeFacts DEF Placed
  <2>3. "iname" \in Names
    BY DEF Names
  <2>4. tree[n].kind = "ident"
    BY <2>1, <2>2, <2>3, RoleFacts, NameFacts
  <2> QED
    BY <2>1, <2>3, <2>4 DEF Declares, Global
<1>4. ASSUME NEW d \in Nodes, Declares(d), Global(d) PROVE PackageDeclaresAny \/ FileImportsAny
  <2>1. tree[d].kind = "ident" /\ d # 1
    BY <1>1, <1>4 DEF Declares
  <2>2. CASE tree[d].role = "iname"
    <3>1. tree[d].up = 1
      BY <2>1, <2>2, TopFacts
    <3> QED
      BY <2>2, <3>1 DEF FileImportsAny, Children
  <2>3. CASE tree[d].role \in {"tname", "name"} /\ tree[tree[d].up].up = 1
    BY <2>1, <2>3 DEF PackageDeclaresAny
  <2>4. CASE tree[d].role = "fname" /\ ~ IsMethod(tree[d].up)
    <3>1. tree[tree[d].up].up = 1
      BY <2>1, <2>4, TopFacts
    <3> QED
      BY <2>1, <2>4, <3>1 DEF PackageDeclaresAny
  <2> QED
    BY <1>4, <2>2, <2>3, <2>4 DEF Global
<1>5. ASSUME NEW d \in Nodes, NEW n \in Nodes, Global(d) PROVE n \in Scope(d)
  BY <1>5 DEF Global, Scope
<1> QED
  BY <1>2, <1>3, <1>4, <1>5

\* An identifier that the walk reaches is taken for the universe any if and only if
\* it is in scope of no declaration.
LEMMA RecordsFacts ==
  ASSUME IsTree(tree), NEW G, NEW n, Reached(G, n), Flagged(G, scopes),
         shadowed <=> PackageDeclaresAny \/ FileImportsAny
  PROVE  Records(n) <=> \A d \in Nodes : Declares(d) => n \notin Scope(d)
<1>1. shadowed <=> \E d \in Nodes : Declares(d) /\ Global(d)
  BY GlobalFacts
<1>2. (\E k \in 1 .. Len(scopes) : scopes[k]) <=>
        \E d \in Nodes : Declares(d) /\ ~ Global(d) /\ n \in Scope(d)
  BY FlagsResolve
<1>3. n \in Nodes /\ tree[n].kind = "ident"
  BY DEF Reached
<1>4. \A d \in Nodes : Declares(d) /\ Global(d) => n \in Scope(d)
  BY <1>3, GlobalFacts
<1>5. Records(n) <=> ~ shadowed /\ ~ \E k \in 1 .. Len(scopes) : scopes[k]
  BY <1>3 DEF Records, ResolvesToUniverseAny
<1> QED
  BY <1>1, <1>2, <1>4, <1>5

-----------------------------------------------------------------------------
(* What the walk has yet to record *)

\* An any the walk does not come to.
Muted(n) == Silent(n) \/ Unwalked(n)

\* An any to be recorded.
Expected(n) == Reportable(n) /\ ~ Muted(n)

\* A visit of n or of a node around it is left.
Coming(H, n) ==
  \E b \in tree[n].path \ {1} : \E i : Visits(i, b) /\ <<tree[b].up, i>> \in H

\* The walk comes to what is to be recorded, to the any itself by a slot.
LEMMA ExpectedFacts ==
  ASSUME IsTree(tree), NEW n \in Nodes, Expected(n)
  PROVE  /\ n # 1 /\ tree[n].kind = "ident"
         /\ \A b \in tree[n].path \ {1} : \E i : Visits(i, b)
         /\ \A i : Visits(i, n) => Op(tree[n].up, i) = "slot"
<1>1. n # 1 /\ tree[n].kind = "ident" /\ ~ Muted(n)
      /\ <<tree[tree[n].up].kind, tree[n].role>> \in Supported
  <2>1. tree[n].kind = "ident" /\ ~ Muted(n)
        /\ <<tree[tree[n].up].kind, tree[n].role>> \in Supported
    BY DEF Expected, Reportable
  <2> QED
    BY <2>1, TreeFacts DEF Placed
<1>2. tree[n].role \notin Names
  BY <1>1 DEF Supported, Names
<1>3. ASSUME NEW b \in tree[n].path \ {1} PROVE \E i : Visits(i, b)
  <2> DEFINE kind == tree[tree[b].up].kind
             role == tree[b].role
  <2>1. b \in Nodes /\ b # 1
    BY PathOrder
  <2>2. kind \in Kinds /\ role \in ToSet(Roles(kind)) /\ tree[b].kind \in Holds(kind, role)
    BY <2>1, RoleFacts
  <2>3. PICK r : Places(kind, r, role)
    BY <2>2, FollowFacts
  <2>4. role # "constraint" /\ ~ (kind = "typecase" /\ role = "list")
    BY <1>1, <2>1 DEF Muted, Silent, Unwalked, In
  <2>5. role # "scope"
    BY <2>2 DEF Holds, Names
  <2>6. role \notin Names
    <3>1. SUFFICES ASSUME role \in Names PROVE FALSE
      OBVIOUS
    <3>2. tree[b].kind = "ident" /\ b # n
      BY <1>2, <2>2, <3>1, NameFacts
    <3>3. PICK c \in tree[n].path : IsToward(c, b, n)
      BY <3>2, TowardFacts
    <3>4. c \in Nodes /\ c # 1 /\ tree[c].up = b
      BY <3>3, PathOrder DEF IsToward
    <3> QED
      BY <3>2, <3>4, IdentFacts
  <2>7. PICK s : Walks(kind, s, role)
    BY <2>2, <2>3, <2>4, <2>5, <2>6, RegularFacts DEF AllWalked
  <2>8. Visits(<<s, b>>, b)
    BY <2>1, <2>7, VisitFacts
  <2> QED
    BY <2>8
<1>4. ASSUME NEW i, Visits(i, n) PROVE Op(tree[n].up, i) = "slot"
  <2> DEFINE kind == tree[tree[n].up].kind
             role == tree[n].role
  <2>1. kind \in Kinds
    BY <1>1, RoleFacts
  <2>2. PICK s \in DOMAIN Plan(kind) : Plan(kind)[s].op = "slot" /\ Plan(kind)[s].role = role
    BY <1>1, <2>1, RegularFacts DEF SlotsSupported
  <2>3. Walks(kind, s, role)
    BY <2>2 DEF Walks
  <2>4. Walks(kind, i[1], role)
    BY <1>1, <1>4, VisitFacts
  <2>5. i[1] = s
    BY <2>1, <2>3, <2>4, RegularFacts DEF Once
  <2> QED
    BY <2>2, <2>5 DEF Op
<1> QED
  BY <1>1, <1>3, <1>4

\* What the walk has reached is not silent, and no more to come.
LEMMA TrailEnds ==
  ASSUME IsTree(tree), NEW G, NEW n \in Nodes, Trail(G, n)
  PROVE  ~ Muted(n) /\ ~ Coming(G, n)
<1>1. ASSUME NEW b \in tree[n].path \ {1}
      PROVE  /\ b \in Nodes /\ b # 1 /\ tree[b].up \in Nodes /\ tree[tree[b].up].kind \in Kinds
             /\ \E i : Visits(i, b) /\ \A j \in Steps(tree[b].up) :
                         <<tree[b].up, j>> \in G <=> Later(j, i)
  <2>1. b \in Nodes /\ b # 1
    BY PathOrder
  <2> QED
    BY <1>1, <2>1, RoleFacts DEF Trail
<1>2. ASSUME Muted(n) PROVE FALSE
  <2>1. PICK m \in Nodes :
          m \in tree[n].path /\ \/ tree[m].role = "constraint"
                                \/ tree[m].role = "list" /\ tree[tree[m].up].kind = "typecase"
    BY <1>2 DEF Muted, Silent, Unwalked, In
  <2>2. m # 1
    BY <2>1 DEF IsTree
  <2>3. PICK i : Visits(i, m)
    BY <1>1, <2>1, <2>2
  <2>4. Walks(tree[tree[m].up].kind, i[1], tree[m].role)
    BY <2>2, <2>3, VisitFacts
  <2>5. Once(tree[tree[m].up].kind)
    BY <1>1, <2>1, <2>2, RegularFacts
  <2> QED
    BY <2>1, <2>4, <2>5 DEF Once
<1>3. ASSUME Coming(G, n) PROVE FALSE
  <2>1. PICK b, i : b \in tree[n].path \ {1} /\ Visits(i, b) /\ <<tree[b].up, i>> \in G
    BY <1>3 DEF Coming
  <2>2. PICK j : Visits(j, b) /\ \A k \in Steps(tree[b].up) :
                                   <<tree[b].up, k>> \in G <=> Later(k, j)
    BY <1>1, <2>1
  <2>3. i = j /\ i \in Steps(tree[b].up)
    BY <1>1, <2>1, <2>2, VisitFacts DEF Visits
  <2>4. ~ Later(i, i)
    BY <1>1, <2>1, <2>3, StepTypes
  <2> QED
    BY <2>1, <2>2, <2>3, <2>4
<1> QED
  BY <1>2, <1>3

\* A step that visits nothing leaves to come what it was.
LEMMA ComingStays ==
  ASSUME IsTree(tree), NEW H, NEW x, NEW i, Op(x, i) \notin {"visit", "slot", "body"}, NEW n
  PROVE  Coming(H \ {<<x, i>>}, n) <=> Coming(H, n)
<1>1. ASSUME NEW b, NEW j, Visits(j, b) PROVE <<tree[b].up, j>> # <<x, i>>
  BY <1>1 DEF Visits
<1> QED
  BY <1>1 DEF Coming

\* A visit of a node brings the node itself, and leaves all in it to come.
LEMMA ComingVisit ==
  ASSUME IsTree(tree), NEW H, NEW x, NEW i, Cursor(H, x, i),
         Op(x, i) \in {"visit", "slot", "body"}, i[2] # 0
  PROVE  LET G == (H \ {<<x, i>>}) \cup ({i[2]} \X Steps(i[2])) IN
         /\ Trail(G, i[2]) /\ Coming(H, i[2])
         /\ \A n \in Nodes : Expected(n) => (Coming(G, n) <=> Coming(H, n) /\ n # i[2])
<1> DEFINE c == i[2]
           K == H \ {<<x, i>>}
           G == K \cup ({c} \X Steps(c))
<1>1. /\ x \in Nodes /\ i \in Steps(x) /\ c \in Nodes /\ c # 1 /\ tree[c].up = x
      /\ tree[c].path = tree[x].path \cup {c} /\ c \notin tree[x].path /\ Visits(i, c)
      /\ <<x, i>> \in H
  BY AboutFacts DEF Cursor
<1>2. Trail(K, c)
  BY <1>1, TrailFacts
<1>3. \A a, j : <<a, j>> \in G <=> <<a, j>> \in K \/ (a = c /\ j \in Steps(c))
  OBVIOUS
<1> HIDE DEF G, c
<1>4. ASSUME NEW b \in tree[c].path \ {1} PROVE tree[b].up # c
  <2>1. ~ IsToward(b, c, c)
    BY <1>1, TowardFacts
  <2> QED
    BY <2>1, <1>4 DEF IsToward
<1>5. Trail(G, c)
  <2>1. ASSUME NEW b \in tree[c].path \ {1}
        PROVE  \E j : Visits(j, b) /\
                 \A k \in Steps(tree[b].up) : <<tree[b].up, k>> \in G <=> Later(k, j)
    <3>1. PICK j : Visits(j, b) /\
            \A k \in Steps(tree[b].up) : <<tree[b].up, k>> \in K <=> Later(k, j)
      BY <1>2 DEF Trail
    <3> QED
      BY <1>3, <1>4, <3>1
  <2> QED
    BY <2>1 DEF Trail
<1>6. Coming(H, c)
  BY <1>1 DEF Coming
<1>7. ASSUME NEW n \in Nodes, Expected(n), Coming(G, n) PROVE Coming(H, n) /\ n # c
  <2>1. PICK b, j : b \in tree[n].path \ {1} /\ Visits(j, b) /\ <<tree[b].up, j>> \in G
    BY <1>7 DEF Coming
  <2>2. n # c
    BY <1>1, <1>5, <1>7, TrailEnds
  <2>3. CASE <<tree[b].up, j>> \in K
    BY <2>1, <2>2, <2>3 DEF Coming
  <2>4. CASE tree[b].up = c
    <3>1. c \in tree[n].path
      BY <2>1, <2>4, TowardFacts DEF IsToward
    <3> QED
      BY <1>1, <2>2, <3>1 DEF Coming
  <2> QED
    BY <1>3, <2>1, <2>3, <2>4
<1>8. ASSUME NEW n \in Nodes, Expected(n), Coming(H, n), n # c PROVE Coming(G, n)
  <2>1. PICK b, j : b \in tree[n].path \ {1} /\ Visits(j, b) /\ <<tree[b].up, j>> \in H
    BY <1>8 DEF Coming
  <2>2. CASE <<tree[b].up, j>> \in K
    BY <1>3, <2>1, <2>2 DEF Coming
  <2>3. CASE <<tree[b].up, j>> \notin K
    <3>1. j = i
      BY <2>1, <2>3
    <3>2. b = c
      BY <2>1, <3>1 DEF Visits, c
    <3>3. PICK d \in tree[n].path : IsToward(d, c, n)
      BY <1>8, <2>1, <3>2, TowardFacts
    <3>4. d \in tree[n].path \ {1} /\ tree[d].up = c
      BY <3>3 DEF IsToward
    <3>5. PICK k : Visits(k, d)
      BY <1>8, <3>4, ExpectedFacts
    <3>6. <<c, k>> \in G
      BY <1>3, <3>4, <3>5 DEF Visits
    <3> QED
      BY <3>4, <3>5, <3>6 DEF Coming
  <2> QED
    BY <2>2, <2>3
<1>9. /\ Trail(G, c) /\ Coming(H, c)
      /\ \A n \in Nodes : Expected(n) => (Coming(G, n) <=> Coming(H, n) /\ n # c)
  BY <1>5, <1>6, <1>7, <1>8
<1> QED
  BY <1>9 DEF G, c

\* At a slot the identifier is recorded if and only if it is to be, and a visit that
\* is no slot meets nothing to be recorded.
LEMMA SlotFacts ==
  ASSUME IsTree(tree), NEW H, NEW x, NEW i, Cursor(H, x, i),
         Op(x, i) \in {"visit", "slot", "body"}, i[2] # 0,
         Flagged(H, scopes), shadowed <=> PackageDeclaresAny \/ FileImportsAny
  PROVE  /\ Op(x, i) = "slot" => (Records(i[2]) <=> Expected(i[2]))
         /\ Op(x, i) # "slot" => ~ Expected(i[2])
<1> DEFINE c == i[2]
           G == (H \ {<<x, i>>}) \cup ({c} \X Steps(c))
<1>1. /\ x \in Nodes /\ i \in Steps(x) /\ c \in Nodes /\ c # 1 /\ tree[c].up = x
      /\ tree[c].path = tree[x].path \cup {c} /\ c \notin tree[x].path /\ Visits(i, c)
      /\ Walks(tree[x].kind, i[1], tree[c].role) /\ tree[x].kind \in Kinds
  BY AboutFacts, TreeFacts DEF Cursor, Placed
<1>2. Flagged(G, scopes) /\ Trail(G, c)
  BY FlagsVisit, ComingVisit
<1>3. ASSUME NEW y \in H PROVE y[1] \in tree[x].path
  BY <1>3 DEF Cursor
<1> HIDE DEF c
<1>4. ASSUME Op(x, i) # "slot" PROVE ~ Expected(c)
  BY <1>1, <1>4, ExpectedFacts
<1>5. ASSUME Op(x, i) = "slot", tree[c].kind # "ident" PROVE ~ Records(c) /\ ~ Expected(c)
  BY <1>1, <1>5, ExpectedFacts DEF Records
<1>6. ASSUME Op(x, i) = "slot", tree[c].kind = "ident" PROVE Records(c) <=> Expected(c)
  <2>1. Steps(c) = {}
    <3>1. DOMAIN Plan("ident") = {}
      BY IdentRow DEF Row
    <3>2. Steps(c) \subseteq {}
      <4>1. \A j \in Steps(c) : j[1] \in DOMAIN Plan(tree[c].kind)
        BY <1>1, StepFacts
      <4> QED
        BY <1>6, <3>1, <4>1
    <3> QED
      BY <3>2
  <2>2. \A y \in G : y[1] \in tree[c].path /\ y[1] # c
    BY <1>1, <1>3, <2>1
  <2> HIDE DEF G
  <2>3. Reached(G, c)
    BY <1>1, <1>2, <1>6, <2>2 DEF Reached
  <2>4. Records(c) <=> \A d \in Nodes : Declares(d) => c \notin Scope(d)
    BY <1>2, <2>3, RecordsFacts
  <2>5. ~ Muted(c)
    BY <1>1, <1>2, TrailEnds
  <2>6. \/ <<tree[x].kind, tree[c].role>> \in Supported
        \/ tree[c].role = "rtparam"
    <3>1. /\ i[1] \in DOMAIN Plan(tree[x].kind) /\ Plan(tree[x].kind)[i[1]].op = "slot"
          /\ Plan(tree[x].kind)[i[1]].role = tree[c].role
      BY <1>1, <1>6 DEF Walks, Op
    <3> QED
      BY <1>1, <3>1, RegularFacts DEF SlotsSupported
  <2>7. ASSUME tree[c].role = "rtparam" PROVE Declares(c) /\ c \in Scope(c)
    <3>1. x \in tree[c].path
      BY <1>1, TreeFacts DEF Placed
    <3> QED
      BY <1>1, <1>6, <2>7, <3>1 DEF Declares, Names, Scope, In
  <2>8. Expected(c) <=> /\ <<tree[x].kind, tree[c].role>> \in Supported
                        /\ \A d \in Nodes : Declares(d) => c \notin Scope(d)
    BY <1>1, <1>6, <2>5 DEF Expected, Reportable
  <2> QED
    BY <1>1, <2>4, <2>6, <2>7, <2>8
<1>7. /\ Op(x, i) = "slot" => (Records(c) <=> Expected(c))
      /\ Op(x, i) # "slot" => ~ Expected(c)
  BY <1>4, <1>5, <1>6
<1> QED
  BY <1>7 DEF c

\* What is to be recorded and no more to come, is; each once.
Settled(H) == {n \in Nodes : Expected(n) /\ ~ Coming(H, n)}

NodesOf(log) == {log[u].node : u \in 1 .. Len(log)}

Logged(H, log) == NodesOf(log) = Settled(H) /\ Len(log) = Cardinality(NodesOf(log))

\* A use of another node is one more.
LEMMA LogMore ==
  ASSUME NEW S, NEW log \in Seq(S), NEW use \in S, use.node \notin NodesOf(log),
         Len(log) = Cardinality(NodesOf(log)), IsFiniteSet(NodesOf(log))
  PROVE  LET more == Append(log, use) IN
         /\ NodesOf(more) = NodesOf(log) \cup {use.node}
         /\ Len(more) = Cardinality(NodesOf(more))
<1> DEFINE more == Append(log, use)
<1>1. /\ more \in Seq(S) /\ Len(more) = Len(log) + 1 /\ Len(log) \in Nat
      /\ more[Len(log) + 1] = use /\ \A u \in 1 .. Len(log) : more[u] = log[u]
  BY AppendProperties
<1> HIDE DEF more
<1>2. NodesOf(more) = NodesOf(log) \cup {use.node}
  <2>1. \A u : u \in 1 .. Len(more) <=> u \in 1 .. Len(log) \/ u = Len(log) + 1
    BY <1>1
  <2>2. ASSUME NEW n
        PROVE  n \in NodesOf(more) <=> n \in NodesOf(log) \/ n = use.node
    <3>1. n \in NodesOf(more) <=> \E u \in 1 .. Len(more) : more[u].node = n
      BY DEF NodesOf
    <3>2. n \in NodesOf(log) <=> \E u \in 1 .. Len(log) : log[u].node = n
      BY DEF NodesOf
    <3> QED
      BY <1>1, <2>1, <3>1, <3>2
  <2> QED
    BY <2>2
<1>3. Cardinality(NodesOf(more)) = Len(log) + 1
  BY <1>2, FS_AddElement
<1> QED
  BY <1>1, <1>2, <1>3 DEF more

\* A step that visits nothing, a visit, and the start of the walk.
LEMMA LogStays ==
  ASSUME IsTree(tree), NEW H, NEW x, NEW i, Op(x, i) \notin {"visit", "slot", "body"},
         NEW log, Logged(H, log)
  PROVE  Logged(H \ {<<x, i>>}, log)
<1> DEFINE G == H \ {<<x, i>>}
<1>1. \A n \in Nodes : Coming(G, n) <=> Coming(H, n)
  BY ComingStays
<1> HIDE DEF G
<1>2. Settled(G) = Settled(H)
  BY <1>1 DEF Settled
<1>3. Logged(G, log)
  BY <1>2 DEF Logged
<1> QED
  BY <1>3 DEF G

LEMMA LogVisit ==
  ASSUME IsTree(tree), NEW H, NEW x, NEW i, Cursor(H, x, i),
         Op(x, i) \in {"visit", "slot", "body"}, i[2] # 0,
         NEW S, NEW log \in Seq(S), Logged(H, log)
  PROVE  LET G == (H \ {<<x, i>>}) \cup ({i[2]} \X Steps(i[2])) IN
         /\ ~ Expected(i[2]) => Logged(G, log)
         /\ Expected(i[2]) => \A use \in S : use.node = i[2] => Logged(G, Append(log, use))
<1> DEFINE c == i[2]
           G == (H \ {<<x, i>>}) \cup ({c} \X Steps(c))
<1>1. /\ Coming(H, c)
      /\ \A n \in Nodes : Expected(n) => (Coming(G, n) <=> Coming(H, n) /\ n # c)
  BY ComingVisit
<1>2. c \in Nodes
  BY AboutFacts DEF Cursor
<1> HIDE DEF G, c
<1>3. ASSUME ~ Expected(c) PROVE Logged(G, log)
  <2>1. Settled(G) = Settled(H)
    BY <1>1, <1>3 DEF Settled
  <2> QED
    BY <2>1 DEF Logged
<1>4. ASSUME Expected(c), NEW use \in S, use.node = c PROVE Logged(G, Append(log, use))
  <2>1. Settled(G) = Settled(H) \cup {c} /\ c \notin Settled(H)
    BY <1>1, <1>2, <1>4 DEF Settled
  <2>2. IsFiniteSet(Settled(H))
    <3>1. IsFiniteSet(Nodes) /\ Settled(H) \subseteq Nodes
      BY TreeFacts, FS_Interval DEF Settled
    <3> QED
      BY <3>1, FS_Subset
  <2>3. /\ NodesOf(log) = Settled(H) /\ Len(log) = Cardinality(NodesOf(log))
    BY DEF Logged
  <2>4. /\ NodesOf(Append(log, use)) = NodesOf(log) \cup {use.node}
        /\ Len(Append(log, use)) = Cardinality(NodesOf(Append(log, use)))
    BY <1>4, <2>1, <2>2, <2>3, LogMore
  <2> QED
    BY <1>4, <2>1, <2>3, <2>4 DEF Logged
<1>5. /\ ~ Expected(c) => Logged(G, log)
      /\ Expected(c) => \A use \in S : use.node = c => Logged(G, Append(log, use))
  BY <1>3, <1>4
<1> QED
  BY <1>5 DEF G, c

\* At the start all is to come and no scope is open; at the end nothing is to come.
LEMMA LogStarts ==
  ASSUME IsTree(tree)
  PROVE  /\ Logged({1} \X Steps(1), <<>>) /\ Flagged({1} \X Steps(1), <<>>)
         /\ \A log : Logged({}, log) =>
              /\ NodesOf(log) = {n \in Nodes : Expected(n)}
              /\ Len(log) = Cardinality(NodesOf(log))
<1> DEFINE H == {1} \X Steps(1)
<1>1. ASSUME NEW n \in Nodes, Expected(n) PROVE Coming(H, n)
  <2>1. n # 1 /\ 1 \in tree[n].path
    BY <1>1, ExpectedFacts, PathOrder
  <2> DEFINE a == 1
  <2>2. PICK b \in tree[n].path : IsToward(b, a, n)
    BY <2>1, TowardFacts
  <2>3. b \in tree[n].path \ {1} /\ tree[b].up = 1
    BY <2>2 DEF IsToward
  <2>4. PICK i : Visits(i, b)
    BY <1>1, <2>3, ExpectedFacts
  <2>5. <<tree[b].up, i>> \in H
    BY <2>3, <2>4 DEF Visits
  <2> HIDE DEF H
  <2> QED
    BY <2>3, <2>4, <2>5 DEF Coming
<1>2. \A a, o : ~ OpenIn(H, a, o)
  <2>1. Opens("file") = {} /\ tree[1].kind = "file"
    BY FileRow DEF Row, Opens, IsTree
  <2>2. ASSUME NEW a, NEW o, OpenIn(H, a, o) PROVE FALSE
    <3>1. a = 1
      BY <2>2 DEF OpenIn
    <3> QED
      BY <2>1, <2>2, <3>1 DEF OpenIn
  <2> QED
    BY <2>2
<1> HIDE DEF H
<1>3. Logged(H, <<>>)
  <2>1. NodesOf(<<>>) = {}
    BY DEF NodesOf
  <2>2. Settled(H) = {}
    BY <1>1 DEF Settled
  <2> QED
    BY <2>1, <2>2, FS_EmptySet DEF Logged
<1>4. Flagged(H, <<>>)
  <2>1. Opened(H, <<>>, <<>>) /\ <<>> \in Seq(Nat \X Nat)
    BY <1>2 DEF Opened
  <2> QED
    BY <2>1, Zenon DEF Flagged
<1>5. \A n : ~ Coming({}, n)
  BY DEF Coming
<1>6. ASSUME NEW log, Logged({}, log)
      PROVE  NodesOf(log) = {n \in Nodes : Expected(n)} /\ Len(log) = Cardinality(NodesOf(log))
  BY <1>5, <1>6 DEF Logged, Settled
<1> QED
  BY <1>3, <1>4, <1>6 DEF H

-----------------------------------------------------------------------------
(* The flags record by the scopes *)

\* The stack means what is to be seen from where the walk is, and the log is of
\* what it has passed.
Resolving(H, shadow, flags, log) ==
  /\ shadow <=> PackageDeclaresAny \/ FileImportsAny
  /\ Flagged(H, flags) /\ Logged(H, log)

RInv ==
  /\ phase \in {"walk", "done"} =>
       Walking(todo) /\ Resolving(Held(todo), shadowed, scopes, usages)
  /\ phase = "done" => todo = <<>>

\* The steps of a walk leave the tree alone.
LEMMA SamePositions ==
  ASSUME tree' = tree
  PROVE  /\ Nodes' = Nodes /\ \A n, role : Children(n, role)' = Children(n, role)
         /\ \A n : Steps(n)' = Steps(n)
         /\ \A n, i : Op(n, i)' = Op(n, i)
         /\ \A i, b : Visits(i, b)' = Visits(i, b) /\ Binding(i, b)' = Binding(i, b)
         /\ \A n : Declares(n)' = Declares(n) /\ Scope(n)' = Scope(n) /\ Muted(n)' = Muted(n)
         /\ PackageDeclaresAny' = PackageDeclaresAny /\ FileImportsAny' = FileImportsAny
<1>1. Nodes' = Nodes
  BY DEF Nodes
<1>2. \A n, role : Children(n, role)' = Children(n, role)
  BY <1>1 DEF Children
<1>3. \A n : Steps(n)' = Steps(n)
  BY DEF Steps, Children, Nodes
<1>4. \A n, i : Op(n, i)' = Op(n, i)
  BY DEF Op
<1>5. \A i, b : Visits(i, b)' = Visits(i, b) /\ Binding(i, b)' = Binding(i, b)
  BY <1>3, <1>4 DEF Visits, Binding
<1>6. \A n, m : In(n, m)' = In(n, m)
  BY DEF In
<1>7. \A n, m, roles : InRole(n, m, roles)' = InRole(n, m, roles)
  BY <1>1, <1>6 DEF InRole
<1>8. \A n, m : InBlockOf(n, m)' = InBlockOf(n, m) /\ After(n, m)' = After(n, m)
  BY <1>1, <1>6, <1>7 DEF InBlockOf, After
<1>9. \A n : IsMethod(n)' = IsMethod(n)
  BY <1>2 DEF IsMethod
<1>10. \A n : Declares(n)' = Declares(n)
  BY DEF Declares
<1>11. \A n : Scope(n)' = Scope(n)
  BY <1>1, <1>6, <1>7, <1>8, <1>9 DEF Scope
<1>12. \A n : Muted(n)' = Muted(n)
  BY <1>1, <1>6 DEF Muted, Silent, Unwalked
<1>13. PackageDeclaresAny' = PackageDeclaresAny /\ FileImportsAny' = FileImportsAny
  BY <1>1, <1>2, <1>9 DEF PackageDeclaresAny, FileImportsAny
<1> QED
  BY <1>1, <1>2, <1>3, <1>4, <1>5, <1>10, <1>11, <1>12, <1>13

LEMMA SameResolving ==
  ASSUME tree' = tree
  PROVE  /\ Walking(todo)' = Walking(todo')
         /\ Resolving(Held(todo), shadowed, scopes, usages)' =
              Resolving(Held(todo'), shadowed', scopes', usages')
<1>1. Walking(todo)' = Walking(todo')
  <2>1. Nested(todo)' = Nested(todo')
    BY DEF Nested
  <2>2. (\A t \in 1 .. Len(todo) : Rest(todo[t]))' = (\A t \in 1 .. Len(todo') : Rest(todo'[t]))
    BY SamePositions DEF Rest
  <2>3. Trail(Held(todo), todo[Len(todo)].node)' = Trail(Held(todo'), todo'[Len(todo')].node)
    <3>1. Held(todo)' = Held(todo')
      BY DEF Held
    <3> QED
      BY <3>1, SamePositions DEF Trail
  <2> QED
    BY <2>1, <2>2, <2>3 DEF Walking
<1>2. \A d, a, o : Homed(d, a, o)' = Homed(d, a, o)
  BY SamePositions DEF Homed
<1>3. \A n : Expected(n)' = Expected(n)
  BY SamePositions DEF Expected, Reportable
<1>4. Held(todo)' = Held(todo')
  BY DEF Held
<1>5. Flagged(Held(todo), scopes)' = Flagged(Held(todo'), scopes')
  <2>1. \A a, o : OpenIn(Held(todo), a, o)' = OpenIn(Held(todo'), a, o)
    BY <1>4, SamePositions DEF OpenIn
  <2>2. \A d : Awaited(Held(todo), d)' = Awaited(Held(todo'), d)
    BY <1>4, SamePositions DEF Awaited
  <2>3. \A openers : Opened(Held(todo), scopes, openers)' = Opened(Held(todo'), scopes', openers)
    <3>1. Nodes' = Nodes
      BY SamePositions
    <3>2. \A p, q : Around(p, q)' = Around(p, q)
      BY DEF Around
    <3> QED
      BY <1>2, <2>1, <2>2, <3>1, <3>2 DEF Opened
  <2> QED
    BY <2>3 DEF Flagged
<1>6. Logged(Held(todo), usages)' = Logged(Held(todo'), usages')
  BY <1>3, <1>4, SamePositions DEF Logged, Settled, Coming, NodesOf
<1> QED
  BY <1>1, <1>5, <1>6, SamePositions DEF Resolving

\* What a step that visits nothing leaves.
LEMMA LeftResolving ==
  ASSUME IsTree(tree), Calls(todo), Walking(todo), todo # <<>>,
         Op(todo[Len(todo)].node, At) \notin {"visit", "slot", "body"},
         NEW shadow, NEW flags, NEW log, NEW new,
         Flagged(Held(todo) \ {<<todo[Len(todo)].node, At>>}, new),
         Resolving(Held(todo), shadow, flags, log)
  PROVE  Walking(Left) /\ Resolving(Held(Left), shadow, new, log)
<1> DEFINE x == todo[Len(todo)].node
           H == Held(todo)
<1>1. Walking(Left) /\ Held(Left) = H \ {<<x, At>>}
  BY LeftWalking, HeldLeft DEF Walking
<1> HIDE DEF x, H
<1>2. Logged(H \ {<<x, At>>}, log)
  BY LogStays DEF Resolving, x, H
<1>3. Resolving(H \ {<<x, At>>}, shadow, new, log)
  BY <1>2 DEF Resolving, x, H
<1> QED
  BY <1>1, <1>3

\* What a visit leaves.
LEMMA InspectResolving ==
  ASSUME IsTree(tree), Calls(todo), Walking(todo), todo # <<>>,
         Op(todo[Len(todo)].node, At) \in {"visit", "slot", "body"}, Child # 0,
         Resolving(Held(todo), shadowed, scopes, usages),
         usages \in Seq([node : Nat, owner : Nat])
  PROVE  LET new == Left \o Call(Child, Last(todo).owner)
             use == [node |-> Child, owner |-> Last(todo).owner]
             slot == Op(todo[Len(todo)].node, At) = "slot"
         IN  /\ Walking(new)
             /\ slot /\ Records(Child) =>
                  Resolving(Held(new), shadowed, scopes, Append(usages, use))
             /\ ~ (slot /\ Records(Child)) => Resolving(Held(new), shadowed, scopes, usages)
<1> DEFINE x == todo[Len(todo)].node
           H == Held(todo)
           owner == Last(todo).owner
           new == Left \o Call(Child, owner)
           use == [node |-> Child, owner |-> owner]
           G == (H \ {<<x, At>>}) \cup ({Child} \X Steps(Child))
<1>1. Cursor(H, x, At) /\ x \in Nodes /\ At \in Steps(x) /\ At[2] = Child
  BY CursorFacts DEF Cursor, Child
<1>2. owner \in Nodes
  BY DEF Last, Calls, Sound, Owns
<1>3. Child \in Nodes /\ Child # 1 /\ tree[Child].up = x /\ Visits(At, Child)
  BY <1>1, AboutFacts
<1>4. Walking(new)
  BY <1>2, <1>3, CallWalking
<1>5. Held(new) = G
  <2>1. Left \in Seq(Frames) /\ Held(Left) = H \ {<<x, At>>}
    BY LeftWalking, HeldLeft DEF Walking, Calls
  <2> QED
    BY <1>2, <1>3, <2>1, HeldCall
<1>6. Flagged(G, scopes)
  BY <1>1, FlagsVisit DEF Resolving
<1>7. /\ Op(x, At) = "slot" => (Records(Child) <=> Expected(Child))
      /\ Op(x, At) # "slot" => ~ Expected(Child)
  BY <1>1, SlotFacts DEF Resolving
<1>8. /\ ~ Expected(Child) => Logged(G, usages)
      /\ Expected(Child) => \A u \in [node : Nat, owner : Nat] :
                              u.node = Child => Logged(G, Append(usages, u))
  BY <1>1, LogVisit DEF Resolving
<1>9. use \in [node : Nat, owner : Nat] /\ use.node = Child
  BY <1>2, <1>3, TreeFacts
<1> HIDE DEF x, H, G, new, use
<1>10. shadowed <=> PackageDeclaresAny \/ FileImportsAny
  BY DEF Resolving
<1>11. ASSUME Op(x, At) = "slot", Records(Child)
       PROVE  Resolving(Held(new), shadowed, scopes, Append(usages, use))
  BY <1>5, <1>6, <1>7, <1>8, <1>9, <1>10, <1>11 DEF Resolving
<1>12. ASSUME ~ (Op(x, At) = "slot" /\ Records(Child))
       PROVE  Resolving(Held(new), shadowed, scopes, usages)
  BY <1>5, <1>6, <1>7, <1>8, <1>10, <1>12 DEF Resolving
<1> QED
  BY <1>4, <1>11, <1>12 DEF x, new, use

\* The stack of flags means the scopes around the walk, and what is recorded is
\* what the walk has passed.
THEOREM ResolvingHolds == Spec => []RInv
<1>1. Init => RInv
  BY DEF Init, RInv
<1>2. IInv /\ RInv /\ [Next]_vars => RInv'
  <2> SUFFICES ASSUME IInv, RInv, [Next]_vars PROVE RInv'
    OBVIOUS
  <2>1. ASSUME phase' \notin {"walk", "done"} PROVE RInv'
    BY <2>1 DEF RInv
  <2>2. ASSUME tree' = tree, phase' # "done", Walking(todo'),
               Resolving(Held(todo'), shadowed', scopes', usages')
        PROVE  RInv'
    BY <2>2, SameResolving DEF RInv
  <2>3. /\ IsTree(tree) /\ Calls(todo) /\ scopes \in Seq(BOOLEAN) /\ Len(scopes) \in Nat
        /\ usages \in Seq([node : Nat, owner : Nat])
    BY DEF IInv
  <2>4. phase = "walk" => Walking(todo) /\ Resolving(Held(todo), shadowed, scopes, usages)
    BY DEF RInv
  <2> DEFINE x == todo[Len(todo)].node
             H == Held(todo)
  <2>5. ASSUME NEW op, Doing(op)
        PROVE  /\ todo # <<>> /\ phase = "walk" /\ Op(x, At) = op /\ Cursor(H, x, At)
               /\ op \in {"visit", "slot", "declare"} => Child # 0 /\ At[2] # 0
    <3>1. /\ todo # <<>> /\ phase = "walk" /\ Op(x, At) = op
          /\ op \in {"visit", "slot", "declare"} => Child # 0
      BY <2>3, <2>5, DoingFacts
    <3>2. Cursor(H, x, At)
      BY <2>3, <2>4, <3>1, CursorFacts
    <3> QED
      BY <3>1, <3>2 DEF Child
  <2>6. ASSUME NEW op, Doing(op), op \notin {"visit", "slot", "body"}, NEW new,
               Flagged(H \ {<<x, At>>}, new)
        PROVE  Walking(Left) /\ Resolving(Held(Left), shadowed, new, usages)
    BY <2>3, <2>4, <2>5, <2>6, LeftResolving
  <2>7. CASE Grow
    <3>1. phase' = "parse"
      BY <2>7 DEF Grow
    <3> QED
      BY <2>1, <3>1
  <2>8. CASE Resolve
    <3>1. /\ UNCHANGED <<tree, scopes, usages>> /\ phase' = "walk" /\ todo' = Call(1, 1)
          /\ shadowed' = (PackageDeclaresAny \/ FileImportsAny)
          /\ scopes' = <<>> /\ usages' = <<>>
      BY <2>8 DEF Resolve, IInv
    <3>2. Walking(todo') /\ Held(todo') = {1} \X Steps(1)
      BY <2>3, <3>1, StartWalking
    <3>3. Logged({1} \X Steps(1), <<>>) /\ Flagged({1} \X Steps(1), <<>>)
      BY <2>3, LogStarts
    <3>4. Resolving(Held(todo'), shadowed', scopes', usages')
      BY <3>1, <3>2, <3>3 DEF Resolving
    <3> QED
      BY <2>2, <3>1, <3>2, <3>4
  <2>9. CASE OpenScope
    <3>1. Doing("open") /\ todo' = Left /\ scopes' = Append(scopes, FALSE)
          /\ UNCHANGED <<tree, phase, shadowed, usages>>
      BY <2>9 DEF OpenScope
    <3>2. Flagged(H \ {<<x, At>>}, scopes')
      BY <2>3, <2>4, <2>5, <3>1, FlagsOpen DEF Resolving
    <3>3. Walking(Left) /\ Resolving(Held(Left), shadowed, scopes', usages) /\ phase = "walk"
      BY <2>5, <2>6, <3>1, <3>2
    <3> QED
      BY <2>2, <3>1, <3>3
  <2>10. CASE CloseScope
    <3>1. Doing("close") /\ todo' = Left
          /\ scopes' = (IF scopes = <<>> THEN scopes ELSE Front(scopes))
          /\ UNCHANGED <<tree, phase, shadowed, usages>>
      BY <2>10 DEF CloseScope
    <3>2. scopes # <<>> /\ Flagged(H \ {<<x, At>>}, Front(scopes))
      BY <2>3, <2>4, <2>5, <3>1, FlagsClose DEF Resolving
    <3>3. scopes' = Front(scopes)
      BY <3>1, <3>2
    <3>4. Walking(Left) /\ Resolving(Held(Left), shadowed, scopes', usages) /\ phase = "walk"
      BY <2>5, <2>6, <3>1, <3>2, <3>3
    <3> QED
      BY <2>2, <3>1, <3>4
  <2>11. CASE DeclareName
    <3>1. Doing("declare") /\ todo' = Left
          /\ scopes' = (IF scopes = <<>> THEN scopes ELSE [scopes EXCEPT ![Len(scopes)] = TRUE])
          /\ UNCHANGED <<tree, phase, shadowed, usages>>
      BY <2>11 DEF DeclareName
    <3>2. Flagged(H \ {<<x, At>>}, scopes')
      BY <2>3, <2>4, <2>5, <3>1, FlagsDeclare DEF Resolving
    <3>3. Walking(Left) /\ Resolving(Held(Left), shadowed, scopes', usages) /\ phase = "walk"
      BY <2>5, <2>6, <3>1, <3>2
    <3> QED
      BY <2>2, <3>1, <3>3
  <2>12. CASE VisitChild
    <3>1. Doing("visit") /\ todo' = Left \o Call(Child, Last(todo).owner)
          /\ UNCHANGED <<tree, phase, shadowed, scopes, usages>>
      BY <2>12 DEF VisitChild, Inspect
    <3>2. /\ todo # <<>> /\ phase = "walk" /\ Op(x, At) = "visit" /\ Child # 0
      BY <2>5, <3>1
    <3>3. Walking(todo') /\ Resolving(Held(todo'), shadowed, scopes, usages)
      BY <2>3, <2>4, <3>1, <3>2, InspectResolving
    <3> QED
      BY <2>2, <3>1, <3>2, <3>3
  <2>13. CASE VisitSlot
    <3> DEFINE use == [node |-> Child, owner |-> Last(todo).owner]
    <3>1. Doing("slot") /\ todo' = Left \o Call(Child, Last(todo).owner)
          /\ usages' = (IF Records(Child) THEN Append(usages, use) ELSE usages)
          /\ UNCHANGED <<tree, phase, shadowed, scopes>>
      BY <2>13 DEF VisitSlot, Inspect
    <3>2. /\ todo # <<>> /\ phase = "walk" /\ Op(x, At) = "slot" /\ Child # 0
      BY <2>5, <3>1
    <3>3. /\ Walking(todo')
          /\ Records(Child) => Resolving(Held(todo'), shadowed, scopes, Append(usages, use))
          /\ ~ Records(Child) => Resolving(Held(todo'), shadowed, scopes, usages)
      BY <2>3, <2>4, <3>1, <3>2, InspectResolving
    <3> HIDE DEF use
    <3>4. Resolving(Held(todo'), shadowed, scopes, usages')
      BY <3>1, <3>3
    <3> QED
      BY <2>2, <3>1, <3>2, <3>3, <3>4
  <2>14. CASE VisitBody
    <3>1. /\ Doing("body") /\ UNCHANGED <<tree, shadowed, scopes, usages>>
          /\ Child = 0 => phase' = "panicked"
          /\ Child # 0 => todo' = Left \o Call(Child, Last(todo).owner) /\ phase' = phase
      BY <2>14 DEF VisitBody, Inspect
    <3>2. /\ todo # <<>> /\ phase = "walk" /\ Op(x, At) = "body"
      BY <2>5, <3>1
    <3>3. CASE Child = 0
      BY <2>1, <3>1, <3>3
    <3>4. CASE Child # 0
      <4>1. Walking(todo') /\ Resolving(Held(todo'), shadowed, scopes, usages)
        BY <2>3, <2>4, <3>1, <3>2, <3>4, InspectResolving
      <4> QED
        BY <2>2, <3>1, <3>2, <3>4, <4>1
    <3> QED
      BY <3>3, <3>4
  <2>15. CASE Finish
    <3>1. phase = "walk" /\ todo = <<>> /\ phase' = "done"
          /\ UNCHANGED <<shape, tree, shadowed, todo, scopes, usages>>
      BY <2>15 DEF Finish
    <3>2. Walking(todo') /\ Resolving(Held(todo'), shadowed', scopes', usages')
      BY <2>4, <3>1
    <3> QED
      BY <3>1, <3>2, SameResolving DEF RInv
  <2>16. CASE UNCHANGED vars
    <3>1. UNCHANGED <<shape, tree, phase, shadowed, todo, scopes, usages>>
      BY <2>16 DEF vars
    <3>2. phase \in {"walk", "done"} =>
            Walking(todo') /\ Resolving(Held(todo'), shadowed', scopes', usages')
      BY <3>1 DEF RInv
    <3>3. phase = "done" => todo = <<>>
      BY DEF RInv
    <3> QED
      BY <3>1, <3>2, <3>3, SameResolving DEF RInv
  <2> QED
    BY <2>7, <2>8, <2>9, <2>10, <2>11, <2>12, <2>13, <2>14, <2>15, <2>16 DEF Next
<1> QED
  BY <1>1, <1>2, Invariance, PTL DEF Spec

\* RecordsByScope: whatever the file, the walk records each any that is reportable
\* by the scopes of the Go specification and not in the case list of a type
\* switch, once, and no other.
THEOREM RecordsByTheScopes == Spec => []RecordsByScope
<1>1. IInv /\ RInv => RecordsByScope
  <2> SUFFICES ASSUME IInv, RInv, phase = "done" PROVE
        /\ Recorded = {n \in Nodes : Reportable(n) /\ ~ Silent(n) /\ ~ Unwalked(n)}
        /\ Len(usages) = Cardinality(Recorded)
    BY DEF RecordsByScope
  <2>1. IsTree(tree) /\ Held(todo) = {} /\ Logged(Held(todo), usages)
    BY StartWalking DEF IInv, RInv, Resolving
  <2>2. /\ NodesOf(usages) = {n \in Nodes : Expected(n)}
        /\ Len(usages) = Cardinality(NodesOf(usages))
    BY <2>1, LogStarts
  <2>3. Recorded = NodesOf(usages)
    BY DEF Recorded, NodesOf
  <2> QED
    BY <2>2, <2>3 DEF Expected, Muted
<1> QED
  BY <1>1, Invariance, ResolvingHolds, PTL

=============================================================================
