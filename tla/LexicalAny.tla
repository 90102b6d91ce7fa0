----------------------------- MODULE LexicalAny -----------------------------
(***************************************************************************)
(* anyUsageCollector and lexicalAnyResolver of internal/validation/        *)
(* any_usage.go: the walk over the syntax of one file that finds every any *)
(* in a supported slot and drops those that a declaration shadows.  It     *)
(* keeps a stack of scopes, each with one flag, and no type information.   *)
(*                                                                         *)
(* A file is a tree of nodes in source order.  A node has the role it      *)
(* plays for its parent, and the only identifier is any: an ident node is  *)
(* a declaration of any, a use of it in a slot, or a use elsewhere,        *)
(* according to its role.  Absent children stand for code without any.     *)
(* What go/parser returns is built one node at a time and then walked.     *)
(***************************************************************************)
EXTENDS Naturals, Sequences, SequencesExt, FiniteSetsExt

CONSTANTS
  Shapes \* bound: the trees a file begins with, the kinds of nodes it then
         \* grows, and how many nodes it has at most

-----------------------------------------------------------------------------
(* The walk over a node, as the steps its handler takes in order: open or   *)
(* close a scope; declare the identifiers of a role; visit the children of  *)
(* a role, plainly or as a slot; visit a function body.                     *)

Open == [op |-> "open", role |-> "scope"]
Close == [op |-> "close", role |-> "scope"]
Declare(role) == [op |-> "declare", role |-> role]
Visit(role) == [op |-> "visit", role |-> role]
Slot(role) == [op |-> "slot", role |-> role]
Body(role) == [op |-> "body", role |-> role]

\* inspectFuncDecl, inspectFuncLit and the specs.  The index of a receiver
\* type, rtparam, is a declaration and an index slot; recv is the type of a
\* receiver without index.
DeclPlan ==
  [func |-> <<Open, Declare("rtparam"), Declare("tparam"), Slot("rtparam"),
              Visit("recv"), Slot("ptype"), Declare("rname"), Declare("pname"),
              Body("body"), Close>>,
   funclit |-> <<Open, Slot("ptype"), Declare("pname"), Visit("body"), Close>>,
   typespec |-> <<Declare("tname"), Open, Declare("tparam"), Slot("def"), Close>>,
   valuespec |-> <<Slot("type"), Visit("values"), Declare("name")>>]

\* inspectTypeNode
TypePlan ==
  [functype |-> <<Slot("ptype")>>,
   fields |-> <<Slot("ftype")>>,
   array |-> <<Visit("len"), Slot("elt")>>,
   map |-> <<Slot("mkey"), Slot("mvalue")>>,
   star |-> <<Slot("target")>>]

\* inspectExprNode
ExprPlan ==
  [call |-> <<Slot("fun"), Visit("parts")>>,
   assert |-> <<Visit("x"), Slot("asserted")>>,
   index |-> <<Visit("x"), Slot("index")>>,
   parts |-> <<Visit("parts")>>]

\* inspectSimpleStmtNode and inspectAssignStmt.  Of what stands before := the
\* names are declared, and the expressions, lexpr, visited.
StmtPlan ==
  [block |-> <<Open, Visit("stmts"), Close>>,
   define |-> <<Visit("rhs"), Visit("lexpr"), Declare("lhs")>>]

\* inspectControlStmtNode, inspectRangeStmt, with := and without (rangeover),
\* and inspectTypeSwitchBody
ControlPlan ==
  [if |-> <<Open, Visit("init"), Visit("cond"), Visit("body"), Visit("else"), Close>>,
   for |-> <<Open, Visit("init"), Visit("cond"), Visit("post"), Visit("body"), Close>>,
   range |-> <<Open, Visit("x"), Visit("lexpr"), Declare("key"), Visit("body"), Close>>,
   rangeover |-> <<Open, Visit("x"), Visit("parts"), Visit("body"), Close>>,
   switch |-> <<Open, Visit("init"), Visit("tag"), Open, Visit("clauses"), Close, Close>>,
   typeswitch |-> <<Open, Visit("init"), Visit("assign"), Visit("clauses"), Close>>,
   select |-> <<Open, Visit("clauses"), Close>>,
   case |-> <<Visit("list"), Open, Visit("stmts"), Close>>,
   typecase |-> <<Open, Visit("stmts"), Close>>,
   comm |-> <<Open, Visit("comm"), Visit("stmts"), Close>>]

\* inspectLeafNode and inspectFile
FilePlan == [ident |-> <<>>, file |-> <<Visit("decls")>>]

Plan(kind) ==
  CASE kind \in DOMAIN DeclPlan -> DeclPlan[kind]
    [] kind \in DOMAIN TypePlan -> TypePlan[kind]
    [] kind \in DOMAIN ExprPlan -> ExprPlan[kind]
    [] kind \in DOMAIN StmtPlan -> StmtPlan[kind]
    [] kind \in DOMAIN ControlPlan -> ControlPlan[kind]
    [] kind \in DOMAIN FilePlan -> FilePlan[kind]

Kinds == DOMAIN DeclPlan \cup DOMAIN TypePlan \cup DOMAIN ExprPlan
           \cup DOMAIN StmtPlan \cup DOMAIN ControlPlan \cup DOMAIN FilePlan

-----------------------------------------------------------------------------
(* The trees that go/parser returns                                         *)

\* The roles of a kind, in source order.
Roles(kind) ==
  CASE kind = "file" -> <<"iname", "decls">>
    [] kind = "func" -> <<"rname", "rtparam", "recv", "fname", "tparam",
                          "constraint", "pname", "ptype", "body">>
    [] kind = "funclit" -> <<"pname", "ptype", "body">>
    [] kind = "typespec" -> <<"tname", "tparam", "constraint", "def">>
    [] kind = "valuespec" -> <<"name", "type", "values">>
    [] kind = "functype" -> <<"pname", "ptype">>
    [] kind = "define" -> <<"lhs", "lexpr", "rhs">>
    [] kind = "if" -> <<"init", "cond", "body", "else">>
    [] kind = "range" -> <<"key", "lexpr", "x", "body">>
    [] kind = "rangeover" -> <<"parts", "x", "body">>
    [] kind \in {"case", "typecase"} -> <<"list", "stmts">>
    [] OTHER -> [s \in DOMAIN Plan(kind) |-> Plan(kind)[s].role]

\* Roles with any number of children.
Lists == {"decls", "stmts", "clauses", "parts"}

Names == {"iname", "rname", "rtparam", "fname", "tparam", "pname", "tname",
          "name", "lhs", "key"}

Types == {"ident", "functype", "fields", "array", "map", "star", "index"}

Exprs == {"ident", "funclit", "call", "assert", "index", "parts", "array"}

Stmts == {"block", "define", "if", "for", "range", "rangeover", "switch",
          "typeswitch", "select", "typespec", "valuespec", "call", "parts"}

\* The kinds of nodes a role of a kind may hold.
Holds(kind, role) ==
  CASE role \in Names -> {"ident"}
    [] role = "decls" -> {"func", "typespec", "valuespec"}
    [] role \in {"constraint", "ptype", "def", "type", "ftype", "elt", "mkey",
                 "mvalue", "target", "asserted"} -> Types
    [] role \in {"values", "rhs", "cond", "tag", "x", "fun", "len", "parts",
                 "index"} -> Exprs
    [] role = "lexpr" -> Exprs \ {"ident"}
    [] role = "recv" -> Types \ {"star", "index"}
    [] role = "list" -> IF kind = "typecase" THEN Types ELSE Exprs
    [] role = "body" -> {"block"}
    [] role = "else" -> {"block", "if"}
    [] role = "clauses" -> {[switch |-> "case", typeswitch |-> "typecase",
                              select |-> "comm"][kind]}
    [] role \in {"init", "assign", "comm"} -> {"define", "parts"}
    [] role = "post" -> {"parts"}
    [] role = "stmts" -> Stmts
    [] role = "scope" -> {}

\* In the source the children of a node come in the order of their roles, one
\* in each role that is not a list.
Follows(kind, role, earlier) ==
  \E r, e \in DOMAIN Roles(kind) :
    /\ Roles(kind)[r] = role /\ Roles(kind)[e] = earlier
    /\ e < r \/ (e = r /\ role \in Lists)

\* A file, then in source order the nodes below it: each in a node that the one
\* before it is in, in a role that may hold it and after those already seen.
IsTree(nodes) ==
  /\ nodes \in Seq([kind : Kinds, role : {"file"} \cup UNION {ToSet(Roles(k)) : k \in Kinds},
                    up : Nat, path : SUBSET Nat])
  /\ nodes # <<>> /\ nodes[1].kind = "file" /\ nodes[1].role = "file"
  /\ nodes[1].up = 0 /\ nodes[1].path = {1}
  /\ \A n \in 2 .. Len(nodes) :
       LET m == nodes[n].up IN
       /\ m \in 1 .. n - 1 /\ m \in nodes[n - 1].path
       /\ nodes[n].role \in ToSet(Roles(nodes[m].kind))
       /\ nodes[n].kind \in Holds(nodes[m].kind, nodes[n].role) \ {"file"}
       /\ nodes[n].path = nodes[m].path \cup {n}
       /\ \A b \in 2 .. n - 1 :
            nodes[b].up = m => Follows(nodes[m].kind, nodes[n].role, nodes[b].role)

ASSUME ShapeAssumption ==
  \A shape \in Shapes :
    /\ shape.nodes \in Nat /\ shape.kinds \subseteq Kinds \ {"file"}
    /\ IsTree(shape.start) /\ Len(shape.start) <= shape.nodes

VARIABLES
  shape,    \* what this file may grow to
  tree,     \* its nodes in source order: kind, role, parent, and path, the
            \* nodes from the root to it
  phase,
  shadowed, \* the resolver: the package block or the imports declare any
  todo,     \* the calls in progress, innermost last: a node, its owner, and
            \* the steps left, each with the child it is about, if any
  scopes,   \* shadowsAny of the open scopes, innermost last
  usages    \* the identifiers recorded, with their owner

vars == <<shape, tree, phase, shadowed, todo, scopes, usages>>

Nodes == 1 .. Len(tree)

Children(n, role) == {m \in Nodes : tree[m].up = n /\ tree[m].role = role}

Init ==
  /\ shape \in Shapes
  /\ tree = shape.start
  /\ phase = "parse"
  /\ shadowed = FALSE
  /\ todo = <<>>
  /\ scopes = <<>>
  /\ usages = <<>>

\* The parser meets the next node: a child of an open one.
Grow ==
  /\ phase = "parse" /\ Len(tree) < shape.nodes
  /\ \E up \in tree[Len(tree)].path :
       LET holder == tree[up].kind IN
       \E role \in ToSet(Roles(holder)) : \E kind \in Holds(holder, role) \cap shape.kinds :
         /\ \A b \in Nodes : tree[b].up = up => Follows(holder, role, tree[b].role)
         /\ tree' = Append(tree, [kind |-> kind, role |-> role, up |-> up,
                                  path |-> tree[up].path \cup {Len(tree) + 1}])
  /\ UNCHANGED <<shape, phase, shadowed, todo, scopes, usages>>

-----------------------------------------------------------------------------
(* newLexicalAnyResolver                                                    *)

IsMethod(n) == Children(n, "rname") \cup Children(n, "rtparam") \cup Children(n, "recv") # {}

\* topLevelDeclaresAny: functions, types and values, methods not.
PackageDeclaresAny ==
  \E n \in Nodes :
    /\ tree[n].kind = "ident" /\ tree[n].role \in {"fname", "tname", "name"}
    /\ tree[tree[n].up].up = 1
    /\ ~ (tree[n].role = "fname" /\ IsMethod(tree[n].up))

FileImportsAny == Children(1, "iname") # {}

\* The handler of a node takes each step once for every child in its role, and
\* the steps without a role once, number 0 standing for no child.
Steps(n) ==
  LET plan == Plan(tree[n].kind)
      About(step) ==
        IF \/ step.op \in {"open", "close"}
           \/ step.op = "body" /\ Children(n, step.role) = {}
        THEN {0} ELSE Children(n, step.role)
  IN  UNION {{s} \X About(plan[s]) : s \in DOMAIN plan}

\* Variant: every type specification is an owner, local ones too.
OwnerByType(n, owner) ==
  IF tree[n].up = 1 \/ tree[n].kind = "typespec" THEN n ELSE owner

\* A declaration at the top is its own owner, and everything in it has that
\* owner.
Owner(n, owner) == IF tree[n].up = 1 THEN n ELSE owner

\* inspectNode on node n: a call, unless there is nothing to do.
Call(n, owner) ==
  LET call == [node |-> n, owner |-> Owner(n, owner), steps |-> Steps(n)]
  IN  IF call.steps = {} THEN <<>> ELSE <<call>>

Resolve ==
  /\ phase = "parse" /\ phase' = "walk"
  /\ shadowed' = (PackageDeclaresAny \/ FileImportsAny)
  /\ todo' = Call(1, 1)
  /\ UNCHANGED <<shape, tree, scopes, usages>>

-----------------------------------------------------------------------------
(* The walk                                                                 *)

\* The first step left to the innermost call, for the first child.
At ==
  LET steps == Last(todo).steps IN
    CHOOSE i \in steps : \A j \in steps : i[1] < j[1] \/ (i[1] = j[1] /\ i[2] <= j[2])

Child == At[2]

Doing(op) ==
  /\ phase = "walk" /\ todo # <<>>
  /\ Plan(tree[Last(todo).node].kind)[At[1]].op = op

\* The calls in progress after that step; one with no step left has returned.
Left ==
  LET call == [Last(todo) EXCEPT !.steps = @ \ {At}]
  IN  IF call.steps = {} THEN Front(todo) ELSE Append(Front(todo), call)

OpenScope ==
  /\ Doing("open")
  /\ scopes' = Append(scopes, FALSE)
  /\ todo' = Left
  /\ UNCHANGED <<shape, tree, phase, shadowed, usages>>

\* Variant: a scope is left open.
CloseNothing ==
  /\ Doing("close")
  /\ todo' = Left
  /\ UNCHANGED <<shape, tree, phase, shadowed, scopes, usages>>

\* closeScope does nothing outside all scopes.
CloseScope ==
  /\ Doing("close")
  /\ scopes' = IF scopes = <<>> THEN scopes ELSE Front(scopes)
  /\ todo' = Left
  /\ UNCHANGED <<shape, tree, phase, shadowed, usages>>

\* Nor does declareAnyInCurrentScope.
DeclareName ==
  /\ Doing("declare")
  /\ scopes' = IF scopes = <<>> THEN scopes ELSE [scopes EXCEPT ![Len(scopes)] = TRUE]
  /\ todo' = Left
  /\ UNCHANGED <<shape, tree, phase, shadowed, usages>>

\* Variant: only the innermost scope is asked.
ResolvesInnermost == ~ shadowed /\ (scopes # <<>> => ~ Last(scopes))

ResolvesToUniverseAny == ~ shadowed /\ \A n \in 1 .. Len(scopes) : ~ scopes[n]

\* inspectNode on the child at hand, from a call with its owner.
Inspect == todo' = Left \o Call(Child, Last(todo).owner)

VisitChild ==
  /\ Doing("visit")
  /\ Inspect
  /\ UNCHANGED <<shape, tree, phase, shadowed, scopes, usages>>

\* recordPredeclaredAnyUsage
Records(n) == tree[n].kind = "ident" /\ ResolvesToUniverseAny

\* visitPredeclaredAnySlot and visitCompositeTypeAnySlot
VisitSlot ==
  /\ Doing("slot")
  /\ usages' = IF Records(Child)
               THEN Append(usages, [node |-> Child, owner |-> Last(todo).owner]) ELSE usages
  /\ Inspect
  /\ UNCHANGED <<shape, tree, phase, shadowed, scopes>>

\* inspectFuncDecl passes decl.Body on as an ast.Node, which is not nil even
\* when the *ast.BlockStmt in it is; inspectSimpleStmtNode dereferences it.
VisitBody ==
  /\ Doing("body")
  /\ IF Child = 0 THEN phase' = "panicked" /\ UNCHANGED todo
     ELSE Inspect /\ UNCHANGED phase
  /\ UNCHANGED <<shape, tree, shadowed, scopes, usages>>

Finish ==
  /\ phase = "walk" /\ todo = <<>> /\ phase' = "done"
  /\ UNCHANGED <<shape, tree, shadowed, todo, scopes, usages>>

Next ==
  \/ Grow \/ Resolve
  \/ OpenScope \/ CloseScope \/ DeclareName \/ VisitChild \/ VisitSlot \/ VisitBody
  \/ Finish

Spec == Init /\ [][Next]_vars

-----------------------------------------------------------------------------
(* The Go specification's scopes, on the positions of the tree              *)

\* Node n is in a, or is a itself.
In(n, a) == a \in tree[n].path

\* Node n is in a child of a that has a role of the set.
InRole(n, a, roles) ==
  \E m \in Nodes : tree[m].up = a /\ tree[m].role \in roles /\ In(n, m)

\* The nodes of the innermost block around statement s: what the statement
\* with s in its header spans, the clause, or the block.
InBlockOf(n, s) ==
  LET a == tree[s].up
      clause == tree[a].kind \in {"case", "typecase", "comm"}
  IN  \/ /\ tree[s].role = "assign"
         /\ \E c \in Nodes : /\ tree[c].kind = "typecase" /\ tree[c].up = a
                            /\ InRole(n, c, {"stmts"})
      \/ tree[s].role # "assign" /\ clause /\ InRole(n, a, {"comm", "stmts"})
      \/ tree[s].role # "assign" /\ ~ clause /\ In(n, a)

\* A node after all of s.
After(n, s) == n > s /\ ~ In(n, s)

\* Where the any that d declares is in scope: a parameter in the body, a type
\* parameter in the whole declaration, a local type from its name on, a local
\* variable after its statement, a package or file name everywhere.
Scope(d) ==
  LET s == tree[d].up
      role == tree[d].role
      top == tree[s].up = 1
  IN  {n \in Nodes :
        \/ role = "iname"
        \/ role \in {"tname", "name"} /\ top
        \/ role = "fname" /\ ~ IsMethod(s)
        \/ role \in {"tparam", "rtparam"} /\ In(n, s)
        \/ role \in {"pname", "rname", "key"} /\ InRole(n, s, {"body"})
        \/ role = "tname" /\ ~ top /\ n > d /\ InBlockOf(n, s)
        \/ role \in {"name", "lhs"} /\ ~ top /\ After(n, s) /\ InBlockOf(n, s)}

Declares(d) ==
  /\ tree[d].kind = "ident" /\ tree[d].role \in Names
  /\ tree[d].role = "pname" => tree[tree[d].up].kind # "functype"

\* README.md:129-142, the detection contract: the supported slots.  Of the types
\* of fields it names those of parameters, results and members, not receivers.
Supported ==
  {<<"func", "ptype">>, <<"funclit", "ptype">>, <<"functype", "ptype">>,
   <<"fields", "ftype">>, <<"valuespec", "type">>, <<"typespec", "def">>,
   <<"assert", "asserted">>, <<"array", "elt">>, <<"map", "mkey">>,
   <<"map", "mvalue">>, <<"star", "target">>, <<"call", "fun">>,
   <<"index", "index">>}

\* An any in a supported slot that means the universe any.
Reportable(n) ==
  /\ tree[n].kind = "ident"
  /\ <<tree[tree[n].up].kind, tree[n].role>> \in Supported
  /\ \A d \in Nodes : Declares(d) => n \notin Scope(d)

\* README.md:150: constraints are silent, whatever the slot.
Silent(n) == \E m \in Nodes : tree[m].role = "constraint" /\ In(n, m)

\* No rule: the case list of a type switch, which is not walked.  Only its own
\* any is in no slot (README.md:151); one nested deeper is (README.md:146).
Unwalked(n) ==
  \E m \in Nodes :
    tree[m].role = "list" /\ tree[tree[m].up].kind = "typecase" /\ In(n, m)

Recorded == {usages[u].node : u \in 1 .. Len(usages)}

-----------------------------------------------------------------------------
(* Properties *)

TypeOK ==
  /\ shape \in Shapes
  /\ Len(tree) <= shape.nodes /\ \A n \in Nodes : tree[n].up < n /\ n \in tree[n].path
  /\ phase \in {"parse", "walk", "done", "panicked"}
  /\ shadowed \in BOOLEAN
  /\ scopes \in Seq(BOOLEAN)
  /\ \A t \in 1 .. Len(todo) : todo[t].node \in Nodes /\ todo[t].owner \in Nodes
  /\ \A u \in 1 .. Len(usages) :
       usages[u].owner \in Nodes /\ usages[u].node \in {n \in Nodes : tree[n].kind = "ident"}

\* The flags on the stack of scopes, set in the order of the walk, decide as
\* the scopes of the Go specification do, set by position: the walk of a file
\* records each any that is reportable, once, and no other.  Those it does not
\* come to are excepted here by name; ReportsEverySlot is about them.
RecordsByScope ==
  phase = "done" =>
    /\ Recorded = {n \in Nodes : Reportable(n) /\ ~ Silent(n) /\ ~ Unwalked(n)}
    /\ Len(usages) = Cardinality(Recorded)

\* The steps of a kind that the calls in progress have yet to take.
Pending(op) ==
  UNION {{t} \X {i \in todo[t].steps : Plan(tree[todo[t].node].kind)[i[1]].op = op} :
           t \in DOMAIN todo}

\* Whatever is still to do closes exactly the scopes that are open, so that no
\* declaration outlives its block nor is forgotten in it.  The variables have
\* their types.
ScopesBalance ==
  /\ TypeOK
  /\ phase \in {"walk", "done"} =>
       Len(scopes) + Cardinality(Pending("open")) = Cardinality(Pending("close"))

\* Uses in local declarations and function literals belong to the top-level
\* declaration around them.
OwnerIsTopLevel ==
  \A u \in 1 .. Len(usages) :
    LET owner == usages[u].owner IN tree[owner].up = 1 /\ In(usages[u].node, owner)

\* What README.md says of slots, with no exception: any in a supported slot that
\* means the universe any is reported, nested in a type or not (README.md:125,
\* 146), and even in incomplete code (README.md:154).
ReportsEverySlot ==
  phase \in {"done", "panicked"} =>
    \A n \in Nodes : Reportable(n) /\ ~ Silent(n) => n \in Recorded

=============================================================================
