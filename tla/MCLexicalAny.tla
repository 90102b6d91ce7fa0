---------------------------- MODULE MCLexicalAny ----------------------------
(* Small instances of LexicalAny for TLC. *)
EXTENDS LexicalAny

File == [kind |-> "file", role |-> "file", up |-> 0, path |-> {1}]

Node(kind, role, up, path) ==
  [kind |-> kind, role |-> role, up |-> up, path |-> path]

\* An empty file, a file with a function that has an empty body, one whose body
\* begins with a statement, and one where that is if any := ... { } or
\* for any := ... { }.
MCFile == <<File>>

MCFunction ==
  <<File, Node("func", "decls", 1, {1, 2}), Node("block", "body", 2, {1, 2, 3})>>

MCStatement(statement) ==
  MCFunction \o <<Node(statement, "stmts", 3, {1, 2, 3, 4})>>

MCHeader(statement) ==
  MCStatement(statement) \o <<Node("define", "init", 4, {1, 2, 3, 4, 5}),
                              Node("ident", "lhs", 5, {1, 2, 3, 4, 5, 6})>>

Shape(start, kinds, nodes) == [start |-> start, kinds |-> kinds, nodes |-> nodes]

\* Declarations at the top, types and expressions, and each kind of statement
\* around declarations and uses.
MCShapes ==
  {Shape(MCFile, {"ident", "func", "typespec", "valuespec", "block", "array"}, 6),
   Shape(MCFile, {"ident", "typespec", "fields", "functype", "map", "star", "index"}, 6),
   Shape(MCFunction, {"ident", "block", "funclit", "functype", "call", "valuespec"}, 8),
   Shape(MCFunction, {"ident", "block", "define", "typespec"}, 8),
   Shape(MCHeader("if"), {"ident", "block", "if", "valuespec"}, 10),
   Shape(MCHeader("for"), {"ident", "block", "parts", "valuespec"}, 10),
   Shape(MCStatement("range"), {"ident", "block", "call", "valuespec"}, 8),
   Shape(MCStatement("rangeover"), {"ident", "block", "call", "valuespec"}, 8),
   Shape(MCFunction, {"ident", "block", "if", "for", "define", "valuespec"}, 7),
   Shape(MCStatement("switch"), {"ident", "case", "define", "valuespec"}, 9),
   Shape(MCStatement("typeswitch"), {"ident", "typecase", "define", "valuespec"}, 9),
   Shape(MCStatement("select"), {"ident", "comm", "define", "valuespec"}, 9),
   Shape(MCFunction, {"ident", "assert", "index", "call", "parts", "define"}, 7)}

\* func F() { switch x.(type) { case []any: } }, then a declaration without body
\* func G(), and a function after it: func H(any).
MCUnreported ==
  MCFunction \o
    <<Node("typeswitch", "stmts", 3, 1 .. 4),
      Node("typecase", "clauses", 4, 1 .. 5),
      Node("array", "list", 5, 1 .. 6),
      Node("ident", "elt", 6, 1 .. 7),
      Node("func", "decls", 1, {1, 8}),
      Node("func", "decls", 1, {1, 9}),
      Node("ident", "ptype", 9, {1, 9, 10}),
      Node("block", "body", 9, {1, 9, 11})>>

MCDeclarations == {Shape(MCUnreported, {}, 11)}

=============================================================================
