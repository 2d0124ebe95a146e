----------------------------- MODULE MCModules -----------------------------
EXTENDS Modules
A == <<"a">>
AB == <<"a", "b">>
X == <<"x">>
ModuleStmt(f, name) == [file |-> f, kind |-> "module", name |-> name]
ImportStmt(f, name, alias) == [file |-> f, kind |-> "import", name |-> name, alias |-> alias]
Decl(f, name, sort, exported, types, uses) ==
  [file |-> f, kind |-> "decl", name |-> name, sort |-> sort, exported |-> exported, types |-> types, uses |-> uses,
   argument |-> "s32", members |-> IF sort = "enum" THEN {"m"} ELSE {}]
Mention(path, as, locals) == [path |-> path, as |-> as, locals |-> locals, argument |-> "s32"]
Scalar == [named |-> << >>, parts |-> << >>]
Nominal(path) == [named |-> path, parts |-> << >>]
Of(type) == [named |-> << >>, parts |-> <<Scalar, type>>]
Applied(path, type) == [named |-> path, parts |-> <<type>>]
Sequences(n, S) == UNION {[1 .. k -> S] : k \in 0 .. n}

(* What the directives of a file may be, among two other modules           *)
Directives ==
  {ImportStmt(1, A, << >>), ImportStmt(1, A, X), ImportStmt(1, AB, << >>), ImportStmt(1, AB, A), ImportStmt(1, X, << >>),
   ModuleStmt(1, X), ModuleStmt(1, A), Decl(1, "g", "func", FALSE, << >>, << >>)}
FileA(uses) == <<ModuleStmt(2, A), Decl(2, "f", "func", TRUE, << >>, uses)>>
FileAB == <<ModuleStmt(3, AB), Decl(3, "f", "func", TRUE, << >>, << >>)>>
SomeDirectives ==
  UNION {{d \o FileA(<< >>) \o FileAB, FileA(<< >>) \o d \o FileAB} : d \in Sequences(3, Directives) \ {<< >>}}

(* What the names of a file may mean, with the files in either order       *)
Paths == {<<"f">>, <<"a", "f">>, <<"x", "f">>, <<"a", "b", "f">>, <<"a", "b", "m">>, <<"a", "b">>, <<"b", "m">>, <<"x", "f", "y">>, <<"a", "b", "f", "y">>}
Bindings == {<< >>, <<ImportStmt(1, A, << >>)>>, <<ImportStmt(1, AB, << >>), ImportStmt(1, A, << >>)>>,
             <<ImportStmt(1, A, << >>), ImportStmt(1, AB, << >>)>>, <<ImportStmt(1, AB, X), ImportStmt(1, A, << >>)>>}
Ways == {<<"value", {}>>, <<"value", {"a"}>>, <<"value", {"f"}>>, <<"call", {}>>, <<"call", {"x"}>>, <<"type", {}>>}
SomeNames ==
  {file[1] \o <<Decl(1, IF use.locals = {"f"} THEN "a" ELSE "f", "func", FALSE, << >>, <<use>>)>> \o file[2] :
     use \in {Mention(p, w[1], w[2]) : <<p, w>> \in {q \in Paths \X Ways : q[2][2] = {} \/ Head(q[1]) \in q[2][2] \cup {"a"}}},
     file \in UNION {{<<bound, <<ModuleStmt(2, A), Decl(2, "b", sort, shown, << >>, << >>), Decl(2, "f", "func", ~ shown, << >>, << >>)>>
                               \o <<ModuleStmt(3, AB), Decl(3, "f", more, TRUE, << >>, << >>)>>>>,
                      <<<<ModuleStmt(3, AB), Decl(3, "f", more, shown, << >>, << >>), [Decl(3, "f", "func", TRUE, << >>, << >>) EXCEPT !.argument = "f64"],
                          ModuleStmt(2, A), Decl(2, "b", sort, TRUE, << >>, << >>)>> \o bound, << >>>>} :
                     bound \in Bindings, sort \in {"enum", "const", "struct"}, more \in {"func", "const"}, shown \in BOOLEAN}}

(* Interfaces of two structs and a function                                *)
SomeInterfaces ==
  {<<ModuleStmt(2, A), Decl(2, "S", "struct", s, <<t>>, << >>), Decl(2, "T", "struct", e, <<u>>, << >>), Decl(2, "E", "enum", e, << >>, << >>),
     Decl(2, "f", "func", TRUE, <<v, Scalar>>, << >>), ImportStmt(1, A, << >>), Decl(1, "R", "struct", r, <<w>>, << >>)>> :
     s, e, r \in BOOLEAN, t \in {Scalar, Of(Nominal(<<"T">>))}, u \in {Scalar, Nominal(<<"E">>), Applied(<<"S">>, Nominal(<<"a", "T">>))},
     v \in {Nominal(<<"S">>), Of(Of(Nominal(<<"S">>))), Applied(<<"S">>, Of(Nominal(<<"T">>))), Of(Nominal(<<"f">>))},
     w \in {Scalar, Nominal(<<"a", "S">>)}}
(* Methods, where the statement before is of the same file                 *)
SomeMethods ==
  {<<ModuleStmt(2, A), Decl(2, "f", "func", FALSE, << >>, << >>), Decl(2, "S", "struct", TRUE, << >>, <<Mention(path, "call", {})>>), Decl(2, "c", "const", FALSE, << >>, << >>),
     ImportStmt(1, A, << >>), Decl(1, "g", "func", FALSE, << >>, <<Mention(<<"a", "S">>, "type", {})>>)>> : path \in Paths}
SomeSources == {SomeDirectives, SomeNames, SomeInterfaces, SomeMethods}

(* Methods wherever they stand                                             *)
MethodsFirst ==
 {{<<ImportStmt(1, A, << >>), Decl(1, "g", "func", FALSE, << >>, << >>),
     ModuleStmt(2, A), Decl(2, "S", "struct", TRUE, << >>, <<Mention(path, "call", {})>>), Decl(2, "f", "func", FALSE, << >>, << >>)>> : path \in Paths}}
=============================================================================
