------------------------------ MODULE ParseOps ------------------------------
(***************************************************************************)
(* The vocabulary of the recursive-descent parser of parser.c.  A parse    *)
(* function is written as the sequence of steps it takes; the module       *)
(* Parser runs them one at a time.  A step is a tuple whose first element  *)
(* names it.  Tokens are the spellings of the TokenType members; an        *)
(* identifier whose text the parser compares (token_text_equals) is a      *)
(* token of its own, every other one is "ident".                           *)
(***************************************************************************)
EXTENDS Naturals, Sequences

(* The contextual words: TOK_IDENT to the lexer, compared by their text.   *)
Identifiers == {"ident", "module", "import", "export", "as", "discardable", "repr", "extern", "c", "packed",
                "align", "call", "name", "cdecl", "unary", "operators", "elif", "endif"}

TypeWords == {"s64", "usize", "void"}
AssignmentOperators == {"=", "+="}
PrefixOperators == {"++", "--", "-", "!", "move", "&", "*"}

get_precedence(t) ==
  CASE t = "||" -> 1 [] t = "&&" -> 2 [] t = "==" -> 3 [] t = "<" -> 4 [] t = "|" -> 5 [] t = "^" -> 6
    [] t = "&" -> 7 [] t = ">>" -> 8 [] t \in {"+", "-"} -> 9 [] t = "*" -> 10 [] OTHER -> 0
LogicalOr == 1
Atom == 11    \* binds tighter than every binary operator

(* What node kinds may stand left of an assignment or of ++ and --.        *)
is_assignable == {"ident", "path", "field", "index", "deref"}
for_initializer_is_allowed == {"var_decl", "var_decl_group", "const_decl", "expr_stmt"}
node_is_exportable_declaration == {"var_decl", "var_decl_group", "func_decl", "discardable_func", "struct_decl", "enum_decl", "const_decl"}

(***************************************************************************)
(* Steps.  "consume" in the code reports an error when the token differs;  *)
(* its callers then go on (Want), return an error node (Must), or first    *)
(* synchronize (Need).                                                     *)
(***************************************************************************)
Take == <<"take">>                                    \* advance
Want(t) == <<"want", t>>
Must(t) == <<"must", t>>
Need(t) == <<"need", t>>
Report == <<"report">>                                \* error_at
Sync == <<"sync">>                                    \* synchronize
Return(k) == <<"return", k>>
Call(f) == <<"call", f>>
If(T, a, b) == <<"if", T, a, b>>                      \* check
Match(T, a) == <<"if", T, <<Take>> \o a, << >>>>      \* match
Until(T, a) == <<"until", T \union {"eof"}, a>>       \* while (!check)
While(T, a) == <<"while", T, a>>
IfNode(K, a, b) == <<"ifnode", K, a, b>>              \* on the node just returned
IfArgument(K, a, b) == <<"ifargument", K, a, b>>      \* on the node the function was given
IfPeek(T, a, b) == <<"ifpeek", T, a, b>>              \* peek_next_token_type
IfFree(a, b) == <<"iffree", a, b>>                    \* !suppress_struct_init
WithSuppress(v, a) == <<"suppress", v, a>>            \* set, parse, restore
Maybe(a) == <<"maybe", a>>                            \* depends on the text of a literal
Mark(w, again) == <<"mark", w, again>>                \* a flag of the function, set once
IfMarked(w, a, b) == <<"ifmarked", w, a, b>>
Jump(f) == <<"jump", f>>                              \* the next turn of a loop
Node(k) == <<"node", k>>                              \* the node so far
Binary(min) == <<"binary", min>>                      \* parse_binary_from
IfGreater(a, b) == <<"ifgreater", a, b>>              \* match_generic_greater
Scanning(by) == [by |-> by, seen |-> 0, verdict |-> "open", at |-> "types", depth |-> 1, paren |-> 0, bracket |-> 0, brace |-> 0]
IfGenericExpression(a, b) == <<"scan", Scanning("generic"), a, b>>   \* generic_suffix_starts_expression
IfCStyle(a, b) == <<"scan", Scanning("for"), a, b>>                  \* parenthesized_for_has_top_level_semicolon
Group == <<"group">>                                  \* closed by a parenthesis
Leave == <<"leave">>                                  \* return the node at hand
Fail == <<Report, Sync, Return("error")>>
Expression == Call("parse_assignment")
Condition == WithSuppress(TRUE, <<Expression>>)
CommaList(item) == item \o <<While({","}, <<Take>> \o item)>>

=============================================================================
