------------------------------ MODULE MCParser ------------------------------
(* Files for Parser: every continuation of a beginning by the words given. *)
EXTENDS Parser

SomeFiles == {
  [text |-> << >>, words |-> {"ident", "+", "*", "==", "(", ")", ";"}, more |-> 5],
  [text |-> <<"ident">>, words |-> {"=", "+=", "-", "++", "&", "discard", "[", "]", ".", "ident", ";"}, more |-> 4],
  [text |-> <<"if", "ident">>, words |-> {"{", "}", "ident", "=", ";", "else", "(", ")"}, more |-> 5],
  [text |-> <<"ident", ":=", "if">>, words |-> {"ident", "{", "}", "else", "if", ";"}, more |-> 6],
  [text |-> <<"for", "(">>, words |-> {")", ";", "ident", "in", ":", "{"}, more |-> 4],
  [text |-> <<"for">>, words |-> {"ident", ":", "{", "}", "("}, more |-> 4],
  [text |-> <<"ident", "::", "<">>, words |-> {"ident", ">", "(", ")", "{", ";"}, more |-> 5],
  [text |-> <<"ident", "::", "<">>, words |-> {"ident", "...", ":", ",", ">", "struct"}, more |-> 4],
  [text |-> <<"ident", ":">>, words |-> {"ident", "::", "<", ">", ">>", ",", ";"}, more |-> 7],
  [text |-> <<"ident", ":">>, words |-> {"readonly", "volatile", "*", "[", "]", "int", "void", "opaque", ";", "="}, more |-> 5],
  [text |-> <<"ident", ":", "cfn">>, words |-> {"(", ")", "call", "=", "cdecl", ",", "void", "...", "->"}, more |-> 6],
  [text |-> <<"ident", "::", "struct", "{">>, words |-> {"ident", "#", "operators", ":", "::", "(", ")", "{", "}", ";", "void"}, more |-> 4],
  [text |-> <<"ident", "::", "struct", "{", "ident", "::", "<">>, words |-> {"ident", ">", "(", ")", "{", "}"}, more |-> 6],
  [text |-> <<"ident", "::", "resource", "{", "operators", "{">>, words |-> {"unary", "-", "+", "=", "ident", ";", "}"}, more |-> 6],
  [text |-> <<"ident", "::", "enum">>, words |-> {"(", ")", "void", "{", "}", "ident", ",", "="}, more |-> 6],
  [text |-> <<"#", "extern", "(", "c">>, words |-> {",", ")", "name", "call", "=", "string", "cdecl", "ident", "::", "(", ";"}, more |-> 7],
  [text |-> <<"#", "repr", "(", "c">>, words |-> {",", ")", "packed", "align", "call", "=", "int", "cdecl"}, more |-> 6],
  [text |-> <<"#", "repr", "(", "c", ",", "call", "=", "cdecl", ")", "ident", "::">>, words |-> {"struct", "union", "enum", "(", ")", "{", "}", ";"}, more |-> 4],
  [text |-> <<"#", "repr", "(", "c", ",", "packed", ")", "ident", "::">>, words |-> {"struct", "union", "enum", "(", ")", "{", "}", ";"}, more |-> 4],
  [text |-> <<"#", "repr", "(", "c", ")", "ident", "::">>, words |-> {"struct", "enum", "(", ")", "{", "}", "ident", ";"}, more |-> 4],
  [text |-> <<"#">>, words |-> {"discardable", "#", "ident", "::", "(", ")", "{", "enum", "}"}, more |-> 6],
  [text |-> << >>, words |-> {"#", "if", "elif", "else", "endif", "ident", ";"}, more |-> 6],
  [text |-> <<"switch", "ident">>, words |-> {"{", "}", "case", "default", ":", "ident", ";"}, more |-> 6],
  [text |-> << >>, words |-> {"while", "return", "defer", "break", "{", "}", "ident", ";"}, more |-> 5],
  [text |-> <<"asm">>, words |-> {"volatile", "(", ")", "string", ":", "ident", ",", ";"}, more |-> 8],
  [text |-> <<"static_assert">>, words |-> {"(", ")", ",", "ident", "string", ";"}, more |-> 6],
  [text |-> << >>, words |-> {"module", "import", "export", "as", ".", "ident", ";", "#"}, more |-> 5],
  [text |-> <<"ident", "(">>, words |-> {"ident", ",", "...", ")", ".", "{", "}", "="}, more |-> 5],
  [text |-> <<"ident", ":=">>, words |-> {"size_of", "cast", "(", ")", "::", "void", ",", "ident", ";"}, more |-> 6],
  [text |-> <<"ident", ":=">>, words |-> {"int", "string", "true", "[", "]", "{", "}", ",", ";"}, more |-> 5],
  [text |-> << >>, words |-> {"error", "#", "if", "(", "}", "ident", ";"}, more |-> 5],
  [text |-> <<"ident", ",">>, words |-> {"ident", ",", ":", "void", "=", ";"}, more |-> 6],
  [text |-> <<"ident", "::", "(">>, words |-> {"ident", ",", ":", "void", "...", ")", "->", "{", "}", "="}, more |-> 6],
  [text |-> <<"ident", ".", "ident", "::", "<">>, words |-> {"ident", ">", ".", "{", "}", "=", "(", ")", ";"}, more |-> 5] }
=============================================================================
