------------------------------- MODULE MCLexer -------------------------------
(* Texts for Lexer: every short text over some characters. *)
EXTENDS Lexer

Upto(n, S) == UNION {[1 .. k -> S] : k \in 0 .. n}
SomeTexts ==
  {Upto(4, {"0", "1", "9", "a", "e", "x", "b", "p", ".", "+"}),
   {<<"\"">> \o rest : rest \in Upto(6, {"\"", "a", "b", " "})},
   Upto(5, {"\"", "\\", "a", " ", "/", "*"}),
   Upto(3, {"<", ">", "=", "-", ".", ":", "&", "/", "@"}),
   Upto(4, {"'", "\\", "a", "\n", "/"})}
=============================================================================
