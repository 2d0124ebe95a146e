------------------------------- MODULE Parser -------------------------------
(***************************************************************************)
(* The parser of parser.c at work: the parse functions of Grammar run on   *)
(* a stack of frames, over a file whose tokens are chosen as they are      *)
(* read.  Covered are the two tokens the Parser structure keeps, the       *)
(* copies of the lexer used to look ahead, error recovery, the flag that   *)
(* forbids struct initialisers before a block, and precedence climbing.    *)
(*                                                                         *)
(* One action takes one token, reads one further token ahead, or starts    *)
(* one more turn of a loop; what the code does up to there without either  *)
(* (calls, returns, tests, errors) is run by Settle.                       *)
(***************************************************************************)
EXTENDS Grammar, FiniteSets, SequencesExt

CONSTANTS Files,      \* [text, words, more]: a text, then at most so many of these words
          AfterError  \* how many words a file goes on after its first error

VARIABLES
  alphabet,   \* the words of this file
  left,       \* how many of them may still come
  tokens,     \* Parser.current and Parser.previous, and what the lexer copies saw ahead
  machine,    \* had_error, suppress_struct_init, the C stack, the node returned last
  open        \* the brackets consumed and not yet closed, while no error was met

pvars == <<alphabet, left, tokens, machine, open>>

Starters == {"if", "while", "for", "return", "defer", "discard", "static_assert", "resource"}
Opening == [c \in {")", "]", "}"} |-> CASE c = ")" -> "(" [] c = "]" -> "[" [] OTHER -> "{"]
Atomic(k) == [kind |-> k, loosest |-> IF k = "assign" THEN 0 ELSE Atom]
Frame(ops, k) == [ops |-> ops, argument |-> k, marks |-> {}]
Fits(t, w) == t.current = w \/ (w = "ident" /\ t.current \in Identifiers)
AtSyncPoint(t) == t.current = "eof" \/ t.previous = ";" \/ t.current = "}" \/ t.current \in Starters

------------------------------------------------------------------------------
(* Looking ahead: the two scans over a copy of the lexer, token by token.  *)

Less1(n) == IF n > 0 THEN n - 1 ELSE 0
Verdict(s, v) == [s EXCEPT !.verdict = v]

(* The current token is the first one scanned.                             *)
parenthesized_for_has_top_level_semicolon(s, t) ==
  LET outside == s.paren = 0 /\ s.bracket = 0 /\ s.brace = 0
  IN CASE t = "eof" -> Verdict(s, "no")
       [] t = "(" -> [s EXCEPT !.paren = @ + 1]
       [] t = ")" -> IF outside THEN Verdict(s, "no") ELSE [s EXCEPT !.paren = Less1(@)]
       [] t = "[" -> [s EXCEPT !.bracket = @ + 1]
       [] t = "]" -> [s EXCEPT !.bracket = Less1(@)]
       [] t = "{" -> [s EXCEPT !.brace = @ + 1]
       [] t = "}" -> [s EXCEPT !.brace = Less1(@)]
       [] t = ";" /\ outside -> Verdict(s, "yes")
       [] OTHER -> s

(* The current token is the "<" the type arguments open with.              *)
generic_suffix_starts_expression(s, t) ==
  CASE s.at = "types" /\ t \in {"eof", "error"} -> Verdict(s, "no")
    [] s.at = "types" /\ t = "<" -> [s EXCEPT !.depth = @ + 1]
    [] s.at = "types" /\ t \in {">", ">>"} ->
         LET closed == IF t = ">" THEN 1 ELSE 2
         IN [s EXCEPT !.depth = IF @ > closed THEN @ - closed ELSE 1, !.at = IF s.depth > closed THEN "types" ELSE "after"]
    [] s.at = "after" -> IF t = "(" THEN [s EXCEPT !.at = "arguments"] ELSE Verdict(s, IF t \in {".", "{"} THEN "yes" ELSE "no")
    [] s.at = "arguments" /\ t \in {"eof", "error"} -> Verdict(s, "no")
    [] s.at = "arguments" /\ t = "(" -> [s EXCEPT !.depth = @ + 1]
    [] s.at = "arguments" /\ t = ")" -> [s EXCEPT !.depth = @ - 1, !.at = IF s.depth > 1 THEN "arguments" ELSE "end"]
    [] s.at = "end" -> Verdict(s, IF t \in {"->", "{"} THEN "no" ELSE "yes")
    [] OTHER -> s

(* The scan after one more of the tokens before it.                        *)
ScanInput(s, t) == (IF s.by = "for" THEN <<t.current>> ELSE << >>) \o t.ahead
Scanned(s, t) ==
  LET next == ScanInput(s, t)[s.seen + 1]
      after == IF s.by = "for" THEN parenthesized_for_has_top_level_semicolon(s, next) ELSE generic_suffix_starts_expression(s, next)
  IN [after EXCEPT !.seen = @ + 1]

------------------------------------------------------------------------------
(* The machine between two tokens *)

Op(m) == Head(m.frames[1].ops)
Continue(m, ops) == [m EXCEPT !.frames[1].ops = ops \o Tail(@)]
error_at(m) == [m EXCEPT !.had_error = TRUE]
Fault(m, name, test) == IF test THEN [m EXCEPT !.faults = @ \union {name}] ELSE m

(* The next step needs a token, one more token ahead, or is a loop's turn. *)
Waits(m, t) ==
  \/ m.frames = << >>
  \/ /\ m.frames[1].ops # << >>
     /\ LET op == Op(m) IN
        CASE op[1] \in {"take", "maybe", "jump", "sync"} -> TRUE
          [] op[1] \in {"want", "must", "need"} -> Fits(t, op[2])
          [] op[1] = "resync" -> ~AtSyncPoint(t)
          [] op[1] = "while" -> t.current \in op[2]
          [] op[1] = "until" -> t.current \notin op[2]
          [] op[1] = "binary" -> get_precedence(t.current) >= op[2]
          [] op[1] = "ifgreater" -> t.current \in {">", ">>"}
          [] op[1] = "ifpeek" -> t.ahead = << >>
          [] op[1] = "scan" -> op[2].verdict = "open" /\ op[2].seen = Len(ScanInput(op[2], t))
          [] OTHER -> FALSE

Returned(m, k) == [Fault(m, "silent", k = "error" /\ ~m.had_error) EXCEPT !.frames = Tail(@), !.node = Atomic(k)]

(* The functions that are given a node to go on from.                      *)
Extending == {"parse_postfix_from", "make_inc_dec", "parse_assignment_from", "parse_expression_statement_rest",
              "finish_field", "finish_generic_call"}
Called(m, f) ==
  LET given == IF f \in Extending THEN m.node ELSE Atomic("none")
  IN [Fault(m, "confined", f = "parse_statement" /\ m.suppress_struct_init)
        EXCEPT !.frames = <<Frame(Code[f], given.kind)>> \o [@ EXCEPT ![1].ops = Tail(@)], !.node = given]

(* Setting suppress_struct_init comes with the step that puts it back.     *)
SlipSuppress(m, v, ops) == [Continue(m, ops) EXCEPT !.suppress_struct_init = v]
WithSuppressed(m, v, ops) ==
  [Continue(m, ops \o <<<<"restore", m.suppress_struct_init>>>>) EXCEPT !.suppress_struct_init = v]

(* ast_new_binary: the operands left and right of an operator.             *)
Combined(m, prec, leftmost) ==
  [Fault(Continue(m, << >>), "mixed", m.node.loosest <= prec \/ leftmost < prec)
     EXCEPT !.node = [kind |-> "binary", loosest |-> prec]]

Marked(m, w, again) ==
  [Continue(m, IF w \in m.frames[1].marks THEN again ELSE << >>) EXCEPT !.frames[1].marks = @ \union {w}]

Step(m, t) ==
  IF m.frames[1].ops = << >> THEN [m EXCEPT !.frames = Tail(@)]
  ELSE LET op == Op(m)
           Choose(test, a, b) == Continue(m, IF test THEN a ELSE b)
       IN CASE op[1] = "want" -> error_at(Continue(m, << >>))
            [] op[1] = "must" -> error_at(Continue(m, <<Return("error")>>))
            [] op[1] = "need" -> error_at(Continue(m, <<Sync, Return("error")>>))
            [] op[1] = "report" -> error_at(Continue(m, << >>))
            [] op[1] \in {"resync", "while", "until", "binary"} -> Continue(m, << >>)
            [] op[1] = "call" -> Called(m, op[2])
            [] op[1] = "return" -> Returned(m, op[2])
            [] op[1] = "leave" -> [m EXCEPT !.frames = Tail(@)]
            [] op[1] = "if" -> Choose(t.current \in op[2], op[3], op[4])
            [] op[1] = "ifnode" -> Choose(m.node.kind \in op[2], op[3], op[4])
            [] op[1] = "ifargument" -> Choose(m.frames[1].argument \in op[2], op[3], op[4])
            [] op[1] = "ifmarked" -> Choose(op[2] \in m.frames[1].marks, op[3], op[4])
            [] op[1] = "ifpeek" -> Choose(Head(t.ahead) \in op[2], op[3], op[4])
            [] op[1] = "iffree" -> Choose(~m.suppress_struct_init, op[2], op[3])
            [] op[1] = "ifgreater" -> Continue(m, op[3])
            [] op[1] = "scan" /\ op[2].verdict # "open" -> Choose(op[2].verdict = "yes", op[3], op[4])
            [] op[1] = "scan" /\ op[2].verdict = "open" -> Continue(m, <<<<"scan", Scanned(op[2], t), op[3], op[4]>>>>)
            [] op[1] = "mark" -> Marked(m, op[2], op[3])
            [] op[1] = "suppress" -> WithSuppressed(m, op[2], op[3])
            [] op[1] = "restore" -> [Continue(m, << >>) EXCEPT !.suppress_struct_init = op[2]]
            [] op[1] = "node" -> [Continue(m, << >>) EXCEPT !.node = Atomic(op[2])]
            [] op[1] = "group" -> [Continue(m, << >>) EXCEPT !.node.loosest = Atom]
            [] op[1] = "combine" -> Combined(m, op[2], op[3])

(* (The singletons make TLC evaluate every step once.)                     *)
RECURSIVE Run(_, _)
Run(m, t) == IF Waits(m, t) THEN m ELSE CHOOSE r \in {Run(n, t) : n \in {Step(m, t)}} : TRUE
Settle(m, t) == CHOOSE r \in {Run(n, u) : n \in {m}, u \in {t}} : TRUE

------------------------------------------------------------------------------
(* The token stream *)

Doing(names) == machine.frames # << >> /\ tokens.current # "error" /\ Op(machine)[1] \in names

(* lexer_next: after the end of the file it keeps returning TOK_EOF.       *)
Remaining == IF machine.had_error /\ left > AfterError THEN AfterError ELSE left
NextLexed(t) == \/ t \in alphabet /\ Remaining > 0 /\ left' = Remaining - 1
                \/ t = "eof" /\ left' = 0
Coming == IF tokens.ahead = << >> THEN alphabet \union {"eof"} ELSE {Head(tokens.ahead)}

(* advance, up to a token the lexer could not make; m goes on from there.  *)
(* Of the previous token the control only asks whether it is a semicolon.  *)
Fetch(t, prev, m) ==
  /\ IF tokens.ahead # << >> THEN UNCHANGED left ELSE NextLexed(t)
  /\ tokens' = [current |-> t, previous |-> IF prev = ";" THEN ";" ELSE "other", ahead |-> IF tokens.ahead = << >> THEN << >> ELSE Tail(tokens.ahead)]
  /\ machine' = IF t = "error" THEN m ELSE Settle(m, tokens')
  /\ UNCHANGED alphabet

(* What is open once token t is consumed.                                  *)
Nested(t) ==
  CASE t \in {"(", "[", "{"} -> Append(open, t)
    [] t \in DOMAIN Opening /\ open # << >> /\ Last(open) = Opening[t] -> Front(open)
    [] t \in DOMAIN Opening /\ (open = << >> \/ Last(open) # Opening[t]) -> Append(open, "stray")
    [] OTHER -> open

advance(m) == /\ \E t \in Coming : Fetch(t, tokens.current, m)
              /\ open' = IF m.had_error THEN << >> ELSE Nested(tokens.current)

(* A token the lexer could not make is reported and passed over.           *)
SkipErrorToken ==
  /\ machine.frames # << >> /\ tokens.current = "error"
  /\ \E t \in Coming : Fetch(t, tokens.previous, error_at(machine))
  /\ open' = << >>

(* match, and consume when the token is the expected one.                  *)
Consume == Doing({"take", "want", "must", "need"}) /\ advance(Continue(machine, << >>))

(* synchronize: at least one token, then up to where a statement may start *)
SlipSynchronize ==
  IF AtSyncPoint(tokens)
  THEN /\ Doing({"sync", "resync"}) /\ machine' = Settle(Continue(machine, << >>), tokens)
       /\ UNCHANGED <<alphabet, left, tokens, open>>
  ELSE Doing({"sync", "resync"}) /\ advance(Continue(machine, <<<<"resync">>>>))
synchronize == Doing({"sync", "resync"}) /\ advance(Continue(machine, <<<<"resync">>>>))

(* parse_binary_from: an operator at least as tight as min takes the       *)
(* operand so far as its left, and on its right only what binds tighter.   *)
SlipRightOperand(prec) == <<Call("parse_unary"), Binary(prec)>>
right_operand(prec) == <<Call("parse_unary"), Binary(prec + 1)>>
parse_binary_from ==
  /\ Doing({"binary"})
  /\ LET prec == get_precedence(tokens.current)
     IN advance([machine EXCEPT !.frames = <<Frame(right_operand(prec), "none")>>
                   \o [@ EXCEPT ![1].ops = <<<<"combine", prec, machine.node.loosest>>>> \o @]])

(* match_generic_greater: one half of ">>" is left as the current token.   *)
match_generic_greater ==
  /\ Doing({"ifgreater"})
  /\ LET m == Continue(machine, Op(machine)[2])
     IN IF tokens.current = ">" THEN advance(m)
        ELSE /\ tokens' = [tokens EXCEPT !.current = ">", !.previous = "other"]
             /\ machine' = Settle(m, tokens')
             /\ UNCHANGED <<alphabet, left, open>>

(* A copy of the lexer reads one token further.                            *)
LookFurther ==
  /\ Doing({"ifpeek", "scan"})
  /\ \E t \in alphabet \union {"eof"} : NextLexed(t) /\ tokens' = [tokens EXCEPT !.ahead = Append(@, t)]
  /\ machine' = Settle(machine, tokens')
  /\ UNCHANGED <<alphabet, open>>

Within(m) == machine' = Settle(m, tokens) /\ UNCHANGED <<alphabet, left, tokens, open>>
NextTurn == /\ Doing({"while", "until"})
            /\ Within(Continue(machine, Op(machine)[3] \o <<Op(machine)>>))
DoJump == /\ Doing({"jump"})
          /\ Within([machine EXCEPT !.frames[1] = Frame(Code[Op(machine)[2]], @.argument)])
(* The text of a literal decides: out of range, not "{0}", undecodable.    *)
LiteralChecked == /\ Doing({"maybe"})
                  /\ \E ops \in {<< >>, Op(machine)[2]} : Within(Continue(machine, ops))

------------------------------------------------------------------------------
(* parser_init reads the first token; parse_program is called once.        *)
ParseInit ==
  /\ \E f \in Files : /\ alphabet = f.words /\ left = f.more
                      /\ tokens = [current |-> "eof", previous |-> "other", ahead |-> f.text]
  /\ open = << >>
  /\ machine = [frames |-> <<Frame(<<Take>> \o parse_program, "none")>>, node |-> Atomic("none"),
                had_error |-> FALSE, suppress_struct_init |-> FALSE, faults |-> {}]

ParseNext ==
  \/ SkipErrorToken \/ Consume \/ synchronize \/ parse_binary_from \/ match_generic_greater
  \/ LookFurther \/ NextTurn \/ DoJump \/ LiteralChecked

ParseSpec == ParseInit /\ [][ParseNext]_pvars /\ WF_pvars(ParseNext)

Parsed == machine.frames = << >>

(* A file without a reported error has its parentheses, brackets and       *)
(* braces in balance, however the parse functions divided them among       *)
(* themselves and whichever way the lookahead sent them.                   *)
AcceptedIsBalanced == Parsed /\ ~machine.had_error => open = << >>

(* No function returns an error node before a diagnostic was reported:     *)
(* a tree handed on as accepted holds none.                                *)
ErrorsAreReported == "silent" \notin machine.faults

(* Every operand of a binary operator is an atom, is parenthesised, or is  *)
(* built by operators that bind tighter (on the left: or as tight).        *)
GroupedByPrecedence == "mixed" \notin machine.faults

(* Struct initialisers are never forbidden where a statement starts: every *)
(* way out of a condition puts suppress_struct_init back.                  *)
StatementsStartFree == "confined" \notin machine.faults

=============================================================================
