------------------------------- MODULE Lexer --------------------------------
(***************************************************************************)
(* lexer_next of lexer.c on one file, token after token, and the two       *)
(* places of parser.c that read the text of a token again: the value of an *)
(* integer and the joining of adjacent string literals.                    *)
(***************************************************************************)
EXTENDS Integers, Sequences, FiniteSets

CONSTANT Texts   \* families of sequences of characters

(* A character is any string but the one that stands for the end. *)
ASSUME TextsAssumption == \A family \in Texts : family \subseteq Seq(STRING \ {"end"})

VARIABLES text,     \* the file
          at,       \* Lexer.current: the next character, counted from 1
          scanned   \* Parser.previous and Parser.current, the last two tokens
                    \* returned: [kind, from, to], to exclusive

lvars == <<text, at, scanned>>

Digits == {"0", "1", "9"}
Letters == {"a", "b", "e", "g", "o", "p", "x"}
Blanks == {" ", "\n"}
DigitValue == [c \in {"0", "1", "9", "a", "b", "e"} |->
                 CASE c = "0" -> 0 [] c = "1" -> 1 [] c = "9" -> 9 [] c = "a" -> 10 [] c = "b" -> 11 [] c = "e" -> 14]
IsDigit(c, radix) == c \in DOMAIN DigitValue /\ DigitValue[c] < radix   \* is_integer_digit_for_radix
RadixDigits(radix) == {c \in DOMAIN DigitValue : DigitValue[c] < radix}

Past == Len(text) + 1
peek(i) == IF i < Past THEN text[i] ELSE "end"

(* The first place from i on with a character outside S.                   *)
Skip(i, S) == CHOOSE j \in i .. Past : peek(j) \notin S /\ \A k \in i .. j - 1 : peek(k) \in S
Token(kind, i, j) == [kind |-> kind, from |-> i, to |-> j]

SlipLineComment(j) == peek(j) = "/"
starts_line_comment(j) == peek(j) = "/" /\ peek(j + 1) = "/"

(* Where the next token starts; a comment that is not closed is an error   *)
(* that takes the rest of the file.                                        *)
CommentEnd(i) == {k \in i .. Past - 2 : text[k] = "*" /\ text[k + 1] = "/"}
skip_whitespace_and_comments[i \in 1 .. Past] ==
  CASE peek(i) \in Blanks -> skip_whitespace_and_comments[i + 1]
    [] starts_line_comment(i) -> skip_whitespace_and_comments[Skip(i, {text[k] : k \in DOMAIN text} \ {"\n"})]
    [] peek(i) = "/" /\ peek(i + 1) = "*" /\ CommentEnd(i + 2) # {} ->
         skip_whitespace_and_comments[(CHOOSE k \in CommentEnd(i + 2) : \A l \in CommentEnd(i + 2) : k <= l) + 2]
    [] peek(i) = "/" /\ peek(i + 1) = "*" /\ CommentEnd(i + 2) = {} -> [unterminated |-> TRUE, place |-> i]
    [] OTHER -> [unterminated |-> FALSE, place |-> i]

scan_identifier(i) == Token("ident", i, Skip(i, Letters \union Digits))

scan_hex_number(i) ==
  LET whole == Skip(i + 2, RadixDigits(16))
      point == peek(whole) = "."
      mantissa == IF point THEN Skip(whole + 1, RadixDigits(16)) ELSE whole
      digits == mantissa - (i + 2) - (IF point THEN 1 ELSE 0)
      sign == IF peek(mantissa + 1) \in {"+", "-"} THEN mantissa + 2 ELSE mantissa + 1
      exponent == Skip(sign, Digits)
      Word(j) == Skip(j, Letters \union Digits)
  IN IF digits = 0 THEN Token("error", i, Skip(mantissa, Letters \union Digits \union {"."}))
     ELSE IF peek(mantissa) = "p"
          THEN IF peek(sign) \notin Digits THEN Token("error", i, Word(sign))
               ELSE IF Word(exponent) > exponent THEN Token("error", i, Word(exponent))
               ELSE Token("float", i, exponent)
     ELSE IF point \/ Word(mantissa) > mantissa THEN Token("error", i, Word(mantissa))
     ELSE Token("int", i, mantissa)

(* The text after the digits is part of the number, valid or not.          *)
SlipPrefixed(i, radix) ==
  LET end == Skip(i + 2, RadixDigits(radix)) IN Token(IF end = i + 2 THEN "error" ELSE "int", i, Skip(end, Letters \union Digits))
scan_prefixed_integer(i, radix) ==
  LET end == Skip(i + 2, RadixDigits(radix))
      word == Skip(end, Letters \union Digits)
  IN Token(IF end = i + 2 \/ word > end THEN "error" ELSE "int", i, word)

scan_decimal(i) ==
  LET whole == Skip(i, Digits)
      fraction == IF peek(whole) = "." /\ peek(whole + 1) \in Digits THEN Skip(whole + 1, Digits) ELSE whole
      sign == IF peek(fraction + 1) \in {"+", "-"} THEN fraction + 2 ELSE fraction + 1
  IN IF peek(fraction) # "e" THEN Token(IF fraction > whole THEN "float" ELSE "int", i, fraction)
     ELSE IF peek(sign) \notin Digits THEN Token("error", i, sign) ELSE Token("float", i, Skip(sign, Digits))

scan_number(i) ==
  CASE text[i] = "0" /\ peek(i + 1) = "x" -> scan_hex_number(i)
    [] text[i] = "0" /\ peek(i + 1) = "b" -> scan_prefixed_integer(i, 2)
    [] text[i] = "0" /\ peek(i + 1) = "o" -> scan_prefixed_integer(i, 8)
    [] OTHER -> scan_decimal(i)

(* A backslash takes the character after it along, a quotation mark too.   *)
closing_quote[i \in 1 .. Past + 1] ==
  IF peek(i) \in {"\"", "end"} THEN i
  ELSE IF peek(i) = "\\" /\ peek(i + 1) # "end" THEN closing_quote[i + 2] ELSE closing_quote[i + 1]

(* A string that is not closed is reported at its first character, and the *)
(* rest of the file is gone.                                               *)
scan_string(i) ==
  IF closing_quote[i + 1] >= Past THEN Token("error", i, Past) ELSE Token("string", i, closing_quote[i + 1] + 1)

scan_char(i) ==
  LET body == IF peek(i + 1) = "\\" THEN i + 3 ELSE i + 2
  IN IF peek(i + 1) = "end" \/ (peek(i + 1) = "\\" /\ peek(i + 2) = "end") THEN Token("error", i, Past)
     ELSE IF peek(body) # "'" THEN Token("error", i, body) ELSE Token("char", i, body + 1)

arithmetic_tail(c) ==
  CASE c = "+" -> {"+", "="} [] c = "-" -> {"-", "=", ">"} [] c \in {"*", "/"} -> {"="} [] OTHER -> {}
comparison_tail(c) ==
  CASE c = ":" -> {":", "="} [] c \in {"=", "!"} -> {"="} [] OTHER -> {}
bit_tail(c) ==
  CASE c = "&" -> {"&", "="} [] c = "|" -> {"|", "="} [] OTHER -> {}
Tail2(c) == arithmetic_tail(c) \union comparison_tail(c) \union bit_tail(c)
ellipsis_end(i) == IF peek(i + 1) = "." /\ peek(i + 2) = "." THEN i + 3 ELSE i + 1
angle_end(i) ==
  CASE peek(i + 1) = text[i] -> IF peek(i + 2) = "=" THEN i + 3 ELSE i + 2
    [] peek(i + 1) = "=" -> i + 2
    [] OTHER -> i + 1
operator_end(i) ==
  CASE text[i] = "." -> ellipsis_end(i)
    [] text[i] \in {"<", ">"} -> angle_end(i)
    [] OTHER -> IF peek(i + 1) \in Tail2(text[i]) THEN i + 2 ELSE i + 1
Brackets == {"(", ";", ","}
Punctuation == Brackets \union {".", "+", "-", "*", "/", ":", "=", "!", "<", ">", "&", "|"}

unexpected_character(i) == Token("error", i, i + 1)

lexer_next(i) ==
  LET start == skip_whitespace_and_comments[i]
      j == start.place
  IN CASE start.unterminated -> Token("error", j, Past)
       [] ~start.unterminated /\ j = Past -> Token("eof", j, j)
       [] ~start.unterminated /\ j < Past ->
            CASE text[j] \in Letters -> scan_identifier(j)
              [] text[j] \in Digits -> scan_number(j)
              [] text[j] = "\"" -> scan_string(j)
              [] text[j] = "'" -> scan_char(j)
              [] text[j] \in Punctuation -> Token("operator", j, operator_end(j))
              [] OTHER -> unexpected_character(j)

Finished == scanned # << >> /\ scanned[Len(scanned)].kind = "eof"

LexNext == /\ ~Finished
           /\ scanned' = Append(IF Len(scanned) = 2 THEN Tail(scanned) ELSE scanned, lexer_next(at))
           /\ at' = lexer_next(at).to
           /\ UNCHANGED text
LexInit == (\E family \in Texts : text \in family) /\ at = 1 /\ scanned = << >>
LexSpec == LexInit /\ [][LexNext]_lvars /\ WF_lvars(LexNext)

------------------------------------------------------------------------------
(* parser.c *)

(* parse_integer_u64 without its range check: the radix from the prefix,   *)
(* and every further character a digit of it.                              *)
radix_of(t) ==
  LET second == IF t.to - t.from >= 2 /\ text[t.from] = "0" THEN text[t.from + 1] ELSE "none"
  IN CASE second = "x" -> 16 [] second = "b" -> 2 [] second = "o" -> 8 [] OTHER -> 10
ConvertsToInteger(t) ==
  LET first == IF radix_of(t) = 10 THEN t.from ELSE t.from + 2
  IN first < t.to /\ \A k \in first .. t.to - 1 : IsDigit(text[k], radix_of(t))

SlipJoin(first, last, length) == SubSeq(text, first.from + 1, first.from + length)

(* parse_adjacent_string_literals: one literal is copied; two that touch   *)
(* are taken from the text as they stand; the others are read again from   *)
(* the text, over blanks, until something else comes.                      *)
parse_adjacent_string_literals(first, last, length) ==
  LET copy[j \in 1 .. Past] ==
        IF j >= last.to THEN << >>
        ELSE LET k == Skip(j, Blanks)
             IN IF peek(k) # "\"" THEN << >>
                ELSE SubSeq(text, k + 1, closing_quote[k + 1] - 1) \o copy[closing_quote[k + 1] + 1]
  IN IF last.from = first.to THEN SubSeq(text, first.from + 1, first.from + length)
     ELSE SubSeq(text, first.from + 1, first.to - 2) \o copy[first.to]

------------------------------------------------------------------------------
Tokens(kind) == {scanned[k] : k \in {l \in DOMAIN scanned : scanned[l].kind = kind}}
Body(t) == SubSeq(text, t.from + 1, t.to - 2)

(* An operator is the longest one spelled at its place: none of the tokens *)
(* the parser knows is cut in two (">>=" is not ">>" and "=").             *)
Spellings == {<<"+", "+">>, <<"+", "=">>, <<"-", "-">>, <<"-", "=">>, <<"-", ">">>, <<":", ":">>, <<":", "=">>,
              <<"=", "=">>, <<"!", "=">>, <<"<", "=">>, <<">", "=">>, <<"<", "<">>, <<">", ">">>, <<"<", "<", "=">>,
              <<">", ">", "=">>, <<"&", "&">>, <<"|", "|">>, <<".", ".", ".">>, <<"*", "=">>, <<"/", "=">>, <<"&", "=">>, <<"|", "=">>}
OperatorsAreLongest ==
  \A t \in Tokens("operator") : \A s \in Spellings :
    t.from + Len(s) < Past + 1 /\ SubSeq(text, t.from, t.from + Len(s) - 1) = s => t.to >= t.from + Len(s)

(* What the lexer calls an integer, parse_integer_u64 can convert: the     *)
(* only way it fails on such a token is by its range.                      *)
IntegersConvert == \A t \in Tokens("int") : ConvertsToInteger(t)

(* Between two tokens there is nothing but blanks and comments: no         *)
(* character of a program is dropped without an error.                     *)
NothingIsDropped ==
  scanned # << >> =>
    LET before == IF Len(scanned) = 1 THEN 1 ELSE scanned[1].to
    IN \A j \in before .. scanned[Len(scanned)].from - 1 :
         \/ text[j] \in Blanks
         \/ \E b \in before .. j : text[b] = "/" /\ peek(b + 1) = "/" /\ \A l \in b .. j : text[l] # "\n"
         \/ \E b \in before .. j : text[b] = "/" /\ peek(b + 1) = "*" /\ \A l \in b + 2 .. j - 2 : text[l] # "*" \/ text[l + 1] # "/"

(* The tokens are the text, in the pieces the parser expects.              *)
TokensCoverTheText == OperatorsAreLongest /\ NothingIsDropped

(* "C-style adjacent string literals form one logical literal"             *)
(* (parser.c:935): what they hold, one after the other, is what            *)
(* parse_adjacent_string_literals comes to when it reads the text again.   *)
(* That is not so of literals with comments between them, and of just two  *)
(* that touch and are not both empty.                                      *)
AdjacentStringsJoin ==
  Finished =>
    LET token[k \in 1 .. Past] == lexer_next(IF k = 1 THEN 1 ELSE token[k - 1].to)
        held[k \in 0 .. Past] == IF k = 0 THEN << >> ELSE held[k - 1] \o Body(token[k])
        Between(k) == {text[j] : j \in token[k].to .. token[k + 1].from - 1}
    IN \A n \in 1 .. Past - 1 :
         (/\ \A k \in 1 .. n : token[k].kind = "string"
          /\ token[n + 1].kind = "eof"
          /\ \A k \in 1 .. n - 1 : Between(k) \subseteq Blanks
          /\ n = 2 => Between(1) # {})
         => parse_adjacent_string_literals(token[1], token[n], Len(held[n])) = held[n]

(* What the parser reads again from the text of a literal token            *)
(* (parse_integer_u64, parse_adjacent_string_literals) is what the lexer   *)
(* took the token for.                                                     *)
LiteralsAreReadBack == IntegersConvert /\ AdjacentStringsJoin

=============================================================================
