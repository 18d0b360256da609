----------------------------- MODULE AwkSyntax ------------------------------
(***************************************************************************)
(* How docs/awk.md writes an awk program down: the reference for AwkParser *)
(* and for the reader of the action's text in Language.                    *)
(***************************************************************************)
EXTENDS AwkParser, Language

(* The families of docs/awk.md:135-146, from low to high.                  *)
Precedence(e) ==
  CASE e.op = "assign"                               -> 0
    [] e.op = "ternary"                              -> 1
    [] e.op = "logical"                              -> IF e.name = "||" THEN 2 ELSE 3
    [] e.op = "in" \/ (e.op = "binary" /\ e.name \in Comparisons) -> 4
    [] e.op = "concat"                               -> 5
    [] e.op = "binary" /\ e.name \in {"+", "-"}      -> 6
    [] e.op = "binary" /\ e.name \in {"*", "/", "%"} -> 7
    [] e.op \in {"unary", "pre", "post"}             -> 8
    [] e.op = "binary" /\ e.name = "^"               -> 9
    [] OTHER                                         -> 10

Id(name) == <<Token("id", name)>>
Sym(op)  == <<Op(op)>>
Parens(tokens) == Sym("(") \o tokens \o Sym(")")

(* Between sequences of tokens, the symbol sep.                            *)
Separated(seqs, sep) ==
  FlattenSeq([i \in DOMAIN seqs |-> (IF i = 1 THEN <<>> ELSE Sym(sep)) \o seqs[i]])

RECURSIVE Tokens(_)

(* An operand of an operator that needs one of precedence low.             *)
Operand1(e, low) == IF Precedence(e) >= low THEN Tokens(e) ELSE Parens(Tokens(e))
Exprs(es) == Separated([i \in DOMAIN es |-> Operand1(es[i], 0)], ",")

(* Side by side, a sign would be an operator of two operands, and a name   *)
(* before a parenthesis a call.                                            *)
SideBySide(left, right) ==
  LET second == IF right[1].t \in {"+", "-"} \cup Incrs THEN Parens(right) ELSE right
      first  == IF Last(left).t = "id" /\ second[1].t = "(" THEN Parens(left) ELSE left
  IN  first \o second

Infix(e, left, right) == Operand1(e.parts[1], left) \o Sym(e.name) \o Operand1(e.parts[2], right)

Tokens(e) ==
  LET part(i, low) == Operand1(e.parts[i], low)
      prec == Precedence(e)
  IN  CASE e.op \in {"num", "str"} -> <<Token(e.op, e.name)>>
        [] e.op = "var"     -> Id(e.name)
        [] e.op = "field"   -> Sym("$") \o part(1, 10)
        [] e.op = "index"   -> Id(e.name) \o Sym("[") \o Exprs(e.parts) \o Sym("]")
        [] e.op = "call"    -> Id(e.name) \o Parens(Exprs(e.parts))
        [] e.op = "unary"   -> Sym(e.name) \o part(1, 8)
        [] e.op = "pre"     -> Sym(e.name) \o part(1, 10)
        [] e.op = "post"    -> part(1, 10) \o Sym(e.name)
        [] e.op = "concat"  -> SideBySide(part(1, 5), part(2, 6))
        [] e.op = "in"      -> part(1, 5) \o Id("in") \o Id(e.name)
        [] e.op = "ternary" -> part(1, 2) \o Sym("?") \o part(2, 0) \o Sym(":") \o part(3, 0)
        [] e.op = "assign"  -> Infix(e, 10, 0)
        [] e.op \in {"binary", "logical"} ->
             CASE prec = 9 -> Infix(e, 10, 8)    (* from the right         *)
               [] prec = 4 -> Infix(e, 5, 5)     (* one comparison         *)
               [] OTHER    -> Infix(e, prec, prec + 1)

RECURSIVE StmtTokens(_)

Stmts(stmts) == Separated([i \in DOMAIN stmts |-> StmtTokens(stmts[i])], ";")
Braces(stmts) == Sym("{") \o Stmts(stmts) \o Sym("}")

StmtTokens(stmt) ==
  LET part(i) == StmtTokens(stmt.parts[i])
      head(i) == Parens(Tokens(stmt.parts[i]))
  IN  CASE stmt.op = "absent" -> <<>>
        [] stmt.op = "expr"   -> Tokens(stmt.parts[1])
        [] stmt.op = "block"  -> Braces(stmt.parts)
        [] stmt.op \in {"print", "printf"} -> Id(stmt.op) \o Exprs(stmt.parts)
        [] stmt.op = "if"     -> Id("if") \o head(1) \o part(2)
                                   \o IF stmt.parts[3] = Absent THEN <<>>
                                      ELSE Sym(";") \o Id("else") \o part(3)
        [] stmt.op = "while"  -> Id("while") \o head(1) \o part(2)
        [] stmt.op = "for"    -> Id("for")
                                   \o Parens(part(1) \o Sym(";")
                                        \o (IF stmt.parts[2] = Absent THEN <<>> ELSE Tokens(stmt.parts[2]))
                                        \o Sym(";") \o part(3))
                                   \o part(4)
        [] stmt.op = "forin"  -> Id("for")
                                   \o Parens(Id(stmt.name) \o Id("in") \o Id(stmt.parts[1].name))
                                   \o part(2)
        [] stmt.op = "delete" -> Id("delete") \o Id(stmt.name)
                                   \o IF stmt.parts = <<>> THEN <<>>
                                      ELSE Sym("[") \o Exprs(stmt.parts) \o Sym("]")
        [] OTHER              -> Id(stmt.op)

ProgramTokens(prog) ==
  Id("BEGIN") \o Braces(prog.begin) \o Stmts(prog.main) \o Sym(";") \o Id("END") \o Braces(prog.end)

-----------------------------------------------------------------------------
(* Characters.                                                             *)

Spellings ==
  {<<c>> : c \in Singles \cup IdentLetters}
  \cup {<<c, d>> : c, d \in {"+", "-", "*", "/", "%", "^", "=", "!", "<", ">", "&", "|"}}
  \cup {<<"B", "E", "G", "I", "N">>, <<"E", "N", "D">>, <<"i", "f">>, <<"e", "l", "s", "e">>,
        <<"w", "h", "i", "l", "e">>, <<"f", "o", "r">>, <<"i", "n">>, <<"p", "r", "i", "n", "t">>,
        <<"p", "r", "i", "n", "t", "f">>, <<"d", "e", "l", "e", "t", "e">>,
        <<"b", "r", "e", "a", "k">>, <<"c", "o", "n", "t", "i", "n", "u", "e">>,
        <<"n", "e", "x", "t">>, <<"i", "f", "_">>}
Spelling == [text \in {TextOf(cs) : cs \in Spellings} |-> CHOOSE cs \in Spellings : TextOf(cs) = text]

Chars(token) ==
  CASE token.t = "str" -> <<"\"">> \o Escaped(token.v, "\"") \o <<"\"">>
    [] token.t = "num" -> token.v
    [] token.t = "id"  -> Spelling[token.v]
    [] OTHER -> Spelling[token.t]

(* Two tokens that would be read as others if nothing were between them.   *)
Clash(a, b) ==
  \/ {a.t, b.t} \subseteq {"num", "id"}
  \/ a.t \in Singles /\ b.t \in Singles \cup Doubles /\ a.t \o Spelling[b.t][1] \in Doubles

AwkStyles == {"glued", "comment"}
Gap(a, b, style) ==
  CASE style = "comment" -> <<"#", "\"", "}", "LF">>
    [] style = "glued" /\ Clash(a, b) -> <<" ">>
    [] OTHER -> <<>>

AwkText(tokens, style) ==
  FlattenSeq([i \in DOMAIN tokens |->
    (IF i = 1 THEN <<>> ELSE Gap(tokens[i - 1], tokens[i], style)) \o Chars(tokens[i])])

(* A program is read as it was written, and the reader of the pipeline     *)
(* finds where the action it stands in ends.                               *)
ReadsBack(prog, tokens, text) ==
  /\ parse_program(text) = Read(prog, Len(tokens) + 1)
  /\ read_awk_program(<<"{">> \o text \o <<"}", "p", "}">>, 1) = Read(text, Len(text) + 3)

AwkReadsAsWritten(prog, style) ==
  LET check(tokens) == ReadsBack(prog, tokens, AwkText(tokens, style))
  IN  check(ProgramTokens(prog))

-----------------------------------------------------------------------------
(* The end of an action's text.                                            *)

Depth(tokens, n) ==
  Cardinality({i \in 1..n : tokens[i].t = "{"}) - Cardinality({i \in 1..n : tokens[i].t = "}"})

(* The lexer reads text as whole tokens with matched braces, and a brace   *)
(* behind it as one more token.                                            *)
Whole(text) ==
  LET tokens == lex(text).got IN
  /\ lex(text).ok
  /\ Depth(tokens, Len(tokens)) = 0
  /\ \A n \in DOMAIN tokens : Depth(tokens, n) >= 0
  /\ lex(text \o <<"}">>) = Read(Append(tokens, Op("}")), Len(text) + 2)

(* A backslash outside strings, which the lexer rejects.                   *)
Stray(text) ==
  \E n \in DOMAIN text : /\ text[n] = Backslash
                         /\ lex(SubSeq(text, 1, n - 1)).ok
                         /\ ~ lex(SubSeq(text, 1, n)).ok

(* The text taken for an action is whole, and no other part of the input   *)
(* up to a brace is: the two scanners agree on what strings and comments   *)
(* hide.                                                                   *)
EndsWhereTokensDo(input) ==
  LET action == read_awk_program(<<"{">> \o input, 1) IN
  IF action.ok THEN Whole(action.got) \/ Stray(action.got)
  ELSE \A n \in DOMAIN input : input[n] = "}" => ~ Whole(SubSeq(input, 1, n - 1))
=============================================================================
