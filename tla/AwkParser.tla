----------------------------- MODULE AwkParser ------------------------------
(***************************************************************************)
(* The recursive descent of the awk language (src/awk/parser.rs) from its  *)
(* tokens to the trees of src/awk/ast.rs.  Every node of a tree is an      *)
(* operator, a name or symbol it carries, and its parts.                   *)
(***************************************************************************)
EXTENDS AwkLexer

KEYWORDS == {"BEGIN", "END", "if", "else", "while", "for", "in", "print", "printf", "delete",
             "break", "continue", "next"}

Node(op, name, parts) == [op |-> op, name |-> name, parts |-> parts]
Leaf(op, name)        == Node(op, name, <<>>)
Absent                == Leaf("absent", "")

Tok(s, p)      == IF p <= Len(s) THEN s[p] ELSE Op(EOF)
Kind(s, p)     == Tok(s, p).t
Word(s, p)     == IF Kind(s, p) = "id" THEN Tok(s, p).v ELSE ""
NameAt(s, p)   == Kind(s, p) = "id" /\ Word(s, p) \notin KEYWORDS

(* expect, and then k; ident_name, and then k.                             *)
Expect(s, p, kind, k(_)) == IF Kind(s, p) = kind THEN k(p + 1) ELSE Error
IdentName(s, p, k(_, _)) == IF NameAt(s, p) THEN k(Word(s, p), p + 1) ELSE Error

skip_semis(s, p) ==
  LET from[q \in 1..(Len(s) + 1)] == IF Kind(s, q) = ";" THEN from[q + 1] ELSE q
  IN  from[p]

-----------------------------------------------------------------------------
(* Expressions.  Each level reads operands of the next one.                *)

Levels == <<"assign", "ternary", "or", "and", "in", "comparison", "concat",
            "additive", "multiplicative", "unary", "power", "postfix", "primary">>

(* The operators of the levels that take any number of them, from the left.*)
LeftOps == [or |-> {"||"}, and |-> {"&&"}, additive |-> {"+", "-"},
            multiplicative |-> {"*", "/", "%"}]
LeftNode(level, op, left, right) ==
  Node(IF level \in {"or", "and"} THEN "logical" ELSE "binary", op, <<left, right>>)

Comparisons == {"<", "<=", ">", ">=", "==", "!="}
Assignments == {"=", "+=", "-=", "*=", "/=", "%=", "^="}
Incrs       == {"++", "--"}

(* to_lvalue                                                               *)
IsLvalue(e) == e.op \in {"var", "field", "index"}

(* Whether a token goes on with a concatenation: a sign does not.          *)
starts_value(s, p) == Kind(s, p) \in {"num", "str", "$", "(", "!"} \cup Incrs \/ NameAt(s, p)

RECURSIVE Level(_, _, _), Chain(_, _, _, _), in_expr(_, _, _), concat(_, _, _), List(_, _)

expr(s, p)   == Level("assign", s, p)
Below(level) == Levels[1 + CHOOSE i \in DOMAIN Levels : Levels[i] = level]
Operand(level, s, p) == Level(Below(level), s, p)

(* What follows the tree left: or, and, additive, multiplicative.          *)
Chain(level, s, p, left) ==
  IF Kind(s, p) \notin LeftOps[level] THEN Read(left, p)
  ELSE Then(Operand(level, s, p + 1), LAMBDA right, q :
         Chain(level, s, q, LeftNode(level, Kind(s, p), left, right)))

in_expr(s, p, left) ==
  IF Word(s, p) # "in" THEN Read(left, p)
  ELSE IdentName(s, p + 1, LAMBDA array, q : in_expr(s, q, Node("in", array, <<left>>)))

concat(s, p, left) ==
  IF ~ starts_value(s, p) THEN Read(left, p)
  ELSE Then(Operand("concat", s, p), LAMBDA right, q :
         concat(s, q, Node("concat", "", <<left, right>>)))

(* Expressions between commas.                                             *)
List(s, p) ==
  Then(expr(s, p), LAMBDA e, q :
    IF Kind(s, q) # "," THEN Read(<<e>>, q)
    ELSE Then(List(s, q + 1), LAMBDA es, r : Read(<<e>> \o es, r)))

Closed(s, p, closing, node(_)) ==
  Then(List(s, p), LAMBDA es, q : Expect(s, q, closing, LAMBDA r : Read(node(es), r)))

primary(s, p) ==
  CASE Kind(s, p) \in {"num", "str"} -> Read(Leaf(Kind(s, p), Tok(s, p).v), p + 1)
    [] Kind(s, p) = "$" -> Then(Level("primary", s, p + 1), LAMBDA e, q : Read(Node("field", "", <<e>>), q))
    [] Kind(s, p) = "(" -> Then(expr(s, p + 1), LAMBDA e, q : Expect(s, q, ")", LAMBDA r : Read(e, r)))
    [] NameAt(s, p) ->
         LET name == Word(s, p) IN
         CASE Kind(s, p + 1) = "(" /\ Kind(s, p + 2) = ")" -> Read(Leaf("call", name), p + 3)
           [] Kind(s, p + 1) = "(" /\ Kind(s, p + 2) # ")" ->
                Closed(s, p + 2, ")", LAMBDA es : Node("call", name, es))
           [] Kind(s, p + 1) = "[" -> Closed(s, p + 2, "]", LAMBDA es : Node("index", name, es))
           [] OTHER -> Read(Leaf("var", name), p + 1)
    [] OTHER -> Error

MutantUnary(s, p) ==
  CASE Kind(s, p) \in {"!", "-", "+"} ->
         Then(Level("postfix", s, p + 1), LAMBDA e, q : Read(Node("unary", Kind(s, p), <<e>>), q))
    [] Kind(s, p) \in Incrs ->
         Then(Level("unary", s, p + 1), LAMBDA e, q :
           IF IsLvalue(e) THEN Read(Node("pre", Kind(s, p), <<e>>), q) ELSE Error)
    [] OTHER -> Operand("unary", s, p)

unary(s, p) ==
  CASE Kind(s, p) \in {"!", "-", "+"} ->
         Then(Level("unary", s, p + 1), LAMBDA e, q : Read(Node("unary", Kind(s, p), <<e>>), q))
    [] Kind(s, p) \in Incrs ->
         Then(Level("unary", s, p + 1), LAMBDA e, q :
           IF IsLvalue(e) THEN Read(Node("pre", Kind(s, p), <<e>>), q) ELSE Error)
    [] OTHER -> Operand("unary", s, p)

assign(s, p) ==
  Then(Operand("assign", s, p), LAMBDA e, q :
    IF Kind(s, q) \notin Assignments THEN Read(e, q)
    ELSE IF ~ IsLvalue(e) THEN Error
    ELSE Then(Level("assign", s, q + 1), LAMBDA rhs, r :
           Read(Node("assign", Kind(s, q), <<e, rhs>>), r)))

ternary(s, p) ==
  Then(Operand("ternary", s, p), LAMBDA cond, q :
    IF Kind(s, q) # "?" THEN Read(cond, q)
    ELSE Then(Level("assign", s, q + 1), LAMBDA yes, r :
           Expect(s, r, ":", LAMBDA t :
             Then(Level("assign", s, t), LAMBDA no, u :
               Read(Node("ternary", "", <<cond, yes, no>>), u)))))

comparison(s, p) ==
  Then(Operand("comparison", s, p), LAMBDA left, q :
    IF Kind(s, q) \notin Comparisons THEN Read(left, q)
    ELSE Then(Operand("comparison", s, q + 1), LAMBDA right, r :
           Read(Node("binary", Kind(s, q), <<left, right>>), r)))

power(s, p) ==
  Then(Operand("power", s, p), LAMBDA base, q :
    IF Kind(s, q) # "^" THEN Read(base, q)
    ELSE Then(Level("unary", s, q + 1), LAMBDA exp, r :
           Read(Node("binary", "^", <<base, exp>>), r)))

postfix(s, p) ==
  Then(Operand("postfix", s, p), LAMBDA e, q :
    IF Kind(s, q) \in Incrs /\ IsLvalue(e)
    THEN Read(Node("post", Kind(s, q), <<e>>), q + 1) ELSE Read(e, q))

Level(level, s, p) ==
  CASE level = "assign"     -> assign(s, p)
    [] level = "ternary"    -> ternary(s, p)
    [] level = "in"         -> Then(Operand(level, s, p), LAMBDA left, q : in_expr(s, q, left))
    [] level = "comparison" -> comparison(s, p)
    [] level = "concat"     -> Then(Operand(level, s, p), LAMBDA left, q : concat(s, q, left))
    [] level = "unary"      -> unary(s, p)
    [] level = "power"      -> power(s, p)
    [] level = "postfix"    -> postfix(s, p)
    [] level = "primary"    -> primary(s, p)
    [] OTHER -> Then(Operand(level, s, p), LAMBDA left, q : Chain(level, s, q, left))

-----------------------------------------------------------------------------
(* Statements.                                                             *)

RECURSIVE Statement(_, _), Statements(_, _)

(* The statements up to the brace that closes a block.                     *)
Statements(s, p) ==
  LET q == skip_semis(s, p) IN
  CASE Kind(s, q) = "}" -> Read(<<>>, q + 1)
    [] Kind(s, q) = EOF -> Error
    [] OTHER -> Then(Statement(s, q), LAMBDA stmt, r :
                  Then(Statements(s, r), LAMBDA stmts, t : Read(<<stmt>> \o stmts, t)))

block(s, p) == Expect(s, p, "{", LAMBDA q : Statements(s, q))

print_args(s, p) ==
  IF Kind(s, p) \in {EOF, ";", "}"} THEN Read(<<>>, p) ELSE List(s, p)

(* A condition between parentheses.                                        *)
Condition(s, p, k(_, _)) ==
  Expect(s, p, "(", LAMBDA q :
    Then(expr(s, q), LAMBDA cond, r : Expect(s, r, ")", LAMBDA t : k(cond, t))))

(* The else of an if, which semicolons may stand before.                   *)
Else(s, p, k(_, _)) ==
  IF Word(s, skip_semis(s, p)) = "else"
  THEN Then(Statement(s, skip_semis(s, p) + 1), k)
  ELSE k(Absent, skip_semis(s, p))

(* A part of the head of a loop, which may be left out before its end.     *)
Part(s, p, end, reader(_, _), k(_, _)) ==
  LET closed(part, q) == Expect(s, q, end, LAMBDA r : k(part, r))
  IN  IF Kind(s, p) = end THEN closed(Absent, p) ELSE Then(reader(s, p), closed)

for_stmt(s, p) ==
  Expect(s, p, "(", LAMBDA q :
    IF NameAt(s, q) /\ Word(s, q + 1) = "in"
    THEN IdentName(s, q + 2, LAMBDA array, r :
           Expect(s, r, ")", LAMBDA t :
             Then(Statement(s, t), LAMBDA body, u :
               Read(Node("forin", Word(s, q), <<Leaf("var", array), body>>), u))))
    ELSE Part(s, q, ";", Statement, LAMBDA init, r :
           Part(s, r, ";", expr, LAMBDA cond, t :
             Part(s, t, ")", Statement, LAMBDA post, u :
               Then(Statement(s, u), LAMBDA body, v :
                 Read(Node("for", "", <<init, cond, post, body>>), v))))))

delete_stmt(s, p) ==
  IdentName(s, p, LAMBDA array, q :
    IF Kind(s, q) = "[" THEN Closed(s, q + 1, "]", LAMBDA idx : Node("delete", array, idx))
                        ELSE Read(Leaf("delete", array), q))

Statement(s, p) ==
  LET word == Word(s, p) IN
  CASE Kind(s, p) = "{" -> Then(block(s, p), LAMBDA stmts, q : Read(Node("block", "", stmts), q))
    [] word = "print" -> Then(print_args(s, p + 1), LAMBDA es, q : Read(Node("print", "", es), q))
    [] word = "printf" ->
         Then(print_args(s, p + 1), LAMBDA es, q :
           IF es = <<>> THEN Error ELSE Read(Node("printf", "", es), q))
    [] word = "if" ->
         Condition(s, p + 1, LAMBDA cond, q :
           Then(Statement(s, q), LAMBDA yes, r :
             Else(s, r, LAMBDA no, t : Read(Node("if", "", <<cond, yes, no>>), t))))
    [] word = "while" ->
         Condition(s, p + 1, LAMBDA cond, q :
           Then(Statement(s, q), LAMBDA body, r : Read(Node("while", "", <<cond, body>>), r)))
    [] word = "for" -> for_stmt(s, p + 1)
    [] word = "delete" -> delete_stmt(s, p + 1)
    [] word \in {"break", "continue", "next"} -> Read(Leaf(word, ""), p + 1)
    [] OTHER -> Then(expr(s, p), LAMBDA e, q : Read(Node("expr", "", <<e>>), q))

-----------------------------------------------------------------------------
(* Programs: the statements of BEGIN, of END, and those of every record.   *)

Program(begin, main, end) == [begin |-> begin, main |-> main, end |-> end]

RECURSIVE program(_, _, _)

program(s, p, prog) ==
  LET q == skip_semis(s, p) IN
  CASE Kind(s, q) = EOF -> Read(prog, q)
    [] Word(s, q) = "BEGIN" ->
         Then(block(s, q + 1), LAMBDA b, r : program(s, r, [prog EXCEPT !.begin = @ \o b]))
    [] Word(s, q) = "END" ->
         Then(block(s, q + 1), LAMBDA b, r : program(s, r, [prog EXCEPT !.end = @ \o b]))
    [] OTHER ->
         Then(Statement(s, q), LAMBDA stmt, r : program(s, r, [prog EXCEPT !.main = Append(@, stmt)]))

parse_program(src) ==
  Then(lex(src), LAMBDA tokens, end : program(tokens, 1, Program(<<>>, <<>>, <<>>)))
=============================================================================
