------------------------------- MODULE MCAwk --------------------------------
(***************************************************************************)
(* The awk language for TLC: the record and its fields (AwkRecord), and    *)
(* the reader and the evaluator of its programs (AwkSyntax, AwkMeaning). A *)
(* behaviour is a sequence of assignments to the record or one call.       *)
(***************************************************************************)
EXTENDS AwkRecord, AwkMeaning, AwkSyntax

VARIABLE task (* What is called with which arguments, or Assigning.        *)

Assigning == [f |-> "assign"]

-----------------------------------------------------------------------------
(* Strings and separators for AwkRecord.                                   *)

MCTexts == {<<>>, <<Colon>>, <<Letter>>, <<Blank, Letter>>, <<Letter, Blank>>,
            <<Letter, Colon>>, <<Colon, Colon, Letter>>, <<Colon, Colon, Colon>>}
MCSeparators == {<<Blank>>, <<>>, <<Colon>>, <<Colon, Colon>>}

-----------------------------------------------------------------------------
(* Trees.                                                                  *)

Op1(op, name, e)    == Node(op, name, <<e>>)
Op2(op, name, e, f) == Node(op, name, <<e, f>>)
Var(name)  == Leaf("var", name)
Number(n)     == Leaf("num", fmt_num(n))
Const(s)   == Leaf("str", s)
Expr(e)    == Op1("expr", "", e)
Set(lv, e) == Expr(Op2("assign", "=", lv, e))
Elem(a, e) == Op1("index", a, e)
Field(e)   == Op1("field", "", e)
If(c, s)   == Node("if", "", <<c, s, Absent>>)
Is(e, n)   == Op2("binary", "==", e, Number(n))
Inc(lv)    == Op1("post", "++", lv)
Do2(s, t)  == Node("block", "", <<s, t>>)
Show(es)   == Node("print", "", es)
For(init, cond, post, body) == Node("for", "", <<init, cond, post, body>>)
ForIn(name, array, body)    == Node("forin", name, <<Var(array), body>>)
While(cond, body)           == Op2("while", "", cond, body)

-----------------------------------------------------------------------------
(* Programs for AwkSyntax.                                                 *)

Va == Var("a")

Operands == {Va, Number(1), Leaf("num", <<"1", ".", "2", "e", "-", "1">>), Leaf("num", <<".", "2">>),
             Const(<<"a", "\"", "#", "\\">>), Const(<<"}", "LF">>), Leaf("call", "f"), Var("if_")}
Targets  == {Va, Field(Va), Elem("k", Number(1))}

Forms(es, gs) ==
  UNION {{Field(e), Op1("unary", "-", e), Op1("unary", "!", e), Elem("k", e), Op1("call", "f", e),
          Op1("in", "k", e), Op2("assign", "=", Va, e), Op2("assign", "+=", Field(e), Va)} : e \in es}
  \cup {Op1(op, name, lv) : op \in {"pre", "post"}, name \in Incrs, lv \in Targets}
  \cup UNION {{Op2("binary", op, e, f) : op \in {"^", "*", "-", "<"}}
              \cup {Op2("logical", op, e, f) : op \in {"||", "&&"}}
              \cup {Op2("concat", "", e, f), Op2("call", "f", e, f),
                    Node("ternary", "", <<e, f, Va>>)} : e \in es, f \in gs}

Flat == Forms({Va}, {Number(1)}) \cup {Op2("concat", "", Number(1), Field(Va))}
Deep == Forms(Flat \cup Operands, Flat)

Leaves == {Show(<<>>), Show(<<Va, Number(1)>>), Node("printf", "", <<Const(<<"a">>), Va>>),
           Leaf("delete", "k"), Node("delete", "k", <<Va, Number(1)>>), Leaf("next", ""),
           Leaf("break", ""), Leaf("continue", ""), Set(Va, Number(1)), Node("block", "", <<>>)}

(* An else belongs to the last if.                                         *)
Compound(body, thens) ==
  {While(Va, body), ForIn("a", "k", body), Do2(body, Show(<<Va>>)), If(Va, body),
   For(Set(Va, Number(1)), Op2("binary", "<", Va, Number(2)), Expr(Inc(Va)), body),
   For(Absent, Absent, Absent, body), For(Leaf("delete", "k"), Va, Absent, body)}
  \cup {Node("if", "", <<Va, yes, body>>) : yes \in thens}

ThenParts == Leaves \cup {Do2(If(Va, Show(<<>>)), Show(<<>>)), While(Va, Show(<<>>))}

Nestings == UNION {Compound(body, ThenParts) :
                     body \in Leaves \cup UNION {Compound(s, {Show(<<>>)}) : s \in Leaves}}

ExpressionPrograms == {Program(<<>>, <<Expr(e)>>, <<>>) : e \in Deep}
StatementPrograms ==
  {Program(<<>>, <<Expr(e)>>, <<>>) : e \in Flat}
  \cup {Program(<<>>, <<s>>, <<>>) : s \in Nestings}
  \cup {Program(<<s>>, <<t, Show(<<>>)>>, <<Show(<<Va>>), s>>) : s, t \in Leaves}

Endings == UNION {[1..n -> {"\"", "\\", "#", "LF", "{", "}", "a"}] : n \in 0..4}

-----------------------------------------------------------------------------
(* Programs for AwkMeaning.                                                *)

Vi == Var("i")
Vj == Var("j")
Less(e, n) == Op2("binary", "<", e, Number(n))
Key(c)     == Elem("k", Const(<<c>>))

Steps == {Show(<<Vi, Var("NR"), Var("x")>>), Leaf("break", ""), Leaf("next", ""),
          If(Is(Vi, 1), Leaf("continue", "")), If(Is(Vi, 2), Leaf("break", "")),
          If(Is(Vi, 2), Leaf("next", "")), If(Is(Var("NR"), 2), Expr(Field(Number(-1)))),
          Set(Key("b"), Var("x")), Leaf("delete", "k"), Node("delete", "k", <<Const(<<"a">>)>>)}

(* Loops that end: their bodies only add to i.                             *)
Loops(body) ==
  {For(Set(Vi, Number(0)), Less(Vi, 3), Expr(Inc(Vi)), body),
   For(Set(Vi, Number(0)), Absent, Expr(Inc(Vi)), Do2(If(Is(Vi, 2), Leaf("break", "")), body)),
   Do2(Set(Vi, Number(0)), While(Less(Op1("pre", "++", Vi), 3), body)),
   ForIn("x", "k", Do2(Expr(Inc(Vi)), body))}

Twice(body) == For(Set(Vj, Number(0)), Less(Vj, 2), Expr(Inc(Vj)), body)

MeaningPrograms(last) ==
  {Program(<<Set(Key("a"), Number(1)), Set(Key("c"), Vi)>>,
           <<Show(<<Vj>>), loop, Show(<<Vi, Vj>>)>>,
           <<ForIn("x", "k", Show(<<Var("x"), Var("NR")>>)), last>>) :
     loop \in UNION {Loops(Do2(s, t)) : s, t \in Steps}
             \cup UNION {{Twice(Do2(l, s)) : l \in Loops(t)} : s, t \in Steps}}

Inputs == << << <<"a">>, <<"b", "LF">> >>, <<>>, << <<"a">> >> >>

(* How an END ends, and the order that hashing gives the keys of an array. *)
Runs == {[last |-> Show(<<>>), keys |-> << <<"a">>, <<"b">>, <<"c">> >>],
         [last |-> Leaf("break", ""), keys |-> << <<"c">>, <<"a">>, <<"b">> >>]}

(* States that the fields, the variables and an array have a part in.      *)
SomeStates ==
  {[set_record(NewInterp(<<>>), r) EXCEPT !.vars = [n \in {"x"} |-> v]] :
     r \in {<<>>, <<"2", " ", "a", " ", "1", "b">>}, v \in {Num(2), Str(<<"1">>)}}

LValues == {Var("x"), Var("NF"), Var("NR"), Field(Number(0)), Field(Number(1)), Field(Var("NF")), Field(Number(5)),
            Field(Number(-1)), Elem("k", Var("x")), Node("index", "k", <<Var("x"), Field(Number(1))>>)}
RightSides == {Number(0), Number(3), Const(<<"2", "a">>), Inc(Var("x")), Op1("pre", "--", Var("NF")),
               Op2("assign", "=", Field(Number(1)), Const(<<"7", " ", "7">>)), Op2("assign", "=", Field(Number(0)), Const(<<"9">>)),
               Inc(Elem("k", Number(2))), Field(Number(-1)), Op2("logical", "&&", Var("y"), Inc(Var("x"))),
               Op2("concat", "", Var("x"), Field(Number(2)))}

-----------------------------------------------------------------------------
Calls ==
  {[f |-> "program", prog |-> prog, style |-> "glued"] :
      prog \in ExpressionPrograms \cup StatementPrograms}
  \cup {[f |-> "program", prog |-> prog, style |-> "comment"] : prog \in StatementPrograms}
  \cup {[f |-> "brace", text |-> text] : text \in Endings}
  \cup UNION {{[f |-> "run", prog |-> prog, keys |-> r.keys] : prog \in MeaningPrograms(r.last)} :
                 r \in Runs}
  \cup {[f |-> "compound", op |-> op, lv |-> lv, rhs |-> rhs, st |-> st] :
          op \in {"+=", "-=", "*=", "%="}, lv \in LValues, rhs \in RightSides, st \in SomeStates}
  \cup {[f |-> "incr", op |-> op, lv |-> lv, st |-> st] :
          op \in Incrs, lv \in LValues, st \in SomeStates}
  \cup {[f |-> "substr", s |-> SubSeq(<<"a", "b", "x", "y">>, 1, len), m |-> m, n |-> n] :
          len \in 0..4, m \in -2..6, n \in -2..6}

MCInit == Init /\ (task = Assigning \/ task \in Calls)
MCNext == task = Assigning /\ Next /\ UNCHANGED task
MCSpec == MCInit /\ [][MCNext]_<<vars, task>>

-----------------------------------------------------------------------------
(* Properties.                                                             *)

(* docs/awk.md:50-62, 135-150: a program written with the precedences      *)
(* documented there, with no more parentheses, blanks and semicolons than  *)
(* they need, is read back by lex and Parser as the tree it was written    *)
(* from.  Parser::read_awk_program ends its action at the brace where the  *)
(* tokens of lex close it, whatever the text: the two scanners agree on    *)
(* what strings and comments hide.                                         *)
AwkActionsReadAsWritten ==
  /\ task.f = "program" => AwkReadsAsWritten(task.prog, task.style)
  /\ task.f = "brace" => EndsWhereTokensDo(task.text)

(* Interp::exec and AwkRun: break and continue reach the innermost loop,   *)
(* next the following record, an error the following input, from any depth *)
(* of loops and blocks; the post statement of a for is not skipped, the    *)
(* keys of a loop are those it began with, and NR and variables go on from *)
(* one input to the next.                                                  *)
AwkRunsAsWritten == task.f = "run" => RunsAsWritten(task.prog, Inputs, task.keys)

(* Interp::eval: a compound assignment or an increment does what the plain *)
(* assignment would, to whatever kind of target, and leaves all else as it *)
(* would.                                                                  *)
CompoundAssigns ==
  /\ task.f = "compound" => CompoundIsPlain(task.op, task.lv, task.rhs, task.st)
  /\ task.f = "incr" => IncrIsCompound(task.op, task.lv, task.st)

(* docs/awk.md:299-300: substr gives exactly the characters asked for that *)
(* there are, for starts before and behind the text and any count.         *)
SubstrGivesWhatIsThere == task.f = "substr" => SubstrIsExact(task.s, task.m, task.n)
=============================================================================
