----------------------------- MODULE AwkInterp ------------------------------
(***************************************************************************)
(* The evaluator of the awk language (src/awk/interp.rs, value.rs): trees  *)
(* of AwkParser over the state that all records, and all files, share.     *)
(* Numbers are integers: what needs others, a quotient, a power or a       *)
(* mathematical function, and what formats text is left out.               *)
(*                                                                         *)
(* An expression evaluates to a value and the state it leaves, a statement *)
(* to the flow that goes on and the state; after a runtime error the state *)
(* is what was done until then.                                            *)
(***************************************************************************)
EXTENDS AwkParser

Text == INSTANCE AwkStrings WITH Blank <- " ", CR <- "CR", LF <- "LF"

-----------------------------------------------------------------------------
(* Values.                                                                 *)

Num(n)   == [num |-> n]
Str(s)   == [str |-> s]
IsNum(v) == "num" \in DOMAIN v
uninit == Str(<<>>)
Truth(b) == Num(IF b THEN 1 ELSE 0)

RECURSIVE Decimal(_)
Decimal(n) == IF n < 10 THEN <<Numerals[n + 1]>> ELSE Decimal(n \div 10) \o Decimal(n % 10)

fmt_num(n) == IF n < 0 THEN <<"-">> \o Decimal(-n) ELSE Decimal(n)

(* The sign and digits at position p, and the position after them.  If     *)
(* there are none, that is p and the number 0.                             *)
ReadNumber(s, p) ==
  LET digits == IF At(s, p) \in {"+", "-"} THEN p + 1 ELSE p
      value[q \in digits..(Len(s) + 1), n \in Int] ==
        IF At(s, q) \in Digits THEN value[q + 1, 10 * n + DigitValue[s[q]]]
        ELSE IF q = digits THEN [got |-> 0, next |-> p]
        ELSE [got |-> IF digits = p \/ s[p] = "+" THEN n ELSE -n, next |-> q]
  IN  value[digits, 0]

Trimmed(s)    == Past(s, 1, Text!Space)
num_prefix(s) == ReadNumber(s, Trimmed(s)).got

(* The whole of s is a number, but for space around it.                    *)
full_num(s) ==
  LET start == Trimmed(s)
      next  == ReadNumber(s, start).next
  IN  next # start /\ Past(s, next, Text!Space) = Len(s) + 1

num(v)    == IF IsNum(v) THEN v.num ELSE num_prefix(v.str)
to_str(v) == IF IsNum(v) THEN fmt_num(v.num) ELSE v.str
is_numeric(v) == IsNum(v) \/ full_num(v.str)
truthy(v) == IF is_numeric(v) THEN num(v) # 0 ELSE v.str # <<>>

(* The characters of strings, as they compare.                             *)
Ascii == <<"LF", "CR", " ", "+", "-", ":">> \o Numerals \o <<"A", "B", "a", "b", "x", "y">>
Rank(c) == CHOOSE i \in DOMAIN Ascii : Ascii[i] = c

Before(s, t) ==
  \E p \in 1..(Len(s) + 1) : /\ \A q \in 1..(p - 1) : At(s, q) = At(t, q)
                             /\ p <= Len(t)
                             /\ p <= Len(s) => Rank(s[p]) < Rank(t[p])

compare(a, b) ==
  LET numeric == is_numeric(a) /\ is_numeric(b)
      less(x, y) == IF numeric THEN num(x) < num(y) ELSE Before(to_str(x), to_str(y))
  IN  IF less(a, b) THEN -1 ELSE IF less(b, a) THEN 1 ELSE 0

-----------------------------------------------------------------------------
(* The state.                                                              *)

(* keys is the order in which a loop meets the keys of an array, which is  *)
(* that of a hash table.                                                   *)
NewInterp(keys) ==
  [vars |-> <<>>, arrays |-> <<>>, nr |-> 0, field0 |-> <<>>, fields |-> <<>>,
   out |-> <<>>, keys |-> keys]

Put(f, key, v) == [k \in {key} \cup DOMAIN f |-> IF k = key THEN v ELSE f[k]]
Got(f, key, default) == IF key \in DOMAIN f THEN f[key] ELSE default

special(st, name, default) == to_str(Got(st.vars, name, Str(default)))
fs(st)     == special(st, "FS", <<" ">>)
ofs(st)    == special(st, "OFS", <<" ">>)
ors(st)    == special(st, "ORS", <<"LF">>)
subsep(st) == special(st, "SUBSEP", <<"FS">>)

resplit(st, s) == [st EXCEPT !.field0 = s, !.fields = Text!split_record(s, fs(st))]
rebuild_record(st, parts) == [st EXCEPT !.fields = parts, !.field0 = Text!Join(parts, ofs(st))]

set_record(st, record) == [resplit(st, Text!Chomped(record)) EXCEPT !.nr = @ + 1]

get_field(st, i) ==
  CASE i = 0 -> Str(st.field0)
    [] i \in DOMAIN st.fields -> Str(st.fields[i])
    [] OTHER -> uninit

set_field(st, i, v) ==
  IF i = 0 THEN resplit(st, to_str(v))
  ELSE LET n == IF i > Len(st.fields) THEN i ELSE Len(st.fields)
       IN  rebuild_record(st, [Text!Resized(st.fields, n) EXCEPT ![i] = to_str(v)])

get_var(st, name) ==
  CASE name = "NR" -> Num(st.nr)
    [] name = "NF" -> Num(Len(st.fields))
    [] OTHER -> Got(st.vars, name, uninit)

set_var(st, name, v) ==
  IF name = "NF" THEN rebuild_record(st, Text!Resized(st.fields, IF num(v) < 0 THEN 0 ELSE num(v)))
  ELSE [st EXCEPT !.vars = Put(@, name, v)]

Array(st, name) == Got(st.arrays, name, <<>>)

-----------------------------------------------------------------------------
(* Expressions.                                                            *)

Ok(v, st) == [ok |-> TRUE, v |-> v, st |-> st]
Err(st)   == [ok |-> FALSE, st |-> st]
And(r, k(_, _)) == IF r.ok THEN k(r.v, r.st) ELSE r

(* The remainder has the sign of the dividend.                             *)
Size(n) == IF n < 0 THEN -n ELSE n
Remainder(x, y) == IF x < 0 THEN -(Size(x) % Size(y)) ELSE x % Size(y)

Arith(op, x, y, st) ==
  CASE op = "+" -> Ok(Num(x + y), st)
    [] op = "-" -> Ok(Num(x - y), st)
    [] op = "*" -> Ok(Num(x * y), st)
    [] op \in {"/", "%"} /\ y = 0 -> Err(st)
    [] op = "%" /\ y # 0 -> Ok(Num(Remainder(x, y)), st)

Compares(op, c) ==
  CASE op = "<"  -> c < 0
    [] op = "<=" -> c <= 0
    [] op = ">"  -> c > 0
    [] op = ">=" -> c >= 0
    [] op = "==" -> c = 0
    [] op = "!=" -> c # 0

eval_binary(op, a, b, st) ==
  IF op \in Comparisons THEN Ok(Truth(Compares(op, compare(a, b))), st)
  ELSE Arith(op, num(a), num(b), st)

OpOf(assignment) ==
  CASE assignment = "+=" -> "+" [] assignment = "-=" -> "-"
    [] assignment = "*=" -> "*" [] assignment = "%=" -> "%"

MutantSubstr(s, m, n) ==
  LET from == IF m > 1 THEN m - 1 ELSE 0
      end  == IF from + n < Len(s) THEN from + n ELSE Len(s)
  IN  SubSeq(s, from + 1, end)

(* Characters m to m + n - 1 of s, those there are.                        *)
substr(s, m, n) ==
  LET from == IF m > 1 THEN m - 1 ELSE 0
      end  == IF m + n - 1 < Len(s) THEN m + n - 1 ELSE Len(s)
  IN  SubSeq(s, from + 1, end)

(* str::find, counted from 1.                                              *)
index(s, t) ==
  LET hits == {p \in 1..(Len(s) - Len(t) + 1) : Text!StandsAt(t, s, p)}
  IN  IF hits = {} THEN 0 ELSE CHOOSE p \in hits : \A q \in hits : p <= q

RECURSIVE eval(_, _), EvalAll(_, _)

(* The values of several expressions, from the left.                       *)
EvalAll(es, st) ==
  IF es = <<>> THEN Ok(<<>>, st)
  ELSE And(eval(es[1], st), LAMBDA v, st1 :
         And(EvalAll(Tail(es), st1), LAMBDA vs, st2 : Ok(<<v>> \o vs, st2)))

(* The separator is what it was before the indices.                        *)
array_key(idx, st) ==
  And(EvalAll(idx, st), LAMBDA vs, st1 :
    Ok(Text!Join([i \in DOMAIN vs |-> to_str(vs[i])], subsep(st)), st1))

load_lvalue(lv, st) ==
  CASE lv.op = "var"   -> Ok(get_var(st, lv.name), st)
    [] lv.op = "field" ->
         And(eval(lv.parts[1], st), LAMBDA v, st1 :
           Ok(get_field(st1, IF num(v) < 0 THEN 0 ELSE num(v)), st1))
    [] lv.op = "index" ->
         And(array_key(lv.parts, st), LAMBDA key, st1 :
           Ok(Got(Array(st1, lv.name), key, uninit), st1))

store_lvalue(lv, v, st) ==
  CASE lv.op = "var"   -> Ok(v, set_var(st, lv.name, v))
    [] lv.op = "field" ->
         And(eval(lv.parts[1], st), LAMBDA i, st1 :
           IF num(i) < 0 THEN Err(st1) ELSE Ok(v, set_field(st1, num(i), v)))
    [] lv.op = "index" ->
         And(array_key(lv.parts, st), LAMBDA key, st1 :
           Ok(v, [st1 EXCEPT !.arrays = Put(@, lv.name, Put(Array(st1, lv.name), key, v))]))

MutantAssign(op, lv, rhs, st) ==
  IF op = "=" THEN And(eval(rhs, st), LAMBDA v, st1 : store_lvalue(lv, v, st1))
  ELSE And(load_lvalue(lv, st), LAMBDA cur, st1 :
         And(eval(rhs, st1), LAMBDA r, st2 :
           And(Arith(OpOf(op), num(cur), num(r), st2), LAMBDA v, st3 : store_lvalue(lv, v, st3))))

(* The right side first; a compound assignment evaluates the index of its  *)
(* target to load it and again to store it.                                *)
Assign(op, lv, rhs, st) ==
  And(eval(rhs, st), LAMBDA r, st1 :
    IF op = "=" THEN store_lvalue(lv, r, st1)
    ELSE And(load_lvalue(lv, st1), LAMBDA cur, st2 :
           And(Arith(OpOf(op), num(cur), num(r), st2), LAMBDA v, st3 : store_lvalue(lv, v, st3))))

Incr(lv, delta, pre, st) ==
  And(load_lvalue(lv, st), LAMBDA old, st1 :
    And(store_lvalue(lv, Num(num(old) + delta), st1), LAMBDA new, st2 :
      Ok(IF pre THEN new ELSE Num(num(old)), st2)))

(* split: the elements replace the array.                                  *)
Split(args, st) ==
  And(eval(args[1], st), LAMBDA s, st1 :
    IF args[2].op # "var" THEN Err(st1)
    ELSE And(IF Len(args) = 3 THEN eval(args[3], st1) ELSE Ok(Str(fs(st1)), st1), LAMBDA sep, st2 :
           LET parts == Text!split_record(to_str(s), to_str(sep))
               map   == [key \in {Decimal(i) : i \in DOMAIN parts} |-> Str(parts[num_prefix(key)])]
           IN  Ok(Num(Len(parts)), [st2 EXCEPT !.arrays = Put(@, args[2].name, map)])))

(* length, substr, index, split and int; the other functions are not       *)
(* modelled.                                                               *)
call(name, args, st) ==
  LET given(arities) == Len(args) \in arities
      with(k(_)) == And(EvalAll(args, st), LAMBDA vs, st1 : Ok(k(vs), st1))
  IN  CASE name = "length" /\ given({0}) -> Ok(Num(Len(st.field0)), st)
        [] name = "length" /\ ~ given({0}) ->
             And(eval(args[1], st), LAMBDA v, st1 : Ok(Num(Len(to_str(v))), st1))
        [] name = "substr" /\ given({2}) ->
             with(LAMBDA vs : LET s == to_str(vs[1]) m == num(vs[2]) IN Str(substr(s, m, Len(s) + 1 - m)))
        [] name = "substr" /\ given({3}) ->
             with(LAMBDA vs : Str(substr(to_str(vs[1]), num(vs[2]), num(vs[3]))))
        [] name = "index" /\ given({2}) ->
             with(LAMBDA vs : Num(index(to_str(vs[1]), to_str(vs[2]))))
        [] name = "split" /\ given({2, 3}) -> Split(args, st)
        [] name = "int" /\ given({1}) -> with(LAMBDA vs : Num(num(vs[1])))
        [] OTHER -> Err(st)

eval(e, st) ==
  LET first(k(_, _)) == And(eval(e.parts[1], st), k)
  IN  CASE e.op = "num"   -> Ok(Num(num_prefix(e.name)), st)
        [] e.op = "str"   -> Ok(Str(e.name), st)
        [] e.op = "field" ->
             first(LAMBDA i, st1 : IF num(i) < 0 THEN Err(st1) ELSE Ok(get_field(st1, num(i)), st1))
        [] e.op \in {"var", "index"} -> load_lvalue(e, st)
        [] e.op = "call"  -> call(e.name, e.parts, st)
        [] e.op = "unary" ->
             first(LAMBDA v, st1 :
               Ok(CASE e.name = "-" -> Num(-num(v))
                    [] e.name = "+" -> Num(num(v))
                    [] e.name = "!" -> Truth(~ truthy(v)), st1))
        [] e.op = "binary" ->
             And(EvalAll(e.parts, st), LAMBDA vs, st1 : eval_binary(e.name, vs[1], vs[2], st1))
        [] e.op = "concat" ->
             And(EvalAll(e.parts, st), LAMBDA vs, st1 : Ok(Str(to_str(vs[1]) \o to_str(vs[2])), st1))
        [] e.op = "logical" ->
             first(LAMBDA v, st1 :
               IF truthy(v) = (e.name = "||") THEN Ok(Truth(truthy(v)), st1)
               ELSE And(eval(e.parts[2], st1), LAMBDA w, st2 : Ok(Truth(truthy(w)), st2)))
        [] e.op = "ternary" ->
             first(LAMBDA v, st1 : eval(e.parts[IF truthy(v) THEN 2 ELSE 3], st1))
        [] e.op = "in" ->
             first(LAMBDA v, st1 : Ok(Truth(to_str(v) \in DOMAIN Array(st1, e.name)), st1))
        [] e.op = "assign" -> Assign(e.name, e.parts[1], e.parts[2], st)
        [] e.op \in {"pre", "post"} ->
             Incr(e.parts[1], IF e.name = "++" THEN 1 ELSE -1, e.op = "pre", st)

-----------------------------------------------------------------------------
(* Statements.                                                             *)

Flow(flow, st) == [flow |-> flow, st |-> st]
Normal(st)     == Flow("normal", st)

(* What was evaluated, or the flow of an error.                            *)
With(r, k(_, _)) == IF r.ok THEN k(r.v, r.st) ELSE Flow("error", r.st)

RECURSIVE exec(_, _), InOrder(_, _), Loop(_, _, _, _), EachKey(_, _, _, _)

(* Statements one after the other.                                         *)
InOrder(stmts, st) ==
  IF stmts = <<>> THEN Normal(st)
  ELSE LET then(r) == IF r.flow = "normal" THEN InOrder(Tail(stmts), r.st) ELSE r
       IN  then(exec(stmts[1], st))

MutantGoesOn(r) == r.flow = "normal"

(* What the body of a loop leaves it to do: break and continue end here.   *)
GoesOn(r) == r.flow \in {"normal", "continue"}
Stopped(r) == IF r.flow = "break" THEN Normal(r.st) ELSE r

(* while, and for; only an error of the last part of a for matters.        *)
Loop(cond, post, body, st) ==
  LET last(r)    == IF r.flow = "error" THEN r ELSE Loop(cond, post, body, r.st)
      after(st1) == last(IF post = Absent THEN Normal(st1) ELSE exec(post, st1))
      then(r)    == IF GoesOn(r) THEN after(r.st) ELSE Stopped(r)
      round(st1) == then(exec(body, st1))
  IN  IF cond = Absent THEN round(st)
      ELSE With(eval(cond, st), LAMBDA v, st1 : IF truthy(v) THEN round(st1) ELSE Normal(st1))

(* for (k in a): over the keys that a had when the loop began.             *)
EachKey(var, keys, body, st) ==
  IF keys = <<>> THEN Normal(st)
  ELSE LET then(r) == IF GoesOn(r) THEN EachKey(var, Tail(keys), body, r.st) ELSE Stopped(r)
       IN  then(exec(body, [st EXCEPT !.vars = Put(@, var, Str(keys[1]))]))

KeysOf(st, array) == SelectSeq(st.keys, LAMBDA key : key \in DOMAIN Array(st, array))

(* The separators are what they were before the arguments.                 *)
print(args, st) ==
  With(EvalAll(args, st), LAMBDA vs, st1 :
    LET texts == IF args = <<>> THEN <<st.field0>> ELSE [i \in DOMAIN args |-> to_str(vs[i])]
    IN  Normal([st1 EXCEPT !.out = @ \o Text!Join(texts, ofs(st)) \o ors(st)]))

Delete(array, indices, st) ==
  LET without(S, f) == [k \in DOMAIN f \ S |-> f[k]]
  IN  IF indices = <<>> THEN Normal([st EXCEPT !.arrays = without({array}, @)])
      ELSE With(array_key(indices, st), LAMBDA key, st1 :
             IF array \notin DOMAIN st1.arrays THEN Normal(st1)
             ELSE Normal([st1 EXCEPT !.arrays[array] = without({key}, @)]))

exec(stmt, st) ==
  CASE stmt.op = "block"  -> InOrder(stmt.parts, st)
    [] stmt.op = "expr"   -> With(eval(stmt.parts[1], st), LAMBDA v, st1 : Normal(st1))
    [] stmt.op = "print"  -> print(stmt.parts, st)
    [] stmt.op = "if"     ->
         With(eval(stmt.parts[1], st), LAMBDA v, st1 :
           LET branch == stmt.parts[IF truthy(v) THEN 2 ELSE 3]
           IN  IF branch = Absent THEN Normal(st1) ELSE exec(branch, st1))
    [] stmt.op = "while"  -> Loop(stmt.parts[1], Absent, stmt.parts[2], st)
    [] stmt.op = "for"    ->
         LET r == IF stmt.parts[1] = Absent THEN Normal(st) ELSE exec(stmt.parts[1], st)
         IN  IF r.flow = "error" THEN r ELSE Loop(stmt.parts[2], stmt.parts[3], stmt.parts[4], r.st)
    [] stmt.op = "forin"  ->
         EachKey(stmt.name, KeysOf(st, stmt.parts[1].name), stmt.parts[2], st)
    [] stmt.op = "delete" -> Delete(stmt.name, stmt.parts, st)
    [] stmt.op \in {"break", "continue", "next"} -> Flow(stmt.op, st)

(* A phase of a program; outside a loop there is nothing to break.         *)
run(stmts, st) ==
  LET ended(r) == IF r.flow \in {"normal", "next"} THEN Ok(r.flow, r.st) ELSE Err(r.st)
  IN  ended(InOrder(stmts, st))

-----------------------------------------------------------------------------
(* AwkRun: an input is BEGIN, its views as records, and END.  It is a file *)
(* or, in a block, one view.  An error ends the phases of this input; the  *)
(* block's next view starts with the state that this one left.  (After a   *)
(* file that failed there is no next one.)                                 *)

RECURSIVE Records(_, _, _), AwkRuns(_, _, _)

Records(prog, views, r) ==
  IF views = <<>> \/ ~ r.ok THEN r
  ELSE Records(prog, Tail(views), run(prog.main, set_record(r.st, views[1])))

RunEnd(prog, r) == IF r.ok THEN run(prog.end, r.st).st ELSE r.st

AwkRun(prog, views, st) == RunEnd(prog, Records(prog, views, run(prog.begin, st)))

AwkRuns(prog, inputs, st) ==
  IF inputs = <<>> THEN st ELSE AwkRuns(prog, Tail(inputs), AwkRun(prog, inputs[1], st))
=============================================================================
