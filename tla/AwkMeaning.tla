----------------------------- MODULE AwkMeaning -----------------------------
(***************************************************************************)
(* What the statements of an awk program do, told without recursion into   *)
(* statements and without results that travel up through it: the reference *)
(* for AwkInterp.  All that is still to be done is one agenda, from the    *)
(* BEGIN of the first input to the END of the last.  It holds statements   *)
(* and marks: "again" is the end of a loop's body, with what comes back    *)
(* there; "each" the rest of the keys of a loop over an array; "load" a    *)
(* record; "phase" the end of BEGIN, of a record or of END; "input" the    *)
(* beginning of an input.                                                  *)
(***************************************************************************)
EXTENDS AwkInterp

Again(items) == Node("again", "", items)
Phase        == Leaf("phase", "")
Input        == Leaf("input", "")

Agenda(prog, inputs) ==
  LET record(view) == <<Node("load", "", <<view>>)>> \o prog.main \o <<Phase>>
      input(views) == <<Input>> \o prog.begin \o <<Phase>>
                        \o FlattenSeq([i \in DOMAIN views |-> record(views[i])])
                        \o prog.end \o <<Phase>>
  IN  FlattenSeq([i \in DOMAIN inputs |-> input(inputs[i])])

(* The agenda from its first item that is one of marks on.                 *)
From(agenda, marks) ==
  LET p == SelectInSeq(agenda, LAMBDA item : item.op \in marks)
  IN  IF p = 0 THEN <<>> ELSE SubSeq(agenda, p, Len(agenda))

RECURSIVE Do(_, _)

Do(agenda, st) ==
  LET item == Head(agenda)
      rest == Tail(agenda)
      part(i) == item.parts[i]
      fail(st1) == Do(From(rest, {"input"}), st1)
      branch(r, yes, no) ==
        IF r.ok THEN Do((IF truthy(r.v) THEN yes ELSE no) \o rest, r.st) ELSE fail(r.st)
      if(cond, yes, no) == branch(eval(cond, st), yes, no)
      after(r) == IF r.flow = "error" THEN fail(r.st) ELSE Do(rest, r.st)
      loop == From(rest, {"again", "phase"})   (* the innermost one         *)
  IN
  IF agenda = <<>> THEN st
  ELSE CASE item.op \in {"phase", "input", "absent"} -> Do(rest, st)
    [] item.op = "load"  -> Do(rest, set_record(st, part(1)))
    [] item.op \in {"again", "block"} -> Do(item.parts \o rest, st)
    [] item.op = "if"    -> if(part(1), <<part(2)>>, <<part(3)>>)
    [] item.op = "while" -> if(part(1), <<part(2), Again(<<item>>)>>, <<>>)
    [] item.op = "for" /\ part(1) # Absent ->
         Do(<<part(1), [item EXCEPT !.parts[1] = Absent]>> \o rest, st)
    [] item.op = "for" /\ part(1) = Absent ->
         LET body == <<part(4), Again(<<part(3), item>>)>>
         IN  IF part(2) = Absent THEN Do(body \o rest, st) ELSE if(part(2), body, <<>>)
    [] item.op = "forin" ->
         Do(<<Node("each", item.name, <<KeysOf(st, part(1).name), part(2)>>)>> \o rest, st)
    [] item.op = "each" /\ part(1) = <<>> -> Do(rest, st)
    [] item.op = "each" /\ part(1) # <<>> ->
         Do(<<part(2), Again(<<[item EXCEPT !.parts[1] = Tail(@)]>>)>> \o rest,
            [st EXCEPT !.vars = Put(@, item.name, Str(part(1)[1]))])
    [] item.op = "break"    -> IF loop[1].op = "again" THEN Do(Tail(loop), st) ELSE fail(st)
    [] item.op = "continue" -> IF loop[1].op = "again" THEN Do(loop, st) ELSE fail(st)
    [] item.op = "next"     -> Do(From(rest, {"phase"}), st)
    [] item.op \in {"expr", "print", "delete"} -> after(exec(item, st))

(* What a program prints, and the state it ends in.                        *)
RunsAsWritten(prog, inputs, keys) ==
  AwkRuns(prog, inputs, NewInterp(keys)) = Do(Agenda(prog, inputs), NewInterp(keys))

-----------------------------------------------------------------------------
(* Assignments and functions.                                              *)

(* A compound assignment is the plain one of its operation, applied to     *)
(* what the target holds once the right side is evaluated; an increment is *)
(* a compound assignment.                                                  *)
CompoundIsPlain(op, lv, rhs, st) ==
  LET right == eval(rhs, st)
      literal == Leaf("str", to_str(right.v))
      plain == Node("assign", "=", <<lv, Node("binary", OpOf(op), <<lv, literal>>)>>)
  IN  eval(Node("assign", op, <<lv, rhs>>), st) = IF right.ok THEN eval(plain, right.st) ELSE right

IncrIsCompound(op, lv, st) ==
  LET one  == Node("assign", IF op = "++" THEN "+=" ELSE "-=", <<lv, Leaf("num", <<"1">>)>>)
      post == eval(Node("post", op, <<lv>>), st)
  IN  /\ eval(Node("pre", op, <<lv>>), st) = eval(one, st)
      /\ post = IF eval(one, st).ok THEN Ok(Num(num(eval(lv, st).v)), eval(one, st).st)
                                    ELSE eval(one, st)

(* substr gives the characters at positions m up to but not m + n, and     *)
(* without n those from m on.                                              *)
SubstrIsExact(s, m, n) ==
  LET kept(S) == LET chosen == {p \in DOMAIN s : p \in S}
                 IN  [i \in 1..Cardinality(chosen) |->
                        s[CHOOSE p \in chosen : Cardinality({q \in chosen : q <= p}) = i]]
      given(args) == call("substr", [i \in DOMAIN args |-> Leaf("str", args[i])], NewInterp(<<>>)).v
  IN  /\ given(<<s, fmt_num(m), fmt_num(n)>>) = Str(kept(m..(m + n - 1)))
      /\ given(<<s, fmt_num(m)>>) = Str(kept(m..Len(s)))
=============================================================================
