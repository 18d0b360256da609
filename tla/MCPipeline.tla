----------------------------- MODULE MCPipeline -----------------------------
(* Programs and inputs on which Pipeline is model-checked.                 *)
EXTENDS Pipeline

C(op, re)   == [op |-> op, re |-> re, global |-> FALSE]
CG(op, re)  == [op |-> op, re |-> re, global |-> TRUE]

MCLines == C("x", "line")

(* Commands without a block.                                               *)
MCSimple == {C("x", "a"), C("y", "a"), C("g", "a"), C("v", "a"), C("s", "a"), CG("s", "b"),
             CG("s", "eol"), C("+", ""), C("-", ""), C("c", ""), C("p", ""), C("=", ""),
             C("N", ""), C("r", ""),
             C("@", "ok"), C("@", "begin"), C("@", "record"), C("@", "end")}

(* Commands with a block.                                                  *)
MCBlocks == {C("group", ""), C("m", "a"), C("/", "a"), C("t", "")}

(* Commands that make a block worth having.                                *)
MCInner == {C("x", "a"), C("g", "a"), C("s", "a"), C("c", ""), C("p", ""), C("N", ""),
            C("r", ""), C("@", "ok"), C("@", "record")}

Flat(cmds) == [p \in {<<>>} |-> cmds]

(* Command cmd, with block b, between before and after.                    *)
Nested(before, cmd, b, after) ==
  [p \in {<<>>, <<Len(before) + 1>>} |->
     IF p = <<>> THEN before \o <<cmd>> \o after ELSE b]

MCPrograms ==
  {Flat(<<>>)}
  \cup {Flat(<<a>>) : a \in MCSimple}
  \cup {Flat(<<MCLines, a, b>>) : a, b \in MCSimple}
  \cup {Flat(<<C("x", "a"), C("+", ""), a>>) : a \in MCSimple}
  \cup {Nested(<<MCLines, CG("s", "b")>>, c, <<a, b>>, <<d>>) :
          c \in MCBlocks, a, b \in MCInner, d \in {C("N", ""), C("@", "ok")}}
  (* A block in a block.                                                    *)
  \cup {[p \in {<<>>, <<2>>, <<2, 1>>} |->
           CASE p = <<>>   -> <<MCLines, c, C("@", "ok"), C("N", "")>>
             [] p = <<2>>  -> <<d, C("s", "a"), C("p", "")>>
             [] p = <<2, 1>> -> <<a, C("p", "")>>] :
          c, d \in MCBlocks, a \in MCInner}

(* The middle one is ((()a())b) and a newline: there are regions within    *)
(* and beside the one that a is in.                                        *)
MCDocs == {<<>>,
           <<"(", "(", "(", ")", "a", "(", ")", ")", "b", ")", "n">>,
           <<"a", "n", "b", "(", "a", "n", "a">>}

(* Programs in which an offset is taken of a view that c or r made.        *)
MCOffsetPrograms == {Flat(<<C("x", "a"), a, b>>) :
                       a \in {C("c", ""), C("r", "")}, b \in {C("=", ""), C("s", "b"), C("p", "")}}
=============================================================================
