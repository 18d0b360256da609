----------------------------- MODULE Characters -----------------------------
(***************************************************************************)
(* What the readers of program text share (Parser of src/parser/mod.rs and *)
(* of src/awk/parser.rs, lex of src/awk/lexer.rs): a text is a sequence of *)
(* characters, "LF" is a newline, and an operator that reads some of it    *)
(* from position p on returns what it read and the position after it, or   *)
(* Error.  A space and a newline stand for all white space.                *)
(***************************************************************************)
EXTENDS Integers, Sequences, SequencesExt

Backslash == "\\"
White     == {" ", "LF"}
Numerals  == <<"0", "1", "2", "3", "4", "5", "6", "7", "8", "9">>
Digits    == Range(Numerals)
DigitValue == [c \in Digits |-> CHOOSE d \in 0..9 : Numerals[d + 1] = c]

Error == [ok |-> FALSE, next |-> 0]
Read(what, next) == [ok |-> TRUE, got |-> what, next |-> next]

(* r, then what k makes of its result.                                     *)
Then(r, k(_, _)) == IF r.ok THEN k(r.got, r.next) ELSE Error

EOF == "EOF"
At(s, p) == IF p <= Len(s) THEN s[p] ELSE EOF

(* advance_while: the position after the characters of S.                  *)
Past(s, p, S) ==
  LET from[q \in 1..(Len(s) + 1)] == IF At(s, q) \in S THEN from[q + 1] ELSE q
  IN  from[p]
=============================================================================
