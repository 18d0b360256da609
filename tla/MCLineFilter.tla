---------------------------- MODULE MCLineFilter ----------------------------
(* Bytes of two bits: a letter, its two cases and the newline.  The codes  *)
(* are such that the newline and a letter differ in the lowest bit, which  *)
(* is when the SWAR subtraction borrows.                                   *)
EXTENDS LineFilter

MCNewline == 2
MCFold    == [b \in 0..3 |-> IF b = 3 THEN 1 ELSE b]
MCNeedles == {<<1>>, <<3, 3>>, <<3, 1>>, <<3, 2>>}
MCDownstream == <<1>>

x(class, optional, dotAll) ==
  [op |-> "x", class |-> class, optional |-> optional, dotAll |-> dotAll]
MCSplitters == {x("dot", FALSE, FALSE), x("notNewline", TRUE, FALSE), x("none", FALSE, FALSE)}
MCFlagged   == {x("dot", FALSE, TRUE), x("notNewline", TRUE, TRUE)}
=============================================================================
