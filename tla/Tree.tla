-------------------------------- MODULE Tree --------------------------------
(***************************************************************************)
(* The bracket scanners of src/commands/tree.rs.  The three kinds of       *)
(* brackets are not told apart there, so "(" stands for an opener of any   *)
(* kind and ")" for a closer of any kind.  Positions count from 0.         *)
(***************************************************************************)
EXTENDS Integers, Sequences, FiniteSetsExt

None == -1

Openers(text) == {i \in 0..(Len(text) - 1) : text[i + 1] = "("}
Closers(text) == {i \in 0..(Len(text) - 1) : text[i + 1] = ")"}

(* A scan counts the brackets it passes that belong to inner regions; it   *)
(* stops at the first one that does not.                                   *)

(* enclosing_open: leftwards from s, the opener that no closer passed on   *)
(* the way matches.                                                        *)
EnclosingOpen(text, s) ==
  LET depth(i) == Cardinality({j \in Closers(text) : i < j /\ j < s})
                  - Cardinality({j \in Openers(text) : i < j /\ j < s})
      stops    == {i \in Openers(text) : i < s /\ depth(i) = 0}
  IN  IF stops = {} THEN None ELSE Max(stops)

MutantEnclosingClose(text, e) ==
  LET stops == {i \in Closers(text) : e <= i}
  IN  IF stops = {} THEN None ELSE Min(stops)

(* enclosing_close: rightwards from e, the closer that no opener passed on *)
(* the way matches.                                                        *)
EnclosingClose(text, e) ==
  LET depth(i) == Cardinality({j \in Openers(text) : e <= j /\ j < i})
                  - Cardinality({j \in Closers(text) : e <= j /\ j < i})
      stops    == {i \in Closers(text) : e <= i /\ depth(i) = 0}
  IN  IF stops = {} THEN None ELSE Min(stops)

(* matching_close: rightwards from an opener to where the depth is 0 again.*)
MatchingClose(text, open) ==
  LET depth(i) == Cardinality({j \in Openers(text) : open <= j /\ j < i})
                  - Cardinality({j \in Closers(text) : open <= j /\ j < i})
      stops    == {i \in Closers(text) : open < i /\ depth(i) = 1}
  IN  IF stops = {} THEN None ELSE Min(stops)

(* +: the block around text[s..e) and the brackets of the block, as the    *)
(* start and end of a slice, or text[s..e) itself at the top level.        *)
Expanded(text, s, e) ==
  LET open == EnclosingOpen(text, s)  close == EnclosingClose(text, e)
  IN  IF open # None /\ close # None
      THEN [start |-> open, end |-> close + 1]
      ELSE [start |-> s, end |-> e]

(* -: the slices inside the first bracket pair, none if there is no        *)
(* opener, and all that follows an opener that nothing closes.             *)
Collapsed(text) ==
  IF Openers(text) = {} THEN <<>>
  ELSE LET open  == Min(Openers(text))
           close == MatchingClose(text, open)
       IN  <<[start |-> open + 1, end |-> IF close = None THEN Len(text) ELSE close]>>

-----------------------------------------------------------------------------
(* What the scanners are for, by the height of each prefix.                *)

Height(text, i) == Cardinality({j \in Openers(text) : j < i})
                   - Cardinality({j \in Closers(text) : j < i})
Balanced(text)  == /\ Height(text, Len(text)) = 0
                   /\ \A i \in 0..Len(text) : Height(text, i) >= 0

(* The bracketed regions [start, end) of a text.                           *)
Regions(text) ==
  {r \in [start : Openers(text), end : {i + 1 : i \in Closers(text)}] :
     r.start < r.end - 1 /\ Balanced(SubSeq(text, r.start + 2, r.end - 1))}
=============================================================================
