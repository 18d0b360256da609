----------------------------- MODULE MatchIter ------------------------------
(***************************************************************************)
(* The match iterators of src/engine/regex.rs and the three loops of       *)
(* src/commands/mod.rs that drain them over one view: x (keep the          *)
(* matches), y (keep the gaps) and s (edit the matches).                   *)
(*                                                                         *)
(* A pattern is abstracted to what the iterators can observe of it: for    *)
(* each position of the view, whether a match starts there and where it    *)
(* ends.  Both backends search for the leftmost match at or after the      *)
(* cursor and see the whole view around it, so the end of a match depends  *)
(* on its start alone.                                                     *)
(***************************************************************************)
EXTENDS Integers, Sequences

CONSTANTS
  MaxLen,         (* Bound on the length of the view.                      *)
  MaxOccurrence   (* Bound on the N of s///N.                              *)

ASSUME MatchIterAssumption == MaxLen \in Nat /\ MaxOccurrence \in Nat \ {0}

None == -1

VARIABLES
  len,        (* Length of the view.                                       *)
  match,      (* match[p] is the end of the match that starts at p, or None*)
  newlineEnd, (* Whether the last byte of the view is a newline.           *)
  user,       (* Who drains the iterator: "x", "y" or "s".                 *)
  captures,   (* s only: the replacement refers to capture groups.         *)
  occurrence, (* s only: the N of s///N, 1 by default.                     *)
  global,     (* s only: the g flag.                                       *)
  offset,     (* MatchIterator.offset: where the next search starts.       *)
  done,       (* MatchIterator.done.                                       *)
  yielded,    (* The matches yielded so far.                               *)
  gaps,       (* y only: the views collected so far.                       *)
  lastEnd,    (* y only: the end of the last match.                        *)
  edits,      (* s only: the matches recorded as mutations.                *)
  pc

input == <<len, match, newlineEnd, user, captures, occurrence, global>>
vars  == <<input, offset, done, yielded, gaps, lastEnd, edits, pc>>

-----------------------------------------------------------------------------
Span(from, to) == [start |-> from, end |-> to]
Spans          == [start : 0..len, end : 0..len]

Pattern(n) == {f \in [0..n -> {None} \cup 0..n] : \A p \in 0..n : f[p] # None => f[p] >= p}

(* x and y use find_iter, s uses find_iter_sub or captures_iter.           *)
NewlineOnlyEof == user = "s"

(* The leftmost match at or after the cursor starts at p.                  *)
IsLeftmost(p) ==
  /\ p \in offset..len
  /\ match[p] # None
  /\ \A q \in offset..(p - 1) : match[q] = None

(* The operators named Mutant... are faulty variants of the definition that *)
(* follows them.  The specification does not use them: put in its place,   *)
(* each one makes a property fail, which shows what the property is for.   *)
MutantIsSyntheticEof(start, end) == start = end /\ end = len /\ newlineEnd

(* is_synthetic_eof: the empty match at the end of the view that is        *)
(* dropped.  s drops it only after a final newline.                        *)
IsSyntheticEof(start, end) ==
  /\ start = end
  /\ end = len
  /\ NewlineOnlyEof => newlineEnd

MutantStuck(start, end) ==
  /\ done' = (done \/ (start = end /\ offset >= len))
  /\ offset' = end

MutantSkipTwo(start, end) ==
  IF end > start
  THEN offset' = end + 1 /\ UNCHANGED done
  ELSE offset' = end + 1 /\ done' = (done \/ offset >= len)

(* MatchIterator::advance: past the match, one byte further after an empty *)
(* one.                                                                    *)
AdvanceMatch(start, end) ==
  IF end > start
  THEN offset' = end /\ UNCHANGED done
  ELSE offset' = end + 1 /\ done' = (done \/ offset >= len)

(* The free function advance, which CapturesIter uses.                     *)
AdvanceCaptures(start, end) ==
  IF end > start
  THEN offset' = end /\ UNCHANGED done
  ELSE offset' = end + 1 /\ done' = (done \/ offset >= len)

-----------------------------------------------------------------------------
Init ==
  /\ len \in 0..MaxLen
  /\ match \in Pattern(len)
  /\ newlineEnd \in BOOLEAN
  /\ newlineEnd => len > 0
  /\ user \in {"x", "y", "s"}
  /\ captures \in BOOLEAN /\ (captures => user = "s")
  /\ occurrence \in 1..MaxOccurrence /\ (occurrence > 1 => user = "s")
  /\ global \in BOOLEAN /\ (global => user = "s")
  /\ offset = 0
  /\ done = FALSE
  /\ yielded = <<>>
  /\ gaps = <<>>
  /\ lastEnd = 0
  /\ edits = <<>>
  /\ pc = "next"

(* The part of the loop body that keeps a gap.                             *)
KeepGapUpTo(start) ==
  gaps' = IF user = "y" /\ start > lastEnd THEN Append(gaps, Span(lastEnd, start)) ELSE gaps

MutantYield(p) ==
  LET end == match[p]  nth == Len(yielded) + 1 IN
  /\ yielded' = Append(yielded, Span(p, end))
  /\ IF captures THEN AdvanceCaptures(p, end) ELSE AdvanceMatch(p, end)
  /\ KeepGapUpTo(p)
  /\ lastEnd' = IF user = "y" THEN end ELSE lastEnd
  /\ IF user = "s" /\ nth > occurrence
     THEN /\ edits' = Append(edits, Span(p, end))
          /\ pc' = IF global THEN "next" ELSE "ended"
     ELSE UNCHANGED <<edits, pc>>

MutantYieldGap(p) ==
  LET end == match[p]  nth == Len(yielded) + 1 IN
  /\ yielded' = Append(yielded, Span(p, end))
  /\ IF captures THEN AdvanceCaptures(p, end) ELSE AdvanceMatch(p, end)
  /\ KeepGapUpTo(p)
  /\ lastEnd' = IF user = "y" THEN offset' ELSE lastEnd
  /\ IF user = "s" /\ nth >= occurrence
     THEN /\ edits' = Append(edits, Span(p, end))
          /\ pc' = IF global THEN "next" ELSE "ended"
     ELSE UNCHANGED <<edits, pc>>

(* The iterator yields the match at p and its user handles it: y keeps the *)
(* gap before it; s skips the matches before the occurrence asked for and  *)
(* stops after one edit unless it is global.                               *)
Yield(p) ==
  LET end == match[p]  nth == Len(yielded) + 1 IN
  /\ yielded' = Append(yielded, Span(p, end))
  /\ IF captures THEN AdvanceCaptures(p, end) ELSE AdvanceMatch(p, end)
  /\ KeepGapUpTo(p)
  /\ lastEnd' = IF user = "y" THEN end ELSE lastEnd
  /\ IF user = "s" /\ nth >= occurrence
     THEN /\ edits' = Append(edits, Span(p, end))
          /\ pc' = IF global THEN "next" ELSE "ended"
     ELSE UNCHANGED <<edits, pc>>

(* next() finds a match and yields it.                                     *)
NextMatch ==
  /\ pc = "next"
  /\ ~ done
  /\ \E p \in offset..len :
       /\ IsLeftmost(p)
       /\ ~ IsSyntheticEof(p, match[p])
       /\ Yield(p)
  /\ UNCHANGED input

MutantNextNone ==
  /\ pc = "next"
  /\ \/ done
     \/ \A p \in offset..len : IsLeftmost(p) => IsSyntheticEof(p, match[p])
  /\ IF ~ done /\ \E p \in offset..len : IsLeftmost(p)
     THEN UNCHANGED <<gaps, pc>>
     ELSE KeepGapUpTo(len) /\ pc' = "ended"
  /\ UNCHANGED <<input, offset, done, yielded, lastEnd, edits>>

(* next() returns None: it is done, the cursor is past the end, or nothing *)
(* but the synthetic record at the end of the view is left.  y then keeps  *)
(* what follows the last match.                                            *)
NextNone ==
  /\ pc = "next"
  /\ \/ done
     \/ \A p \in offset..len : IsLeftmost(p) => IsSyntheticEof(p, match[p])
  /\ done' = (done \/ \E p \in offset..len : IsLeftmost(p))
  /\ KeepGapUpTo(len)
  /\ pc' = "ended"
  /\ UNCHANGED <<input, offset, yielded, lastEnd, edits>>

Next == NextMatch \/ NextNone

Spec     == Init /\ [][Next]_vars
(* The loops run on one thread and take every step they can.               *)
FairSpec == Spec /\ WF_vars(Next)

-----------------------------------------------------------------------------
(* Properties.                                                             *)

(* Every variable stays in its domain.                                     *)
TypeOK ==
  /\ len \in 0..MaxLen
  /\ match \in Pattern(len)
  /\ newlineEnd \in BOOLEAN /\ captures \in BOOLEAN /\ global \in BOOLEAN
  /\ user \in {"x", "y", "s"}
  /\ occurrence \in 1..MaxOccurrence
  /\ offset \in 0..(len + 1)
  /\ done \in BOOLEAN
  /\ yielded \in Seq(Spans) /\ gaps \in Seq(Spans) /\ edits \in Seq(Spans)
  /\ lastEnd \in 0..len
  /\ pc \in {"next", "ended"}

(* Matches come in order, without overlap, each at a later start: no match *)
(* is yielded twice, an empty one neither.                                 *)
OrderedDisjoint ==
  /\ \A k \in DOMAIN yielded : yielded[k].start <= yielded[k].end
  /\ \A k, l \in DOMAIN yielded : k < l =>
       /\ yielded[k].end <= yielded[l].start
       /\ yielded[k].start < yielded[l].start

(* A start that was passed over: it was yielded, it lies inside a yielded  *)
(* match, or it is the synthetic record.                                   *)
Accounted(p) ==
  \/ \E k \in DOMAIN yielded :
       \/ yielded[k].start = p
       \/ yielded[k].start < p /\ p < yielded[k].end
  \/ p = len /\ IsSyntheticEof(p, match[p])

(* Stepping over an empty match by one byte neither skips a match nor      *)
(* loses the one at the end: a start behind the cursor is accounted for,   *)
(* and when the iterator is exhausted every start is.                      *)
CompleteScan ==
  \A p \in 0..len :
    match[p] # None /\ (p < offset \/ (pc = "ended" /\ (user = "s" => global)))
      => Accounted(p)

(* regex.rs:254-258.  x and y never see an empty record at the end of the  *)
(* view; s edits there, on an empty view too, unless a newline precedes.   *)
EofRule ==
  /\ (\E k \in DOMAIN yielded : yielded[k] = Span(len, len)) => user = "s" /\ ~ newlineEnd
  /\ pc = "ended" /\ user = "s" /\ global /\ occurrence = 1
       /\ match[len] = len /\ ~ newlineEnd
       /\ (\A p \in 0..(len - 1) : match[p] = None \/ match[p] < len)
     => \E k \in DOMAIN edits : edits[k] = Span(len, len)

(* The yield of y is the complement of the yield of x: each byte of the    *)
(* view is in exactly one gap or one match, and no gap is empty.           *)
GapsComplementMatches ==
  user = "y" /\ pc = "ended" =>
    /\ \A b \in 0..(len - 1) :
         (\E k \in DOMAIN gaps : gaps[k].start <= b /\ b < gaps[k].end)
           <=> ~ \E k \in DOMAIN yielded : yielded[k].start <= b /\ b < yielded[k].end
    /\ \A k, l \in DOMAIN gaps : k < l => gaps[k].end <= gaps[l].start
    /\ \A k \in DOMAIN gaps : gaps[k].start < gaps[k].end

(* s///N edits the N-th match only, s///Ng that one and all later ones.    *)
EditsFromOccurrence ==
  user = "s" /\ pc = "ended" =>
    /\ edits = SubSeq(yielded, occurrence, Len(yielded))
    /\ ~ global => Len(yielded) <= occurrence

(* regex.rs:326-327: forward progress on empty matches, "so iteration      *)
(* always terminates instead of looping on the same position".             *)
Terminates == <>(pc = "ended")
=============================================================================
