-------------------------- MODULE MatchIterProofs ---------------------------
(***************************************************************************)
(* Proofs about MatchIter, for views of any length and every pattern.      *)
(***************************************************************************)
EXTENDS MatchIter, Recursion, SequenceTheorems

(* Every match yielded lies behind the cursor, which is past the end once  *)
(* the iterator is done.                                                   *)
Behind ==
  /\ \A k \in DOMAIN yielded : yielded[k].start < offset /\ yielded[k].end <= offset
  /\ pc = "next" /\ done => offset > len

(* The parts of the type invariant that stay and that change.              *)
InputOK ==
  /\ len \in 0..MaxLen
  /\ match \in Pattern(len)
  /\ newlineEnd \in BOOLEAN /\ captures \in BOOLEAN /\ global \in BOOLEAN
  /\ user \in {"x", "y", "s"}
  /\ occurrence \in 1..MaxOccurrence
IterOK ==
  /\ offset \in 0..(len + 1)
  /\ done \in BOOLEAN
  /\ pc \in {"next", "ended"}
ViewsOK ==
  /\ yielded \in Seq(Spans) /\ gaps \in Seq(Spans) /\ edits \in Seq(Spans)
  /\ lastEnd \in 0..len

LEMMA TypeParts == TypeOK <=> InputOK /\ IterOK /\ ViewsOK
  BY DEF TypeOK, InputOK, IterOK, ViewsOK

LEMMA InputStays == InputOK /\ UNCHANGED input => InputOK'
  BY DEF InputOK, input, Pattern

(* What a step that yields a match does, whichever iterator it is.         *)
YieldsAt(p) ==
  /\ p \in offset..len
  /\ match[p] \in p..len
  /\ \A q \in offset..(p - 1) : match[q] = None
  /\ yielded' = Append(yielded, Span(p, match[p]))
  /\ offset' = IF match[p] > p THEN match[p] ELSE match[p] + 1
  /\ offset < len => UNCHANGED done
  /\ done' \in BOOLEAN

LEMMA MatchYields ==
  ASSUME TypeOK, NextMatch
  PROVE  \E p : YieldsAt(p) /\ Yield(p)
<1>1. PICK p \in offset..len : IsLeftmost(p) /\ ~ IsSyntheticEof(p, match[p]) /\ Yield(p)
  BY DEF NextMatch
<1>2. match[p] \in p..len /\ \A q \in offset..(p - 1) : match[q] = None
  BY <1>1 DEF TypeOK, IsLeftmost, Pattern, None
<1>3. yielded' = Append(yielded, Span(p, match[p]))
  BY <1>1 DEF Yield
<1>4. AdvanceMatch(p, match[p])
  BY <1>1 DEF Yield, AdvanceMatch, AdvanceCaptures
<1>5. offset' = IF match[p] > p THEN match[p] ELSE match[p] + 1
  BY <1>4 DEF AdvanceMatch
<1>6. offset < len => UNCHANGED done
  <2> SUFFICES ASSUME offset < len PROVE done' = done
    OBVIOUS
  <2>1. CASE match[p] > p
    BY <2>1, <1>4 DEF AdvanceMatch
  <2>2. CASE ~ match[p] > p
    <3>1. done' = (done \/ offset >= len)
      BY <2>2, <1>4, Zenon DEF AdvanceMatch
    <3>2. ~ offset >= len
      BY DEF TypeOK
    <3> QED
      BY <3>1, <3>2, Zenon DEF TypeOK
  <2> QED
    BY <2>1, <2>2
<1>7. done' \in BOOLEAN
  <2>1. CASE match[p] > p
    BY <2>1, <1>4 DEF AdvanceMatch, TypeOK
  <2>2. CASE ~ match[p] > p
    BY <2>2, <1>4, Zenon DEF AdvanceMatch
  <2> QED
    BY <2>1, <2>2
<1> QED
  BY <1>1, <1>2, <1>3, <1>5, <1>6, <1>7 DEF YieldsAt

-----------------------------------------------------------------------------
(* Types.                                                                  *)

LEMMA InitType == Init => TypeOK
<1> SUFFICES ASSUME Init PROVE TypeOK
  OBVIOUS
<1>1. InputOK
  BY DEF Init, InputOK
<1>2. len \in Nat
  BY MatchIterAssumption DEF Init
<1>3. IterOK
  <2>1. offset \in 0..(len + 1) /\ pc \in {"next", "ended"}
    BY <1>2 DEF Init
  <2> QED
    BY <2>1, Zenon DEF Init, IterOK
<1>4. ViewsOK
  <2>1. yielded \in Seq(Spans) /\ gaps \in Seq(Spans) /\ edits \in Seq(Spans)
    BY DEF Init
  <2> QED
    BY <1>2, <2>1 DEF Init, ViewsOK
<1> QED
  BY <1>1, <1>3, <1>4, TypeParts

LEMMA GapKept ==
  ASSUME TypeOK, NEW p \in 0..len, KeepGapUpTo(p)
  PROVE  gaps' \in Seq(Spans)
<1>1. Span(lastEnd, p) \in Spans
  BY DEF Span, Spans, TypeOK
<1> QED
  BY <1>1 DEF KeepGapUpTo, TypeOK

LEMMA NextType ==
  ASSUME TypeOK, [Next]_vars
  PROVE  TypeOK'
<1>1. CASE NextMatch
  <2>1. InputOK'
    BY <1>1, TypeParts, InputStays DEF NextMatch
  <2>2. PICK p : YieldsAt(p) /\ Yield(p)
    BY <1>1, MatchYields
  <2>3. IterOK'
    <3>1. len' = len /\ len \in Nat
      BY <1>1, MatchIterAssumption DEF NextMatch, input, TypeOK
    <3>2. offset' \in 0..(len' + 1)
      BY <2>2, <3>1 DEF YieldsAt, TypeOK
    <3>3. done' \in BOOLEAN
      BY <2>2 DEF YieldsAt
    <3>4. pc' \in {"next", "ended"}
      BY <2>2 DEF Yield, TypeOK
    <3> QED
      BY <3>2, <3>3, <3>4 DEF IterOK
  <2>4. len' = len /\ Spans' = Spans
    BY <1>1 DEF NextMatch, input, Spans
  <2>5. Span(p, match[p]) \in Spans
    <3>1. p \in 0..len /\ match[p] \in 0..len
      BY <2>2 DEF YieldsAt, TypeOK
    <3> QED
      BY <3>1 DEF Span, Spans
  <2>6. yielded' \in Seq(Spans)
    BY <2>2, <2>5 DEF YieldsAt, TypeOK
  <2>7. edits' \in Seq(Spans)
    <3>1. edits' = edits \/ edits' = Append(edits, Span(p, match[p]))
      BY <2>2, Zenon DEF Yield
    <3>2. edits \in Seq(Spans)
      BY DEF TypeOK
    <3>3. Append(edits, Span(p, match[p])) \in Seq(Spans)
      BY <2>5, <3>2
    <3> QED
      BY <3>1, <3>2, <3>3
  <2>8. lastEnd' \in 0..len
    BY <2>2 DEF Yield, YieldsAt, TypeOK
  <2>9. gaps' \in Seq(Spans)
    <3>1. p \in 0..len
      BY <2>2 DEF YieldsAt, TypeOK
    <3> QED
      BY <2>2, <3>1, GapKept DEF Yield
  <2>10. ViewsOK'
    BY <2>4, <2>6, <2>7, <2>8, <2>9 DEF ViewsOK
  <2> QED
    BY <2>1, <2>3, <2>10 DEF TypeOK, InputOK, IterOK, ViewsOK
<1>2. CASE NextNone
  <2>1. InputOK'
    BY <1>2, TypeParts, InputStays DEF NextNone
  <2>2. done' \in BOOLEAN
    BY <1>2, Zenon DEF NextNone
  <2>3. IterOK'
    BY <1>2, <2>2 DEF NextNone, IterOK, TypeOK, input
  <2>4. gaps' \in Seq(Spans)
    <3>1. len \in 0..len
      BY MatchIterAssumption DEF TypeOK
    <3> QED
      BY <1>2, <3>1, GapKept DEF NextNone
  <2>5. len' = len /\ Spans' = Spans
    BY <1>2 DEF NextNone, input, Spans
  <2>6. ViewsOK'
    BY <1>2, <2>4, <2>5 DEF NextNone, ViewsOK, TypeOK
  <2> QED
    BY <2>1, <2>3, <2>6 DEF TypeOK, InputOK, IterOK, ViewsOK
<1>3. CASE UNCHANGED vars
  BY <1>3 DEF vars, input, TypeOK, Pattern, Spans
<1> QED
  BY <1>1, <1>2, <1>3 DEF Next

(* TypeOK: every variable of the iterators and of their users stays in its *)
(* domain, the cursor at most one byte past the end of the view.           *)
THEOREM TypeCorrect == Spec => []TypeOK
  BY InitType, NextType, PTL DEF Spec

-----------------------------------------------------------------------------
(* The inductive invariant.  Order needs that the matches yielded lie      *)
(* behind the cursor; completeness needs, besides, that the iterator is    *)
(* done only when its cursor has left the view.                            *)
IInv == TypeOK /\ Behind /\ OrderedDisjoint /\ CompleteScan

LEMMA InitInvariant == Init => IInv
<1> SUFFICES ASSUME Init PROVE IInv
  OBVIOUS
<1>1. TypeOK
  BY InitType
<1>2. Behind
  BY DEF Init, Behind
<1>3. OrderedDisjoint
  BY DEF Init, OrderedDisjoint
<1>4. CompleteScan
  BY MatchIterAssumption DEF Init, CompleteScan
<1> QED
  BY <1>1, <1>2, <1>3, <1>4 DEF IInv

(* The matches yielded before a step are yielded after it, at the same     *)
(* places, and one more follows.                                           *)
LEMMA OneMore ==
  ASSUME TypeOK, NEW p, YieldsAt(p)
  PROVE  /\ DOMAIN yielded' = 1..(Len(yielded) + 1)
         /\ DOMAIN yielded = 1..Len(yielded) /\ Len(yielded) \in Nat
         /\ \A k \in DOMAIN yielded : yielded'[k] = yielded[k]
         /\ yielded'[Len(yielded) + 1].start = p
         /\ yielded'[Len(yielded) + 1].end = match[p]
         /\ \A k \in DOMAIN yielded :
              yielded[k].start \in Int /\ yielded[k].end \in Int
<1>1. yielded \in Seq(Spans) /\ yielded' = Append(yielded, Span(p, match[p]))
  BY DEF TypeOK, YieldsAt
<1>2. \A k \in DOMAIN yielded : yielded[k] \in Spans
  BY <1>1
<1>3. \A k \in DOMAIN yielded : yielded[k].start \in Int /\ yielded[k].end \in Int
  BY <1>2 DEF Spans
<1>4. yielded'[Len(yielded) + 1] = Span(p, match[p])
  BY <1>1
<1> QED
  BY <1>1, <1>3, <1>4 DEF Span

LEMMA CursorMoves ==
  ASSUME TypeOK, NEW p, YieldsAt(p)
  PROVE  /\ offset \in Nat /\ offset' \in Nat /\ len \in Nat
         /\ p \in Nat /\ match[p] \in Nat
         /\ offset <= p /\ p <= match[p] /\ p < offset' /\ match[p] <= offset'
         /\ p <= len
         /\ \A q \in Nat : p < q /\ q < offset' => q < match[p]
  BY MatchIterAssumption DEF TypeOK, YieldsAt

LEMMA KeepsOrder ==
  ASSUME TypeOK, Behind, OrderedDisjoint, NextMatch
  PROVE  Behind' /\ OrderedDisjoint'
<1>1. PICK p : YieldsAt(p)
  BY MatchYields
<1> DEFINE n == Len(yielded) + 1
<1>2. /\ DOMAIN yielded' = 1..n
      /\ DOMAIN yielded = 1..(n - 1) /\ n \in Nat
      /\ \A k \in 1..(n - 1) : yielded'[k] = yielded[k]
      /\ yielded'[n].start = p /\ yielded'[n].end = match[p]
      /\ \A k \in 1..(n - 1) : yielded[k].start \in Int /\ yielded[k].end \in Int
  BY <1>1, OneMore
<1>3. /\ offset \in Nat /\ offset' \in Nat /\ len \in Nat
      /\ p \in Nat /\ match[p] \in Nat /\ p <= len
      /\ offset <= p /\ p <= match[p] /\ p < offset' /\ match[p] <= offset'
  BY <1>1, CursorMoves
<1> HIDE DEF n
<1>4. \A k \in 1..(n - 1) : yielded[k].start < offset /\ yielded[k].end <= offset
  BY <1>2 DEF Behind
<1>5. \A k \in 1..n : k \in 1..(n - 1) \/ k = n
  BY <1>2
<1>6. ASSUME NEW k \in 1..n
      PROVE  yielded'[k].start < offset' /\ yielded'[k].end <= offset'
  <2>1. CASE k \in 1..(n - 1)
    <3>1. /\ yielded'[k] = yielded[k]
          /\ yielded[k].start \in Int /\ yielded[k].end \in Int
          /\ yielded[k].start < offset /\ yielded[k].end <= offset
      BY <1>2, <1>4, <2>1
    <3>2. offset \in Nat /\ offset' \in Nat /\ offset < offset'
      BY <1>3
    <3> QED
      BY <3>1, <3>2
  <2>2. CASE k = n
    BY <1>2, <1>3, <2>2
  <2> QED
    BY <1>5, <2>1, <2>2
<1>7. pc' = "next" /\ done' => offset' > len'
  <2> SUFFICES ASSUME done' PROVE offset' > len'
    OBVIOUS
  <2>1. len' = len
    BY DEF NextMatch, input
  <2>2. CASE offset < len
    <3>1. done' = done
      BY <1>1, <2>2 DEF YieldsAt
    <3> QED
      BY <3>1 DEF NextMatch
  <2>3. CASE ~ offset < len
    BY <1>3, <2>1, <2>3
  <2> QED
    BY <2>2, <2>3
<1>8. Behind'
  BY <1>2, <1>6, <1>7 DEF Behind
<1>9. ASSUME NEW k \in 1..n PROVE yielded'[k].start <= yielded'[k].end
  <2>1. CASE k \in 1..(n - 1)
    BY <1>2, <2>1 DEF OrderedDisjoint
  <2>2. CASE k = n
    BY <1>2, <1>3, <2>2
  <2> QED
    BY <1>5, <2>1, <2>2
<1>10. ASSUME NEW k \in 1..n, NEW l \in 1..n, k < l
       PROVE  /\ yielded'[k].end <= yielded'[l].start
              /\ yielded'[k].start < yielded'[l].start
  <2>1. k \in 1..(n - 1)
    BY <1>2, <1>10
  <2>2. CASE l \in 1..(n - 1)
    BY <1>2, <1>10, <2>1, <2>2 DEF OrderedDisjoint
  <2>3. CASE l = n
    BY <1>2, <1>3, <1>4, <2>1, <2>3
  <2> QED
    BY <1>5, <2>2, <2>3
<1>11. OrderedDisjoint'
  BY <1>2, <1>9, <1>10 DEF OrderedDisjoint
<1> QED
  BY <1>8, <1>11

(* A start that is accounted for stays so.                                 *)
LEMMA StaysAccounted ==
  ASSUME TypeOK, NextMatch, NEW q, Accounted(q)
  PROVE  Accounted(q)'
<1>1. PICK p : YieldsAt(p)
  BY MatchYields
<1>2. /\ \A k \in DOMAIN yielded : k \in DOMAIN yielded' /\ yielded'[k] = yielded[k]
  BY <1>1, OneMore
<1>3. UNCHANGED <<len, match, newlineEnd, user>>
  BY DEF NextMatch, input
<1>4. IsSyntheticEof(q, match[q])' <=> IsSyntheticEof(q, match[q])
  BY <1>3 DEF IsSyntheticEof, NewlineOnlyEof
<1>5. CASE q = len /\ IsSyntheticEof(q, match[q])
  BY <1>3, <1>4, <1>5 DEF Accounted
<1>6. CASE \E k \in DOMAIN yielded :
             \/ yielded[k].start = q
             \/ yielded[k].start < q /\ q < yielded[k].end
  BY <1>2, <1>6 DEF Accounted
<1> QED
  BY <1>5, <1>6 DEF Accounted

LEMMA KeepsComplete ==
  ASSUME TypeOK, CompleteScan, NextMatch
  PROVE  CompleteScan'
<1>1. PICK p : YieldsAt(p) /\ Yield(p)
  BY MatchYields
<1>2. UNCHANGED <<len, match, user, global>> /\ pc = "next"
  BY DEF NextMatch, input
<1>3. pc' = "ended" => user = "s" /\ ~ global
  BY <1>1, <1>2 DEF Yield
<1>4. SUFFICES ASSUME NEW q \in 0..len, match[q] # None, q < offset'
               PROVE  Accounted(q)'
  BY <1>2, <1>3 DEF CompleteScan
<1>5. /\ offset \in Nat /\ offset' \in Nat /\ p \in Nat /\ match[p] \in Nat
      /\ offset <= p /\ \A r \in Nat : p < r /\ r < offset' => r < match[p]
      /\ len \in Nat
  BY <1>1, CursorMoves
<1>6. CASE q < offset
  BY <1>4, <1>6, StaysAccounted DEF CompleteScan
<1>7. CASE q \in offset..(p - 1)
  BY <1>1, <1>4, <1>7 DEF YieldsAt
<1>8. CASE q >= p
  <2> DEFINE n == Len(yielded) + 1
  <2>1. n \in DOMAIN yielded' /\ yielded'[n].start = p /\ yielded'[n].end = match[p]
    BY <1>1, OneMore
  <2> HIDE DEF n
  <2>2. q = p \/ (p < q /\ q < match[p])
    BY <1>4, <1>5, <1>8
  <2> QED
    BY <2>1, <2>2 DEF Accounted
<1> QED
  BY <1>4, <1>5, <1>6, <1>7, <1>8

(* When nothing is left but the synthetic record, no start lies before it: *)
(* the least one would be the leftmost match.                              *)
LEMMA OnlySyntheticLeft ==
  ASSUME TypeOK,
         \A p \in offset..len : IsLeftmost(p) => IsSyntheticEof(p, match[p]),
         NEW q \in offset..len, match[q] # None
  PROVE  q = len /\ IsSyntheticEof(q, match[q])
<1> DEFINE Starts == {r \in offset..len : match[r] # None}
<1>1. len \in Nat /\ offset \in Nat
  BY MatchIterAssumption DEF TypeOK
<1>2. Starts \subseteq Nat /\ q \in Starts
  BY <1>1
<1> HIDE DEF Starts
<1>3. PICK r \in Starts : \A t \in Starts : t >= r
  BY <1>2, Least
<1>4. r \in Nat
  BY <1>2
<1>5. r \in offset..len /\ match[r] # None
  BY <1>3 DEF Starts
<1>6. \A t \in offset..(r - 1) : match[t] = None
  <2> SUFFICES ASSUME NEW t \in offset..(r - 1), match[t] # None PROVE FALSE
    OBVIOUS
  <2>1. t \in Starts
    BY <1>1, <1>5 DEF Starts
  <2> QED
    BY <1>1, <1>3, <1>4, <2>1
<1>7. IsSyntheticEof(r, match[r])
  BY <1>5, <1>6 DEF IsLeftmost
<1>8. r = len
  BY <1>7 DEF IsSyntheticEof
<1>9. q = r
  BY <1>1, <1>2, <1>3, <1>8
<1> QED
  BY <1>7, <1>8, <1>9

LEMMA EndsComplete ==
  ASSUME TypeOK, Behind, CompleteScan, NextNone
  PROVE  CompleteScan'
<1>1. UNCHANGED <<len, match, newlineEnd, user, yielded, offset>> /\ pc = "next"
  BY DEF NextNone, input
<1>2. \A q : Accounted(q)' <=> Accounted(q)
  BY <1>1 DEF Accounted, IsSyntheticEof, NewlineOnlyEof
<1>3. SUFFICES ASSUME NEW q \in 0..len, match[q] # None
               PROVE  Accounted(q)
  BY <1>1, <1>2 DEF CompleteScan
<1>4. len \in Nat /\ offset \in Nat
  BY MatchIterAssumption DEF TypeOK
<1>5. CASE q < offset
  BY <1>3, <1>5 DEF CompleteScan
<1>6. CASE ~ q < offset
  <2>1. q \in offset..len /\ ~ done
    BY <1>1, <1>4, <1>6 DEF Behind
  <2>2. q = len /\ IsSyntheticEof(q, match[q])
    BY <1>3, <2>1, OnlySyntheticLeft DEF NextNone
  <2> QED
    BY <2>2 DEF Accounted
<1> QED
  BY <1>5, <1>6

LEMMA NextInvariant ==
  ASSUME IInv, [Next]_vars
  PROVE  IInv'
<1>1. TypeOK /\ Behind /\ OrderedDisjoint /\ CompleteScan
  BY DEF IInv
<1>2. TypeOK'
  BY <1>1, NextType
<1>3. CASE NextMatch
  BY <1>1, <1>2, <1>3, KeepsOrder, KeepsComplete DEF IInv
<1>4. CASE NextNone
  <2>1. Behind' /\ OrderedDisjoint'
    BY <1>1, <1>4 DEF NextNone, Behind, OrderedDisjoint
  <2> QED
    BY <1>1, <1>2, <1>4, <2>1, EndsComplete DEF IInv
<1>5. CASE UNCHANGED vars
  <2>1. Behind' /\ OrderedDisjoint'
    BY <1>1, <1>5 DEF vars, input, Behind, OrderedDisjoint
  <2>2. CompleteScan'
    BY <1>1, <1>5 DEF vars, input, CompleteScan, Accounted, IsSyntheticEof, NewlineOnlyEof
  <2> QED
    BY <1>2, <2>1, <2>2 DEF IInv
<1> QED
  BY <1>3, <1>4, <1>5 DEF Next

LEMMA Invariance == Spec => []IInv
  BY InitInvariant, NextInvariant, PTL DEF Spec

(* OrderedDisjoint: the matches of x, y and s come in order, each at a     *)
(* later start, and none overlaps another.                                 *)
THEOREM OrderedDisjointHolds == Spec => []OrderedDisjoint
<1>1. IInv => OrderedDisjoint
  BY DEF IInv
<1> QED
  BY <1>1, Invariance, PTL

(* CompleteScan: no match start is skipped, in a view of any length and    *)
(* for any pattern.                                                        *)
THEOREM CompleteScanHolds == Spec => []CompleteScan
<1>1. IInv => CompleteScan
  BY DEF IInv
<1> QED
  BY <1>1, Invariance, PTL
-----------------------------------------------------------------------------
(* What the users of the iterator keep of the matches.                     *)

(* s: the edits are the matches from the occurrence on; without g it stops *)
(* at that one.                                                            *)
EditsKept ==
  user = "s" =>
    /\ edits = SubSeq(yielded, occurrence, Len(yielded))
    /\ ~ global => Len(yielded) <= occurrence
    /\ ~ global /\ pc = "next" => Len(yielded) < occurrence

(* The empty match at the end of the view is yielded to s only, and not    *)
(* after a newline.                                                        *)
EofKept ==
  (\E k \in DOMAIN yielded : yielded[k] = Span(len, len)) => user = "s" /\ ~ newlineEnd

(* y: up to the end of the last match each byte is in a gap or in a match, *)
(* and at the end of the scan up to the end of the view.                   *)
InGap(b)   == \E k \in DOMAIN gaps : gaps[k].start <= b /\ b < gaps[k].end
InMatch(b) == \E k \in DOMAIN yielded : yielded[k].start <= b /\ b < yielded[k].end

GapsOrdered ==
  /\ \A k, l \in DOMAIN gaps : k < l => gaps[k].end <= gaps[l].start
  /\ \A k \in DOMAIN gaps : gaps[k].start < gaps[k].end

GapsKept ==
  user = "y" =>
    /\ GapsOrdered
    /\ pc = "next" =>
         /\ \A k \in DOMAIN gaps : gaps[k].end <= lastEnd
         /\ \A k \in DOMAIN yielded : yielded[k].end <= lastEnd
         /\ lastEnd <= offset
         /\ \A b \in 0..(lastEnd - 1) : InGap(b) <=> ~ InMatch(b)
    /\ pc = "ended" => \A b \in 0..(len - 1) : InGap(b) <=> ~ InMatch(b)

UserInv == EditsKept /\ EofKept /\ GapsKept

LEMMA InitUser == Init => UserInv
<1> SUFFICES ASSUME Init PROVE UserInv
  OBVIOUS
<1>1. yielded = <<>> /\ edits = <<>> /\ gaps = <<>> /\ occurrence \in Nat \ {0}
  BY MatchIterAssumption DEF Init
<1>2. EditsKept
  BY <1>1 DEF EditsKept
<1>3. EofKept
  BY <1>1 DEF EofKept
<1>4. GapsKept
  BY <1>1 DEF Init, GapsKept, GapsOrdered
<1> QED
  BY <1>2, <1>3, <1>4 DEF UserInv

(* One more match makes the part from n on longer by that match, and no     *)
(* longer when it comes before n.                                           *)
LEMMA SubSeqGrows ==
  ASSUME NEW S, NEW s \in Seq(S), NEW x \in S, NEW n \in Nat \ {0}
  PROVE  /\ n <= Len(s) + 1 =>
              SubSeq(Append(s, x), n, Len(Append(s, x))) = Append(SubSeq(s, n, Len(s)), x)
         /\ n > Len(s) + 1 =>
              SubSeq(Append(s, x), n, Len(Append(s, x))) = SubSeq(s, n, Len(s))
<1> DEFINE t == Append(s, x)
<1>1. /\ t \in Seq(S) /\ Len(t) = Len(s) + 1 /\ Len(s) \in Nat
      /\ \A i \in 1..Len(s) : t[i] = s[i]
      /\ t[Len(s) + 1] = x
  BY AppendProperties, LenProperties
<1> HIDE DEF t
<1>2. CASE n > Len(s) + 1
  <2>1. SubSeq(t, n, Len(t)) = <<>> /\ SubSeq(s, n, Len(s)) = <<>>
    BY <1>1, <1>2, SubSeqEmpty
  <2> QED
    BY <1>1, <1>2, <2>1 DEF t
<1>3. CASE n <= Len(s) + 1
  <2> DEFINE a == SubSeq(t, n, Len(t))
             b == SubSeq(s, n, Len(s))
  <2>1. \A i \in n..Len(t) : t[i] \in S
    BY <1>1, ElementOfSeq
  <2>2. \A i \in n..Len(s) : s[i] \in S
    BY <1>1, ElementOfSeq
  <2>3. /\ a \in Seq(S) /\ Len(a) = Len(s) + 2 - n
        /\ \A i \in 1..(Len(s) + 2 - n) : a[i] = t[n + i - 1]
    <3>1. /\ a \in Seq(S) /\ Len(a) = IF n <= Len(t) THEN Len(t) - n + 1 ELSE 0
          /\ \A i \in 1..(Len(t) - n + 1) : a[i] = t[n + i - 1]
      BY <1>1, <2>1, SubSeqProperties
    <3> HIDE DEF a
    <3> QED
      BY <1>1, <1>3, <3>1
  <2>4. /\ b \in Seq(S) /\ Len(b) = Len(s) + 1 - n
        /\ \A i \in 1..(Len(s) + 1 - n) : b[i] = s[n + i - 1]
    <3>1. /\ b \in Seq(S) /\ Len(b) = IF n <= Len(s) THEN Len(s) - n + 1 ELSE 0
          /\ \A i \in 1..(Len(s) - n + 1) : b[i] = s[n + i - 1]
      BY <1>1, <2>2, SubSeqProperties
    <3> HIDE DEF b
    <3> QED
      BY <1>1, <1>3, <3>1
  <2> HIDE DEF a, b
  <2>5. /\ Append(b, x) \in Seq(S) /\ Len(Append(b, x)) = Len(s) + 2 - n
        /\ \A i \in 1..(Len(s) + 1 - n) : Append(b, x)[i] = b[i]
        /\ Append(b, x)[Len(s) + 2 - n] = x
    <3>1. Len(b) + 1 = Len(s) + 2 - n
      BY <1>1, <2>4
    <3>2. b \in Seq(S) /\ x \in S
      BY <2>4
    <3>3. /\ Append(b, x) \in Seq(S) /\ Len(Append(b, x)) = Len(b) + 1
          /\ \A i \in 1..Len(b) : Append(b, x)[i] = b[i]
          /\ Append(b, x)[Len(b) + 1] = x
      BY <3>2, AppendProperties
    <3> QED
      BY <2>4, <3>1, <3>3
  <2>6. ASSUME NEW i \in 1..Len(a) PROVE a[i] = Append(b, x)[i]
    <3>1. CASE i <= Len(s) + 1 - n
      <4>1. i \in 1..(Len(s) + 1 - n) /\ i \in 1..(Len(s) + 2 - n) /\ n + i - 1 \in 1..Len(s)
        BY <1>1, <1>3, <2>3, <3>1
      <4> QED
        BY <1>1, <2>3, <2>4, <2>5, <4>1
    <3>2. CASE ~ i <= Len(s) + 1 - n
      <4> DEFINE m == Len(s)
      <4>1. m \in Nat /\ n \in Nat /\ i \in 1..(m + 2 - n) /\ ~ i <= m + 1 - n
        BY <1>1, <1>3, <2>3, <3>2
      <4> HIDE DEF m
      <4>2. i = m + 2 - n /\ n + i - 1 = m + 1
        BY <4>1
      <4>3. i = Len(s) + 2 - n /\ n + i - 1 = Len(s) + 1 /\ i \in 1..(Len(s) + 2 - n)
        BY <4>1, <4>2 DEF m
      <4> QED
        BY <1>1, <2>3, <2>5, <4>3
    <3> QED
      BY <3>1, <3>2
  <2>7. a = Append(b, x)
    BY <2>3, <2>5, <2>6, SeqEqual
  <2> QED
    BY <1>1, <1>3, <2>7 DEF a, b, t
<1> QED
  BY <1>1, <1>2, <1>3

LEMMA MatchKeepsEdits ==
  ASSUME TypeOK, EditsKept, NextMatch
  PROVE  EditsKept'
<1>1. PICK p : YieldsAt(p) /\ Yield(p)
  BY MatchYields
<1> DEFINE m == Span(p, match[p])
<1>2. UNCHANGED <<user, global, occurrence>> /\ pc = "next" /\ occurrence \in Nat \ {0}
  BY MatchIterAssumption DEF NextMatch, input, TypeOK
<1>3. yielded' = Append(yielded, m) /\ yielded \in Seq(Spans) /\ m \in Spans
  <2>1. p \in 0..len /\ match[p] \in 0..len
    BY <1>1 DEF YieldsAt, TypeOK
  <2> QED
    BY <1>1, <2>1 DEF YieldsAt, TypeOK, Span, Spans
<1> HIDE DEF m
<1>4. Len(yielded) \in Nat /\ Len(yielded') = Len(yielded) + 1
  BY <1>3
<1>5. SUFFICES ASSUME user = "s" PROVE EditsKept'
  BY <1>2 DEF EditsKept
<1>6. CASE Len(yielded) + 1 >= occurrence
  <2>1. edits' = Append(edits, m) /\ pc' = IF global THEN "next" ELSE "ended"
    BY <1>1, <1>5, <1>6 DEF Yield, m
  <2>2. edits' = SubSeq(yielded', occurrence, Len(yielded'))
    <3>1. edits = SubSeq(yielded, occurrence, Len(yielded))
      BY <1>5 DEF EditsKept
    <3>2. SubSeq(yielded', occurrence, Len(yielded')) = Append(edits, m)
      BY <1>2, <1>3, <1>4, <1>6, <3>1, SubSeqGrows
    <3> QED
      BY <2>1, <3>2
  <2> QED
    BY <1>2, <1>4, <1>5, <1>6, <2>1, <2>2 DEF EditsKept
<1>7. CASE ~ Len(yielded) + 1 >= occurrence
  <2>1. edits' = edits /\ pc' = pc
    BY <1>1, <1>5, <1>7 DEF Yield
  <2>2. edits' = SubSeq(yielded', occurrence, Len(yielded'))
    <3>1. edits = SubSeq(yielded, occurrence, Len(yielded))
      BY <1>5 DEF EditsKept
    <3>2. SubSeq(yielded', occurrence, Len(yielded')) = edits
      BY <1>2, <1>3, <1>4, <1>7, <3>1, SubSeqGrows
    <3> QED
      BY <2>1, <3>2
  <2> QED
    BY <1>2, <1>4, <1>5, <1>7, <2>1, <2>2 DEF EditsKept
<1> QED
  BY <1>6, <1>7

LEMMA MatchKeepsEof ==
  ASSUME TypeOK, EofKept, NextMatch
  PROVE  EofKept'
<1>1. PICK p \in offset..len : IsLeftmost(p) /\ ~ IsSyntheticEof(p, match[p]) /\ Yield(p)
  BY DEF NextMatch
<1>2. UNCHANGED <<len, user, newlineEnd>>
  BY DEF NextMatch, input
<1>3. yielded \in Seq(Spans) /\ yielded' = Append(yielded, Span(p, match[p]))
  BY <1>1 DEF Yield, TypeOK
<1>4. ASSUME NEW k \in DOMAIN yielded', yielded'[k] = Span(len, len)
      PROVE  user = "s" /\ ~ newlineEnd
  <2>1. CASE k \in DOMAIN yielded
    BY <1>3, <1>4, <2>1 DEF EofKept
  <2>2. CASE k \notin DOMAIN yielded
    <3>1. yielded'[k] = Span(p, match[p])
      BY <1>3, <1>4, <2>2
    <3>2. p = len /\ match[p] = len
      BY <1>4, <3>1 DEF Span
    <3> QED
      BY <1>1, <3>2 DEF IsSyntheticEof, NewlineOnlyEof
  <2> QED
    BY <2>1, <2>2
<1> QED
  BY <1>2, <1>4 DEF EofKept

(* KeepGapUpTo adds the span from the last match to the given place, when  *)
(* that is not empty; the bytes of it are then in a gap.                   *)
LEMMA GapAdded ==
  ASSUME TypeOK, user = "y", GapsOrdered, NEW to \in Nat, lastEnd <= to, to <= len,
         \A k \in DOMAIN gaps : gaps[k].end <= lastEnd,
         KeepGapUpTo(to)
  PROVE  /\ GapsOrdered'
         /\ \A k \in DOMAIN gaps' : gaps'[k].end <= to
         /\ \A b \in Nat : InGap(b)' <=> InGap(b) \/ (lastEnd <= b /\ b < to)
<1>1. /\ gaps \in Seq(Spans) /\ len \in Nat /\ lastEnd \in Nat
      /\ \A k \in DOMAIN gaps : gaps[k].start \in Nat /\ gaps[k].end \in Nat
  <2>1. gaps \in Seq(Spans) /\ len \in Nat
    BY MatchIterAssumption DEF TypeOK
  <2>2. \A k \in DOMAIN gaps : gaps[k] \in Spans
    BY <2>1
  <2> QED
    BY <2>1, <2>2 DEF Spans, TypeOK
<1>2. CASE lastEnd < to
  <2> DEFINE n == Len(gaps) + 1
  <2>1. gaps' = Append(gaps, Span(lastEnd, to))
    BY <1>2 DEF KeepGapUpTo
  <2>2. /\ DOMAIN gaps' = 1..n /\ DOMAIN gaps = 1..(n - 1) /\ n \in Nat \ {0}
        /\ \A k \in 1..(n - 1) : gaps'[k] = gaps[k]
        /\ gaps'[n] = Span(lastEnd, to)
    BY <1>1, <2>1
  <2> HIDE DEF n
  <2>3. gaps'[n].start = lastEnd /\ gaps'[n].end = to
    BY <2>2 DEF Span
  <2>4. \A k \in 1..n : k \in 1..(n - 1) \/ k = n
    BY <2>2
  <2>5. GapsOrdered'
    <3>1. ASSUME NEW k \in 1..n, NEW l \in 1..n, k < l
          PROVE  gaps'[k].end <= gaps'[l].start
      <4>1. k \in 1..(n - 1)
        BY <2>2, <3>1
      <4>2. CASE l \in 1..(n - 1)
        BY <2>2, <3>1, <4>1, <4>2 DEF GapsOrdered
      <4>3. CASE l = n
        BY <2>2, <2>3, <4>1, <4>3
      <4> QED
        BY <2>4, <4>2, <4>3
    <3>2. ASSUME NEW k \in 1..n PROVE gaps'[k].start < gaps'[k].end
      BY <1>2, <2>2, <2>3, <2>4 DEF GapsOrdered
    <3> QED
      BY <2>2, <3>1, <3>2 DEF GapsOrdered
  <2>6. ASSUME NEW k \in 1..n PROVE gaps'[k].end <= to
    <3>1. CASE k \in 1..(n - 1)
      <4>1. gaps'[k] = gaps[k] /\ gaps[k].end \in Nat /\ gaps[k].end <= lastEnd
        BY <1>1, <2>2, <3>1
      <4> QED
        BY <1>1, <1>2, <4>1
    <3>2. CASE k = n
      BY <2>3, <3>2
    <3> QED
      BY <2>4, <3>1, <3>2
  <2>7. ASSUME NEW b \in Nat PROVE InGap(b)' <=> InGap(b) \/ (lastEnd <= b /\ b < to)
    <3>1. ASSUME NEW k \in 1..n, gaps'[k].start <= b, b < gaps'[k].end
          PROVE  InGap(b) \/ (lastEnd <= b /\ b < to)
      <4>1. CASE k \in 1..(n - 1)
        BY <2>2, <3>1, <4>1 DEF InGap
      <4>2. CASE k = n
        BY <2>3, <3>1, <4>2
      <4> QED
        BY <2>4, <4>1, <4>2
    <3>2. ASSUME NEW k \in 1..(n - 1), gaps[k].start <= b, b < gaps[k].end
          PROVE  InGap(b)'
      <4>1. k \in DOMAIN gaps' /\ gaps'[k] = gaps[k]
        BY <2>2
      <4> QED
        BY <3>2, <4>1 DEF InGap
    <3>3. ASSUME lastEnd <= b, b < to PROVE InGap(b)'
      <4>1. n \in DOMAIN gaps'
        BY <2>2
      <4> QED
        BY <2>3, <3>3, <4>1 DEF InGap
    <3>4. InGap(b)' => InGap(b) \/ (lastEnd <= b /\ b < to)
      BY <2>2, <3>1 DEF InGap
    <3>5. InGap(b) => InGap(b)'
      BY <2>2, <3>2 DEF InGap
    <3> QED
      BY <3>3, <3>4, <3>5
  <2> QED
    BY <2>2, <2>5, <2>6, <2>7
<1>3. CASE ~ lastEnd < to
  <2>1. gaps' = gaps
    BY <1>3 DEF KeepGapUpTo
  <2>2. GapsOrdered' /\ \A k \in DOMAIN gaps' : gaps'[k].end <= to
    BY <1>1, <2>1 DEF GapsOrdered
  <2>3. \A b \in Nat : ~ (lastEnd <= b /\ b < to)
    BY <1>1, <1>3
  <2> QED
    BY <2>1, <2>2, <2>3 DEF InGap
<1> QED
  BY <1>2, <1>3

LEMMA MatchKeepsGaps ==
  ASSUME TypeOK, GapsKept, NextMatch
  PROVE  GapsKept'
<1>1. PICK p : YieldsAt(p) /\ Yield(p)
  BY MatchYields
<1>2. UNCHANGED <<len, user>> /\ pc = "next"
  BY DEF NextMatch, input
<1>3. SUFFICES ASSUME user = "y" PROVE GapsKept'
  BY <1>2 DEF GapsKept
<1>4. pc' = "next" /\ lastEnd' = match[p] /\ KeepGapUpTo(p)
  BY <1>1, <1>2, <1>3 DEF Yield
<1>5. /\ offset \in Nat /\ offset' \in Nat /\ p \in Nat /\ match[p] \in Nat /\ lastEnd \in Nat
      /\ offset <= p /\ p <= match[p] /\ match[p] <= offset' /\ p <= len
  BY <1>1, CursorMoves, MatchIterAssumption DEF TypeOK
<1>6. /\ lastEnd <= offset /\ GapsOrdered
      /\ \A k \in DOMAIN gaps : gaps[k].end <= lastEnd
      /\ \A k \in DOMAIN yielded : yielded[k].end <= lastEnd
      /\ \A b \in 0..(lastEnd - 1) : InGap(b) <=> ~ InMatch(b)
  BY <1>2, <1>3 DEF GapsKept
<1>7. /\ GapsOrdered' /\ \A k \in DOMAIN gaps' : gaps'[k].end <= p
      /\ \A b \in Nat : InGap(b)' <=> InGap(b) \/ (lastEnd <= b /\ b < p)
  BY <1>3, <1>5, <1>6, <1>4, GapAdded
<1> DEFINE n == Len(yielded) + 1
<1>8. /\ DOMAIN yielded' = 1..n /\ DOMAIN yielded = 1..(n - 1) /\ n \in Nat \ {0}
      /\ \A k \in 1..(n - 1) : yielded'[k] = yielded[k]
      /\ yielded'[n].start = p /\ yielded'[n].end = match[p]
      /\ \A k \in 1..(n - 1) : yielded[k].start \in Int /\ yielded[k].end \in Int
  BY <1>1, OneMore
<1> HIDE DEF n
<1>9. \A k \in 1..n : k \in 1..(n - 1) \/ k = n
  BY <1>8
<1>10. ASSUME NEW b \in Nat PROVE InMatch(b)' <=> InMatch(b) \/ (p <= b /\ b < match[p])
  <2>1. ASSUME NEW k \in 1..n, yielded'[k].start <= b, b < yielded'[k].end
        PROVE  InMatch(b) \/ (p <= b /\ b < match[p])
    <3>1. CASE k \in 1..(n - 1)
      BY <1>8, <2>1, <3>1 DEF InMatch
    <3>2. CASE k = n
      BY <1>8, <2>1, <3>2
    <3> QED
      BY <1>9, <3>1, <3>2
  <2>2. ASSUME NEW k \in 1..(n - 1), yielded[k].start <= b, b < yielded[k].end
        PROVE  InMatch(b)'
    <3>1. k \in DOMAIN yielded' /\ yielded'[k] = yielded[k]
      BY <1>8
    <3> QED
      BY <2>2, <3>1 DEF InMatch
  <2>3. ASSUME p <= b, b < match[p] PROVE InMatch(b)'
    <3>1. n \in DOMAIN yielded'
      BY <1>8
    <3> QED
      BY <1>8, <2>3, <3>1 DEF InMatch
  <2>4. InMatch(b)' => InMatch(b) \/ (p <= b /\ b < match[p])
    BY <1>8, <2>1 DEF InMatch
  <2>5. InMatch(b) => InMatch(b)'
    BY <1>8, <2>2 DEF InMatch
  <2> QED
    BY <2>3, <2>4, <2>5
<1>11. \A k \in 1..n : yielded'[k].end <= match[p]
  BY <1>5, <1>6, <1>8, <1>9
<1>12. \A k \in DOMAIN gaps' : gaps'[k].end <= match[p]
  <2>1. ASSUME NEW k \in DOMAIN gaps' PROVE gaps'[k].end \in Int
    <3>1. gaps' \in Seq(Spans)
      BY <1>4, <1>5, GapKept
    <3>2. gaps'[k] \in Spans
      BY <3>1
    <3> QED
      BY <3>2 DEF Spans
  <2> QED
    BY <1>5, <1>7, <2>1
<1>13. ASSUME NEW b \in 0..(match[p] - 1) PROVE InGap(b)' <=> ~ InMatch(b)'
  <2>1. b \in Nat /\ b < match[p]
    BY <1>5
  <2>2. CASE b < lastEnd
    <3>1. InGap(b) <=> ~ InMatch(b)
      BY <1>5, <1>6, <2>1, <2>2
    <3>2. ~ (lastEnd <= b) /\ ~ (p <= b)
      BY <1>5, <1>6, <2>1, <2>2
    <3> QED
      BY <1>7, <1>10, <2>1, <3>1, <3>2
  <2>3. CASE ~ b < lastEnd
    <3>1. ~ InGap(b)
      <4> SUFFICES ASSUME NEW k \in DOMAIN gaps, b < gaps[k].end PROVE FALSE
        BY DEF InGap
      <4>1. gaps[k] \in Spans
        BY DEF TypeOK
      <4>2. gaps[k].end \in Int
        BY <4>1 DEF Spans
      <4> QED
        BY <1>5, <1>6, <2>1, <2>3, <4>2
    <3>2. ~ InMatch(b)
      BY <1>5, <1>6, <1>8, <2>1, <2>3 DEF InMatch
    <3> QED
      BY <1>5, <1>7, <1>10, <2>1, <2>3, <3>1, <3>2
  <2> QED
    BY <2>2, <2>3
<1> QED
  BY <1>2, <1>4, <1>5, <1>7, <1>8, <1>11, <1>12, <1>13 DEF GapsKept

(* The end of the scan: y keeps what follows the last match.               *)
LEMMA EndKeepsGaps ==
  ASSUME TypeOK, GapsKept, NextNone
  PROVE  GapsKept'
<1>1. UNCHANGED <<len, user, yielded, lastEnd>> /\ pc = "next" /\ pc' = "ended"
  BY DEF NextNone, input
<1>2. SUFFICES ASSUME user = "y" PROVE GapsKept'
  BY <1>1 DEF GapsKept
<1>3. len \in Nat /\ lastEnd \in Nat /\ lastEnd <= len
  BY MatchIterAssumption DEF TypeOK
<1>4. /\ GapsOrdered
      /\ \A k \in DOMAIN gaps : gaps[k].end <= lastEnd
      /\ \A k \in DOMAIN yielded : yielded[k].end <= lastEnd
      /\ \A b \in 0..(lastEnd - 1) : InGap(b) <=> ~ InMatch(b)
  BY <1>1, <1>2 DEF GapsKept
<1>5. /\ GapsOrdered'
      /\ \A b \in Nat : InGap(b)' <=> InGap(b) \/ (lastEnd <= b /\ b < len)
  BY <1>2, <1>3, <1>4, GapAdded DEF NextNone
<1>6. ASSUME NEW b \in 0..(len - 1) PROVE InGap(b)' <=> ~ InMatch(b)
  <2>1. b \in Nat /\ b < len
    BY <1>3
  <2>2. CASE b < lastEnd
    BY <1>3, <1>4, <1>5, <2>1, <2>2
  <2>3. CASE ~ b < lastEnd
    <3>1. ~ InMatch(b)
      <4> SUFFICES ASSUME NEW k \in DOMAIN yielded, b < yielded[k].end PROVE FALSE
        BY DEF InMatch
      <4>1. yielded[k] \in Spans
        BY DEF TypeOK
      <4>2. yielded[k].end \in Int
        BY <4>1 DEF Spans
      <4> QED
        BY <1>3, <1>4, <2>1, <2>3, <4>2
    <3> QED
      BY <1>3, <1>5, <2>1, <2>3, <3>1
  <2> QED
    BY <2>2, <2>3
<1>7. \A b : InMatch(b)' <=> InMatch(b)
  BY <1>1 DEF InMatch
<1> QED
  BY <1>1, <1>5, <1>6, <1>7 DEF GapsKept

LEMMA NextUser ==
  ASSUME IInv, UserInv, [Next]_vars
  PROVE  UserInv'
<1>1. TypeOK /\ EditsKept /\ EofKept /\ GapsKept
  BY DEF IInv, UserInv
<1>2. CASE NextMatch
  BY <1>1, <1>2, MatchKeepsEdits, MatchKeepsEof, MatchKeepsGaps DEF UserInv
<1>3. CASE NextNone
  <2>1. EditsKept' /\ EofKept'
    BY <1>1, <1>3 DEF NextNone, input, EditsKept, EofKept
  <2> QED
    BY <1>1, <1>3, <2>1, EndKeepsGaps DEF UserInv
<1>4. CASE UNCHANGED vars
  BY <1>1, <1>4 DEF vars, input, UserInv, EditsKept, EofKept, GapsKept, GapsOrdered, InGap, InMatch
<1> QED
  BY <1>2, <1>3, <1>4 DEF Next

LEMMA UserInvariance == Spec => []UserInv
  BY InitUser, NextUser, Invariance, PTL DEF Spec

(* EditsFromOccurrence: s///N edits the N-th match only, s///Ng that one   *)
(* and all later ones, in any view and for any N.                          *)
THEOREM EditsFromOccurrenceHolds == Spec => []EditsFromOccurrence
<1>1. UserInv => EditsFromOccurrence
  BY DEF UserInv, EditsKept, EditsFromOccurrence
<1> QED
  BY <1>1, UserInvariance, PTL

(* GapsComplementMatches: the views y hands on and the matches x would     *)
(* hand on share no byte and leave none out.                               *)
THEOREM GapsComplementMatchesHolds == Spec => []GapsComplementMatches
<1>1. UserInv => GapsComplementMatches
  BY DEF UserInv, GapsKept, GapsOrdered, InGap, InMatch, GapsComplementMatches
<1> QED
  BY <1>1, UserInvariance, PTL

(* EofRule (regex.rs:254-258): x and y never see an empty record at the    *)
(* end of the view; s edits there unless a newline precedes.               *)
THEOREM EofRuleHolds == Spec => []EofRule
<1>1. IInv /\ UserInv => EofRule
  <2> SUFFICES ASSUME IInv, UserInv, pc = "ended", user = "s", global, occurrence = 1,
                      match[len] = len, ~ newlineEnd
               PROVE  \E k \in DOMAIN edits : edits[k] = Span(len, len)
    BY DEF UserInv, EofKept, EofRule
  <2>1. len \in Nat /\ yielded \in Seq(Spans)
    BY MatchIterAssumption DEF IInv, TypeOK
  <2>2. Accounted(len)
    BY <2>1 DEF IInv, CompleteScan, None
  <2>3. ~ IsSyntheticEof(len, match[len])
    BY DEF IsSyntheticEof, NewlineOnlyEof
  <2>4. PICK k \in DOMAIN yielded : \/ yielded[k].start = len
                                    \/ yielded[k].start < len /\ len < yielded[k].end
    BY <2>2, <2>3 DEF Accounted
  <2>5. yielded[k] \in Spans
    BY <2>1
  <2>6. yielded[k].end \in Nat /\ yielded[k].end <= len /\ yielded[k].start <= yielded[k].end
    BY <2>1, <2>5 DEF Spans, IInv, OrderedDisjoint
  <2>7. yielded[k].start = len /\ yielded[k].end = len
    BY <2>1, <2>4, <2>6
  <2>8. yielded[k] = Span(len, len)
    BY <2>5, <2>7 DEF Spans, Span
  <2>9. edits = yielded
    <3>1. edits = SubSeq(yielded, 1, Len(yielded))
      BY DEF UserInv, EditsKept
    <3> QED
      BY <2>1, <3>1, SubSeqFull
  <2> QED
    BY <2>8, <2>9
<1> QED
  BY <1>1, Invariance, UserInvariance, PTL
=============================================================================
