--------------------------- MODULE PipelineProofs ---------------------------
(***************************************************************************)
(* Proofs about Pipeline, for every program and every input.               *)
(*                                                                         *)
(* The inductive invariant IInv has three parts.  TypeInv says what the    *)
(* iterators and the register hold; most of it is that the views are good, *)
(* slices of the input at their address or foreign.  MachineInv says what  *)
(* the stack is and how it goes with the flags of the iterators: which     *)
(* blocks are polled, which flat_maps have seen the end, which reducers    *)
(* are draining.  BlocksFlushed is what the order of the output rests on.  *)
(* It needs MachineInv: a writer of a block must not be written to while   *)
(* the block is not polled, so no stage may run in a block that its        *)
(* command is not polling, and a chain that ends must leave nothing inside *)
(* it polled.                                                              *)
(*                                                                         *)
(* EditsHitTheirMatch needs to know where views of foreign memory may be.  *)
(* PlacedInv says that such a view is passed or kept only behind a c or an *)
(* r, in the order of the places in the program; EditInv, which rests on   *)
(* it, is what the property says of every edit and every logged record.    *)
(*                                                                         *)
(* TreeMoves is about the brackets of a text; of the machine it needs only *)
(* that a view with an address in the input is a slice of it.              *)
(*                                                                         *)
(* The module has the facts about the data first (matches, gaps, regions,  *)
(* joined bytes), then those about stacks and flags, whatever state they   *)
(* come from, then one lemma per action and the theorems; then the places, *)
(* again with one lemma per action, and at the end the brackets.           *)
(***************************************************************************)
EXTENDS Pipeline, Recursion, SequenceTheorems, FiniteSetTheorems

-----------------------------------------------------------------------------
(* What the commands take from a view.                                     *)

Texts == Seq(Symbols)
Views == [at : Nat, text : Texts]

(* A span of n bytes.                                                      *)
SpansIn(n) == {s \in [start : 0..n, end : 0..n] : s.start <= s.end}
Hits(re, text) == {s \in SpansIn(Len(text)) : MatchEnd(re, text, s.start) = s.end}

(* A set of numbers up to n that is not empty has a greatest element.      *)
LEMMA Greatest ==
  ASSUME NEW n \in Nat, NEW S, S \subseteq 0..n, S # {}
  PROVE  \E r \in S : \A t \in S : t <= r
<1> DEFINE T == {n - t : t \in S}
<1>1. T \subseteq Nat /\ T # {}
  <2>1. \A t \in S : t \in 0..n
    OBVIOUS
  <2>2. \A t \in S : n - t \in Nat
    BY <2>1
  <2>3. PICK t \in S : TRUE
    OBVIOUS
  <2> QED
    BY <2>2, <2>3
<1>2. PICK m \in T : \A t \in T : t >= m
  BY <1>1, Least
<1>3. PICK r \in S : m = n - r
  BY <1>2
<1>4. ASSUME NEW t \in S PROVE t <= r
  <2>1. n - t >= n - r /\ t \in Int /\ r \in Int
    BY <1>2, <1>3
  <2> QED
    BY <2>1
<1> QED
  BY <1>4

(* A match does not end before its start, nor after the end of the text.   *)
LEMMA MatchEndRange ==
  ASSUME NEW re, NEW text \in Texts, NEW p \in 0..Len(text)
  PROVE  MatchEnd(re, text, p) \in {None} \cup p..Len(text)
<1> DEFINE n == Len(text)
<1>1. n \in Nat /\ p \in Nat /\ p <= n
  BY DEF Texts
<1>2. CASE re = "line"
  <2> DEFINE nl == {q \in (p + 1)..n : text[q] = "n"}
  <2>1. MatchEnd(re, text, p) = IF nl = {} THEN n ELSE CHOOSE q \in nl : \A r \in nl : q <= r
    BY <1>2 DEF MatchEnd
  <2>2. CASE nl = {}
    BY <1>1, <2>1, <2>2
  <2>3. CASE nl # {}
    <3>1. nl \subseteq Nat
      BY <1>1
    <3>2. PICK q \in nl : \A r \in nl : r >= q
      BY <2>3, <3>1, Least
    <3>3. \E x \in nl : \A r \in nl : x <= r
      BY <3>1, <3>2
    <3>4. (CHOOSE x \in nl : \A r \in nl : x <= r) \in nl
      BY <3>3, Zenon
    <3> QED
      BY <1>1, <2>1, <2>3, <3>4
  <2> QED
    BY <2>2, <2>3
<1>3. CASE re = "eol"
  BY <1>1, <1>3 DEF MatchEnd
<1>4. CASE re # "line" /\ re # "eol"
  BY <1>1, <1>4 DEF MatchEnd
<1> QED
  BY <1>2, <1>3, <1>4

(* The scan of Matches, as a body to be solved for.                        *)
Phantom(text, sub, p, e) == p = e /\ e = Len(text) /\ (sub => Len(text) > 0 /\ text[Len(text)] = "n")
Starts(re, text, o) == {p \in o..Len(text) : MatchEnd(re, text, p) # None}
First(S) == CHOOSE q \in S : \A r \in S : q <= r
ScanAt(re, text, sub, f, o) ==
  IF Starts(re, text, o) = {} THEN <<>>
  ELSE LET p == First(Starts(re, text, o))
           e == MatchEnd(re, text, p)
       IN IF Phantom(text, sub, p, e) THEN <<>>
          ELSE <<[start |-> p, end |-> e]>> \o f[IF e > p THEN e ELSE e + 1]

LEMMA FirstIn ==
  ASSUME NEW S, S \subseteq Nat, S # {}
  PROVE  First(S) \in S
<1>1. PICK q \in S : \A r \in S : r >= q
  BY Least
<1>2. \E x \in S : \A r \in S : x <= r
  BY <1>1
<1> QED
  BY <1>2, Zenon DEF First

(* The scan at o ends, or adds the hit h to the scan at q.                 *)
ScanEnds(re, text, sub, o) == \A f : ScanAt(re, text, sub, f, o) = <<>>
ScanGoesOn(re, text, sub, o, q, h) ==
  q > o /\ \A f : ScanAt(re, text, sub, f, o) = <<h>> \o f[q]

LEMMA ScanReads ==
  ASSUME NEW re, NEW text \in Texts, NEW sub, NEW o \in 0..(Len(text) + 1)
  PROVE  \/ ScanEnds(re, text, sub, o)
         \/ \E q \in 0..(Len(text) + 1), h \in Hits(re, text) : ScanGoesOn(re, text, sub, o, q, h)
<1> DEFINE n == Len(text)
           p == First(Starts(re, text, o))
           e == MatchEnd(re, text, p)
           q == IF e > p THEN e ELSE e + 1
           h == [start |-> p, end |-> e]
<1>1. n \in Nat
  BY DEF Texts
<1>2. CASE Starts(re, text, o) = {}
  BY <1>2 DEF ScanAt, ScanEnds
<1>3. CASE Starts(re, text, o) # {} /\ Phantom(text, sub, p, e)
  BY <1>3 DEF ScanAt, ScanEnds
<1>4. CASE Starts(re, text, o) # {} /\ ~ Phantom(text, sub, p, e)
  <2>1. Starts(re, text, o) \subseteq Nat
    BY <1>1 DEF Starts
  <2>2. p \in Starts(re, text, o)
    BY <1>4, <2>1, FirstIn
  <2>3. p \in o..n /\ e # None
    BY <2>2 DEF Starts
  <2>4. p \in 0..n /\ o <= p
    BY <1>1, <2>3
  <2>5. e \in p..n
    BY <2>3, <2>4, MatchEndRange
  <2>6. h \in Hits(re, text)
    BY <1>1, <2>4, <2>5 DEF Hits, SpansIn
  <2>7. q \in 0..(n + 1) /\ q > o
    BY <1>1, <2>4, <2>5
  <2>8. \A f : ScanAt(re, text, sub, f, o) = <<h>> \o f[q]
    BY <1>4 DEF ScanAt
  <2>9. ScanGoesOn(re, text, sub, o, q, h)
    BY <2>7, <2>8 DEF ScanGoesOn
  <2> QED
    BY <2>6, <2>7, <2>9
<1> QED
  BY <1>2, <1>3, <1>4

(* Every match that is yielded is a hit in the text.                       *)
LEMMA MatchesAreHits ==
  ASSUME NEW re, NEW text \in Texts, NEW sub
  PROVE  Matches(re, text, sub) \in Seq(Hits(re, text))
<1> DEFINE n == Len(text)
           D == 0..(n + 1)
           S == Seq(Hits(re, text))
           Body(f) == [o \in D |-> ScanAt(re, text, sub, f, o)]
           scan == CHOOSE f : f = Body(f)
           rank == [o \in D |-> n + 1 - o]
           G == [o \in D |-> [f \in [D -> S] |-> ScanAt(re, text, sub, f, o)]]
<1>1. n \in Nat /\ n + 1 \in Nat /\ 0 \in D
  BY DEF Texts
<1>2. rank \in [D -> 0..(n + 1)] /\ \A o, q \in D : rank[q] < rank[o] <=> q > o
  BY <1>1
<1>3. ASSUME NEW o \in D
       PROVE  \/ ScanEnds(re, text, sub, o)
              \/ \E q \in D, h \in Hits(re, text) : ScanGoesOn(re, text, sub, o, q, h)
  BY ScanReads
<1>4. ASSUME NEW h \in Hits(re, text), NEW s \in S PROVE <<h>> \o s \in S
  <2>1. <<h>> \in S
    OBVIOUS
  <2> QED
    BY <2>1, ConcatProperties
<1>5. ASSUME NEW o \in D, NEW f \in [D -> S] PROVE ScanAt(re, text, sub, f, o) \in S
  <2>1. CASE ScanEnds(re, text, sub, o)
    BY <2>1, EmptySeq DEF ScanEnds
  <2>2. CASE \E q \in D, h \in Hits(re, text) : ScanGoesOn(re, text, sub, o, q, h)
    <3>1. PICK q \in D, h \in Hits(re, text) : ScanGoesOn(re, text, sub, o, q, h)
      BY <2>2
    <3>2. f[q] \in S
      OBVIOUS
    <3> QED
      BY <1>4, <3>1, <3>2 DEF ScanGoesOn
  <2> QED
    BY <1>3, <2>1, <2>2
<1>6. G \in [D -> [[D -> S] -> S]]
  BY <1>5
<1>7. ASSUME NEW o \in D, NEW f \in [D -> S], NEW g \in [D -> S],
             \A q \in D : rank[q] < rank[o] => f[q] = g[q]
      PROVE  G[o][f] = G[o][g]
  <2>1. G[o][f] = ScanAt(re, text, sub, f, o) /\ G[o][g] = ScanAt(re, text, sub, g, o)
    OBVIOUS
  <2>2. \A q \in D : q > o => f[q] = g[q]
    BY <1>2, <1>7
  <2>3. ScanAt(re, text, sub, f, o) = ScanAt(re, text, sub, g, o)
    <3>1. CASE ScanEnds(re, text, sub, o)
      BY <3>1 DEF ScanEnds
    <3>2. CASE \E q \in D, h \in Hits(re, text) : ScanGoesOn(re, text, sub, o, q, h)
      BY <2>2, <3>2 DEF ScanGoesOn
    <3> QED
      BY <1>3, <3>1, <3>2
  <2> QED
    BY <2>1, <2>3
<1>8. S # {}
  BY EmptySeq
<1> HIDE DEF rank
<1>9. PICK f \in [D -> S] : Solves(f, D, G)
  <2> DEFINE N == n + 1
  <2>1. ReadsLower(D, S, rank, G)
    BY <1>7 DEF ReadsLower
  <2>2. N \in Nat /\ rank \in [D -> 0..N] /\ S # {} /\ G \in [D -> [[D -> S] -> S]]
    BY <1>1, <1>2, <1>6, <1>8
  <2> HIDE DEF G, D, S, N
  <2> QED
    BY <2>1, <2>2, Solution
<1>10. f = Body(f)
  <2>1. \A o \in D : f[o] = ScanAt(re, text, sub, f, o)
    BY <1>9 DEF Solves
  <2> HIDE DEF D, S
  <2> QED
    BY <2>1
<1>11. scan = Body(scan)
  BY <1>10, Zenon
<1>12. Matches(re, text, sub) = scan[0]
  BY Zenon DEF Matches, Body, ScanAt, Phantom, Starts, First
<1> HIDE DEF scan
<1>13. \A o \in D : scan[o] \in S
  <2> DEFINE Good == {o \in D : scan[o] \in S}
  <2>1. ASSUME NEW o \in D, \A q \in D : rank[q] < rank[o] => q \in Good PROVE o \in Good
    <3>1. scan[o] = ScanAt(re, text, sub, scan, o)
      BY <1>11
    <3>2. CASE ScanEnds(re, text, sub, o)
      BY <3>1, <3>2, EmptySeq DEF ScanEnds
    <3>3. CASE \E q \in D, h \in Hits(re, text) : ScanGoesOn(re, text, sub, o, q, h)
      <4>1. PICK q \in D, h \in Hits(re, text) : ScanGoesOn(re, text, sub, o, q, h)
        BY <3>3
      <4>2. scan[q] \in S
        BY <1>2, <2>1, <4>1 DEF ScanGoesOn
      <4>3. ScanAt(re, text, sub, scan, o) \in S
        BY <1>4, <4>1, <4>2 DEF ScanGoesOn
      <4> QED
        BY <3>1, <4>3
    <3> QED
      BY <1>3, <3>2, <3>3
  <2>2. rank \in [D -> Nat]
    BY <1>1, <1>2
  <2> HIDE DEF Good, D
  <2>3. \A o \in D : o \in Good
    BY <2>1, <2>2, ByRank
  <2> QED
    BY <2>3 DEF Good
<1> QED
  BY <1>1, <1>12, <1>13

(* FlattenSeq joins sequences over S to one.                               *)
LEMMA Flattened ==
  ASSUME NEW S, NEW ss \in Seq(Seq(S))
  PROVE  FlattenSeq(ss) \in Seq(S)
<1> DEFINE n == Len(ss)
           Body(f) == [i \in 1..n |-> IF i = 1 THEN ss[i] ELSE f[i - 1] \o ss[i]]
           flat == CHOOSE f : f = Body(f)
           G == [i \in (1 + 1)..n |-> [s \in Seq(S) |-> s \o ss[i]]]
<1>1. n \in Nat /\ \A i \in 1..n : ss[i] \in Seq(S)
  OBVIOUS
<1>2. CASE n = 0
  BY <1>1, <1>2 DEF FlattenSeq
<1>3. CASE n # 0
  <2>1. G \in [(1 + 1)..n -> [Seq(S) -> Seq(S)]]
    BY <1>1, ConcatProperties
  <2>2. ss[1] \in Seq(S)
    BY <1>1, <1>3
  <2> HIDE DEF n
  <2>3. PICK f \in [1..n -> Seq(S)] : Climbs(f, ss[1], 1, n, G)
    <3>1. n \in Nat /\ 1 \in Nat
      BY <1>1
    <3> HIDE DEF G
    <3> QED
      BY <2>1, <2>2, <3>1, Climb, Zenon
  <2>4. ASSUME NEW i \in 1..n PROVE f[i] = IF i = 1 THEN ss[i] ELSE f[i - 1] \o ss[i]
    <3>1. CASE i = 1
      BY <2>3, <3>1 DEF Climbs
    <3>2. CASE i # 1
      <4>1. i \in (1 + 1)..n /\ i - 1 \in 1..n
        BY <1>1, <3>2
      <4>2. f[i] = G[i][f[i - 1]]
        BY <2>3, <3>2, <4>1 DEF Climbs
      <4>3. f[i - 1] \in Seq(S)
        BY <4>1
      <4>4. G[i][f[i - 1]] = f[i - 1] \o ss[i]
        BY <4>1, <4>3
      <4> QED
        BY <3>2, <4>2, <4>4
    <3> QED
      BY <3>1, <3>2
  <2>5. f = Body(f)
    BY <2>4
  <2>6. flat = Body(flat)
    BY <2>5, Zenon
  <2>7. FlattenSeq(ss) = flat[n]
    BY <1>3, Zenon DEF FlattenSeq, n
  <2> HIDE DEF flat
  <2> DEFINE Good == {i \in 1..n : flat[i] \in Seq(S)}
  <2>8. 1 \in Good
    BY <1>1, <1>3, <2>2, <2>6
  <2>9. ASSUME NEW i \in 2..n, i - 1 \in Good PROVE i \in Good
    <3>1. i \in 1..n /\ i # 1
      BY <1>1
    <3>2. flat[i] = flat[i - 1] \o ss[i]
      BY <2>6, <3>1
    <3>3. flat[i - 1] \in Seq(S) /\ ss[i] \in Seq(S)
      BY <1>1, <2>9, <3>1
    <3>4. flat[i - 1] \o ss[i] \in Seq(S)
      BY <3>3, ConcatProperties
    <3> QED
      BY <3>1, <3>2, <3>4
  <2> HIDE DEF Good
  <2>10. \A i \in (1 + 1)..n : i - 1 \in Good => i \in Good
    BY <2>9
  <2>11. \A i \in 1..n : i \in Good
    BY <1>1, <2>8, <2>10, UpTo
  <2> QED
    BY <1>1, <1>3, <2>7, <2>11 DEF Good
<1> QED
  BY <1>2, <1>3

(* Views that are slices of the input d, and views of foreign memory.      *)
GoodViews(d) ==
  {v \in Views : \/ EndOf(v) <= Len(d) /\ v.text = SubSeq(d, v.at + 1, EndOf(v))
                 \/ v.at >= Foreign}

(* The bytes of a slice of a slice.                                        *)
LEMMA SliceBytes ==
  ASSUME NEW text \in Texts, NEW s \in SpansIn(Len(text))
  PROVE  /\ SubSeq(text, s.start + 1, s.end) \in Texts
         /\ Len(SubSeq(text, s.start + 1, s.end)) = s.end - s.start
         /\ \A i \in 1..(s.end - s.start) : SubSeq(text, s.start + 1, s.end)[i] = text[s.start + i]
<1>1. s.start \in Nat /\ s.end \in Nat /\ s.start <= s.end /\ s.end <= Len(text) /\ Len(text) \in Nat
  BY DEF SpansIn, Texts
<1>2. \A i \in (s.start + 1)..s.end : text[i] \in Symbols
  BY <1>1 DEF Texts
<1> QED
  BY <1>1, <1>2, SubSeqProperties DEF Texts

(* A slice of a good view is one.                                          *)
LEMMA SliceGood ==
  ASSUME NEW d \in Texts, NEW v \in GoodViews(d), NEW s \in SpansIn(Len(v.text))
  PROVE  Slice(v, s) \in GoodViews(d)
<1> DEFINE a == v.at
           n == Len(v.text)
           from == s.start
           to == s.end
           u == SubSeq(v.text, from + 1, to)
<1>1. a \in Nat /\ v.text \in Texts /\ n \in Nat /\ Len(d) \in Nat
  BY DEF GoodViews, Views, Texts
<1>2. from \in Nat /\ to \in Nat /\ from <= to /\ to <= n
  BY <1>1 DEF SpansIn
<1>3. u \in Texts /\ Len(u) = to - from /\ \A i \in 1..(to - from) : u[i] = v.text[from + i]
  BY <1>1, SliceBytes
<1>4. Slice(v, s) = [at |-> a + from, text |-> u]
  BY DEF Slice, View
<1>5. \/ a >= Foreign
      \/ a + n <= Len(d) /\ v.text = SubSeq(d, a + 1, a + n)
  BY DEF GoodViews, EndOf
<1> HIDE DEF a, n, from, to, u
<1>6. Slice(v, s) \in Views
  BY <1>1, <1>2, <1>3, <1>4 DEF Views
<1>7. CASE a >= Foreign
  <2>1. a + from >= Foreign
    BY <1>1, <1>2, <1>7, PipelineAssumption
  <2> QED
    BY <1>4, <1>6, <2>1 DEF GoodViews
<1>8. CASE a + n <= Len(d) /\ v.text = SubSeq(d, a + 1, a + n)
  <2> DEFINE w == [start |-> a, end |-> a + n]
             x == [start |-> a + from, end |-> a + to]
             y == SubSeq(d, a + from + 1, a + to)
  <2>1. a + to <= Len(d) /\ a + from <= a + to /\ a + from \in Nat /\ a + to \in Nat
    BY <1>1, <1>2, <1>8
  <2>2. w \in SpansIn(Len(d)) /\ x \in SpansIn(Len(d))
    BY <1>1, <1>8, <2>1 DEF SpansIn
  <2>3. \A i \in 1..n : v.text[i] = d[a + i]
    <3>1. w.start = a /\ w.end = a + n /\ w.end - w.start = n
      BY <1>1
    <3>2. \A i \in 1..(w.end - w.start) : SubSeq(d, w.start + 1, w.end)[i] = d[w.start + i]
      BY <2>2, SliceBytes
    <3> QED
      BY <1>8, <3>1, <3>2
  <2>4. /\ y \in Texts
        /\ Len(y) = to - from
        /\ \A i \in 1..(to - from) : y[i] = d[a + from + i]
    <3>1. x.start = a + from /\ x.end = a + to /\ x.end - x.start = to - from
      BY <1>1, <1>2
    <3>2. /\ SubSeq(d, x.start + 1, x.end) \in Texts
          /\ Len(SubSeq(d, x.start + 1, x.end)) = x.end - x.start
          /\ \A i \in 1..(x.end - x.start) : SubSeq(d, x.start + 1, x.end)[i] = d[x.start + i]
      BY <2>2, SliceBytes
    <3> QED
      BY <3>1, <3>2
  <2>5. \A i \in 1..(to - from) : u[i] = y[i]
    <3> SUFFICES ASSUME NEW i \in 1..(to - from) PROVE u[i] = y[i]
      OBVIOUS
    <3>1. from + i \in 1..n /\ a + (from + i) = a + from + i
      BY <1>1, <1>2
    <3> QED
      BY <1>3, <2>3, <2>4, <3>1
  <2> HIDE DEF y
  <2>6. u = y
    BY <1>3, <2>4, <2>5, SeqEqual DEF Texts
  <2>7. a + from + Len(u) = a + to
    BY <1>1, <1>2, <1>3
  <2>8. /\ Slice(v, s).at = a + from
        /\ Slice(v, s).text = u
        /\ EndOf(Slice(v, s)) = a + to
    BY <1>4, <2>7 DEF EndOf
  <2> QED
    BY <1>6, <2>1, <2>6, <2>8 DEF GoodViews, y
<1> QED
  BY <1>5, <1>7, <1>8

(* What x and m take from a view are slices of it, and so is what y takes. *)
LEMMA ExtractedIn ==
  ASSUME NEW v \in Views, NEW S, \A s \in SpansIn(Len(v.text)) : Slice(v, s) \in S, NEW re
  PROVE  Extracted(re, v) \in Seq(S)
<1> DEFINE ms == Matches(re, v.text, FALSE)
<1>1. v.text \in Texts
  BY DEF Views
<1>2. ms \in Seq(Hits(re, v.text))
  BY <1>1, MatchesAreHits
<1>3. Extracted(re, v) = [i \in DOMAIN ms |-> Slice(v, ms[i])]
  BY DEF Extracted
<1> HIDE DEF ms
<1>4. ASSUME NEW i \in DOMAIN ms PROVE Slice(v, ms[i]) \in S
  <2>1. ms[i] \in Hits(re, v.text)
    BY <1>2
  <2>2. ms[i] \in SpansIn(Len(v.text))
    BY <2>1 DEF Hits
  <2> QED
    BY <2>2
<1>5. DOMAIN ms = 1..Len(ms) /\ Len(ms) \in Nat
  BY <1>2, LenProperties
<1>6. [i \in 1..Len(ms) |-> Slice(v, ms[i])] \in Seq(S)
  BY <1>4, <1>5
<1> QED
  BY <1>3, <1>5, <1>6

LEMMA YankedIn ==
  ASSUME NEW v \in Views, NEW V, \A s \in SpansIn(Len(v.text)) : Slice(v, s) \in V, NEW re
  PROVE  Yanked(re, v) \in Seq(V)
<1> DEFINE S == Seq(V)
           ms == Matches(re, v.text, FALSE)
           n == Len(ms) + 1
           gap(i) == [start |-> IF i = 1 THEN 0 ELSE ms[i - 1].end,
                      end   |-> IF i > Len(ms) THEN Len(v.text) ELSE ms[i].start]
           next(s, i) == IF gap(i).start < gap(i).end THEN Append(s, Slice(v, gap(i))) ELSE s
           Body(f) == [i \in 0..n |-> IF i = 0 THEN <<>>
                                      ELSE IF gap(i).start < gap(i).end
                                           THEN Append(f[i - 1], Slice(v, gap(i)))
                                      ELSE f[i - 1]]
           views == CHOOSE f : f = Body(f)
           G == [i \in (0 + 1)..n |-> [s \in S |-> next(s, i)]]
<1>1. v.text \in Texts /\ Len(v.text) \in Nat
  BY DEF Views, Texts
<1>2. ms \in Seq(Hits(re, v.text))
  BY <1>1, MatchesAreHits
<1> HIDE DEF ms
<1>3. n \in Nat /\ Len(ms) \in Nat
  BY <1>2
<1>4. ASSUME NEW i \in 1..Len(ms)
      PROVE  ms[i].start \in 0..Len(v.text) /\ ms[i].end \in 0..Len(v.text)
  <2>1. ms[i] \in Hits(re, v.text)
    BY <1>2
  <2> QED
    BY <2>1 DEF Hits, SpansIn
<1>5. ASSUME NEW i \in 1..n, gap(i).start < gap(i).end PROVE Slice(v, gap(i)) \in V
  <2>1. gap(i).start \in 0..Len(v.text)
    <3>1. CASE i = 1
      BY <1>1, <3>1
    <3>2. CASE i # 1
      <4>1. i - 1 \in 1..Len(ms)
        BY <1>3, <3>2
      <4> QED
        BY <1>4, <3>2, <4>1
    <3> QED
      BY <3>1, <3>2
  <2>2. gap(i).end \in 0..Len(v.text)
    <3>1. CASE i > Len(ms)
      BY <1>1, <3>1
    <3>2. CASE ~ i > Len(ms)
      <4>1. i \in 1..Len(ms)
        BY <1>3, <3>2
      <4> QED
        BY <1>4, <3>2, <4>1
    <3> QED
      BY <3>1, <3>2
  <2> DEFINE g == gap(i)
  <2>3. g \in [start : 0..Len(v.text), end : 0..Len(v.text)]
    BY <2>1, <2>2
  <2>4. g.start <= g.end
    BY <1>1, <1>5, <2>1, <2>2
  <2> HIDE DEF g
  <2>5. g \in SpansIn(Len(v.text))
    BY <1>1, <2>3, <2>4 DEF SpansIn
  <2>6. Slice(v, g) \in V
    BY <2>5
  <2> QED
    BY <2>6 DEF g
<1> HIDE DEF gap, ms, n
<1>6. ASSUME NEW i \in 1..n, NEW s \in S PROVE next(s, i) \in S
  BY <1>5, <1>6, AppendProperties
<1>7. G \in [(0 + 1)..n -> [S -> S]]
  <2>1. (0 + 1)..n = 1..n
    OBVIOUS
  <2> HIDE DEF next, S
  <2> QED
    BY <1>6, <2>1
<1>8. <<>> \in S
  BY EmptySeq
<1>9. PICK f \in [0..n -> S] : Climbs(f, <<>>, 0, n, G)
  <2>1. 0 \in Nat
    OBVIOUS
  <2> HIDE DEF G, S
  <2> QED
    BY <1>3, <1>7, <1>8, <2>1, Climb, Zenon
<1>10. ASSUME NEW i \in 0..n PROVE f[i] = IF i = 0 THEN <<>> ELSE next(f[i - 1], i)
  <2>1. CASE i = 0
    BY <1>9, <2>1 DEF Climbs
  <2>2. CASE i # 0
    <3>1. i \in (0 + 1)..n /\ i - 1 \in 0..n
      BY <1>3, <2>2
    <3>2. f[i] = G[i][f[i - 1]]
      BY <1>9, <2>2 DEF Climbs
    <3>3. f[i - 1] \in S
      BY <3>1
    <3> HIDE DEF next, S
    <3>4. G[i][f[i - 1]] = next(f[i - 1], i)
      BY <3>1, <3>3
    <3> QED
      BY <2>2, <3>2, <3>4
  <2> QED
    BY <2>1, <2>2
<1>11. f = Body(f)
  <2>1. DOMAIN f = 0..n
    OBVIOUS
  <2> QED
    BY <1>10, <2>1
<1>12. views = Body(views)
  BY <1>11, Zenon
<1>13. Yanked(re, v) = views[n]
  BY Zenon DEF Yanked, gap, ms, n
<1> HIDE DEF views
<1> DEFINE Good == {i \in 0..n : views[i] \in S}
<1>14. 0 \in Good
  BY <1>3, <1>8, <1>12
<1>15. ASSUME NEW i \in (0 + 1)..n, i - 1 \in Good PROVE i \in Good
  <2>1. i \in 0..n /\ i # 0 /\ i \in 1..n
    BY <1>3
  <2>2. views[i] = next(views[i - 1], i)
    BY <1>12, <2>1
  <2>3. views[i - 1] \in S
    BY <1>15
  <2> HIDE DEF next
  <2>4. next(views[i - 1], i) \in S
    BY <1>6, <2>1, <2>3
  <2> QED
    BY <2>1, <2>2, <2>4
<1> HIDE DEF Good
<1>16. 0 \in Nat
  OBVIOUS
<1>17. \A i \in 0..n : i \in Good
  BY <1>3, <1>14, <1>15, <1>16, UpTo
<1> QED
  BY <1>3, <1>13, <1>17 DEF Good

LEMMA ExtractedGood ==
  ASSUME NEW d \in Texts, NEW v \in GoodViews(d), NEW re
  PROVE  Extracted(re, v) \in Seq(GoodViews(d))
<1>1. v \in Views
  BY DEF GoodViews
<1>2. \A s \in SpansIn(Len(v.text)) : Slice(v, s) \in GoodViews(d)
  BY SliceGood
<1> QED
  BY <1>1, <1>2, ExtractedIn

LEMMA YankedGood ==
  ASSUME NEW d \in Texts, NEW v \in GoodViews(d), NEW re
  PROVE  Yanked(re, v) \in Seq(GoodViews(d))
<1>1. v \in Views
  BY DEF GoodViews
<1>2. \A s \in SpansIn(Len(v.text)) : Slice(v, s) \in GoodViews(d)
  BY SliceGood
<1> QED
  BY <1>1, <1>2, YankedIn

LEMMA MaxIn ==
  ASSUME NEW n \in Nat, NEW S, S \subseteq 0..n, S # {}
  PROVE  Max(S) \in S
<1>1. \E r \in S : \A t \in S : t <= r
  BY Greatest
<1>2. \A t, r \in S : t <= r => r >= t
  OBVIOUS
<1>3. \E r \in S : \A t \in S : r >= t
  BY <1>1, <1>2
<1> QED
  BY <1>3, Zenon DEF Max

LEMMA MinIn ==
  ASSUME NEW S, S \subseteq Nat, S # {}
  PROVE  Min(S) \in S
<1>1. \E r \in S : \A t \in S : t >= r
  BY Least
<1>2. \A t, r \in S : t >= r => r <= t
  OBVIOUS
<1>3. \E r \in S : \A t \in S : r <= t
  BY <1>1, <1>2
<1> QED
  BY <1>3, Zenon DEF Min

(* + moves to a span of the text around the one it is given.               *)
LEMMA ExpandedSpan ==
  ASSUME NEW text \in Texts, NEW s \in Nat, NEW e \in Nat, s <= e, e <= Len(text)
  PROVE  Expanded(text, s, e) \in SpansIn(Len(text))
<1> DEFINE n == Len(text)
           open == EnclosingOpen(text, s)
           close == EnclosingClose(text, e)
<1>1. n \in Nat
  BY DEF Texts
<1>2. open # None => open \in 0..(n - 1) /\ open < s
  <2> DEFINE depth(i) == Cardinality({j \in Closers(text) : i < j /\ j < s})
                         - Cardinality({j \in Openers(text) : i < j /\ j < s})
             stops == {i \in Openers(text) : i < s /\ depth(i) = 0}
  <2>1. open = IF stops = {} THEN None ELSE Max(stops)
    BY DEF EnclosingOpen
  <2>2. \A i \in stops : i \in 0..(n - 1) /\ i < s
    BY DEF Openers
  <2> HIDE DEF stops, n, open
  <2>3. stops \subseteq 0..n
    BY <1>1, <2>2
  <2>4. stops # {} => Max(stops) \in stops
    BY <1>1, <2>3, MaxIn
  <2> QED
    BY <2>1, <2>2, <2>4
<1>3. close # None => close \in 0..(n - 1) /\ e <= close
  <2> DEFINE depth(i) == Cardinality({j \in Openers(text) : e <= j /\ j < i})
                         - Cardinality({j \in Closers(text) : e <= j /\ j < i})
             stops == {i \in Closers(text) : e <= i /\ depth(i) = 0}
  <2>1. close = IF stops = {} THEN None ELSE Min(stops)
    BY DEF EnclosingClose
  <2>2. \A i \in stops : i \in 0..(n - 1) /\ e <= i
    BY DEF Closers
  <2> HIDE DEF stops, n, close
  <2>3. stops \subseteq Nat
    BY <1>1, <2>2
  <2>4. stops # {} => Min(stops) \in stops
    BY <2>3, MinIn
  <2> QED
    BY <2>1, <2>2, <2>4
<1>4. Expanded(text, s, e) = IF open # None /\ close # None
                             THEN [start |-> open, end |-> close + 1]
                             ELSE [start |-> s, end |-> e]
  BY DEF Expanded
<1> HIDE DEF open, close
<1>5. CASE open # None /\ close # None
  <2>1. open \in 0..n /\ close + 1 \in 0..n /\ open <= close + 1
    BY <1>1, <1>2, <1>3, <1>5
  <2> QED
    BY <1>4, <1>5, <2>1 DEF SpansIn
<1>6. CASE ~ (open # None /\ close # None)
  BY <1>1, <1>4, <1>6 DEF SpansIn
<1> QED
  BY <1>5, <1>6

(* - moves to a span of the text, if it moves at all.                      *)
LEMMA CollapsedSpan ==
  ASSUME NEW text \in Texts, Collapsed(text) # <<>>
  PROVE  Collapsed(text)[1] \in SpansIn(Len(text))
<1> DEFINE n == Len(text)
           open == Min(Openers(text))
           close == MatchingClose(text, open)
<1>1. n \in Nat
  BY DEF Texts
<1>2. Openers(text) # {} /\ Collapsed(text)[1] = [start |-> open + 1,
                                                  end |-> IF close = None THEN n ELSE close]
  BY DEF Collapsed
<1>3. open \in 0..(n - 1)
  <2>1. Openers(text) \subseteq 0..(n - 1)
    BY DEF Openers
  <2>2. Openers(text) \subseteq Nat
    BY <1>1, <2>1
  <2> QED
    BY <1>2, <2>1, <2>2, MinIn
<1> HIDE DEF open
<1>4. close # None => close \in 0..(n - 1) /\ open < close
  <2> DEFINE depth(i) == Cardinality({j \in Openers(text) : open <= j /\ j < i})
                         - Cardinality({j \in Closers(text) : open <= j /\ j < i})
             stops == {i \in Closers(text) : open < i /\ depth(i) = 1}
  <2>1. close = IF stops = {} THEN None ELSE Min(stops)
    BY DEF MatchingClose
  <2>2. \A i \in stops : i \in 0..(n - 1) /\ open < i
    BY DEF Closers
  <2> HIDE DEF stops, n, close
  <2>3. stops \subseteq Nat
    BY <1>1, <2>2
  <2>4. stops # {} => Min(stops) \in stops
    BY <2>3, MinIn
  <2> QED
    BY <2>1, <2>2, <2>4
<1> HIDE DEF close
<1>5. CASE close = None
  <2>1. open + 1 \in 0..n /\ open + 1 <= n /\ n \in 0..n
    BY <1>1, <1>3
  <2> QED
    BY <1>2, <1>5, <2>1 DEF SpansIn
<1>6. CASE close # None
  <2>1. open + 1 \in 0..n /\ close \in 0..n /\ open + 1 <= close
    BY <1>1, <1>3, <1>4, <1>6
  <2> QED
    BY <1>2, <1>6, <2>1 DEF SpansIn
<1> QED
  BY <1>5, <1>6

(* The whole input is a good view.                                         *)
LEMMA WholeGood ==
  ASSUME NEW d \in Texts
  PROVE  View(0, d) \in GoodViews(d)
<1>1. Len(d) \in Nat /\ SubSeq(d, 1, Len(d)) = d
  BY SubSeqFull DEF Texts
<1>2. /\ View(0, d) \in Views
      /\ View(0, d).at = 0
      /\ View(0, d).text = d
      /\ EndOf(View(0, d)) = Len(d)
  BY <1>1 DEF View, Views, EndOf
<1>3. 0 + 1 = 1
  OBVIOUS
<1> QED
  BY <1>1, <1>2, <1>3 DEF GoodViews

(* What N makes of two views that end in the input is a slice of it.       *)
LEMMA MergedGood ==
  ASSUME NEW v \in GoodViews(doc), NEW w \in GoodViews(doc), doc \in Texts,
         EndOf(v) <= Len(doc), EndOf(w) <= Len(doc)
  PROVE  Merged(v, w) \in GoodViews(doc)
<1> DEFINE from == IF v.at <= w.at THEN v.at ELSE w.at
           to == IF EndOf(v) >= EndOf(w) THEN EndOf(v) ELSE EndOf(w)
           s == [start |-> from, end |-> to]
<1>1. /\ v.at \in Nat /\ w.at \in Nat /\ Len(doc) \in Nat
      /\ EndOf(v) \in Nat /\ EndOf(w) \in Nat /\ v.at <= EndOf(v) /\ w.at <= EndOf(w)
  BY DEF GoodViews, Views, EndOf, Texts
<1>2. from \in Nat /\ to \in Nat /\ from <= to /\ to <= Len(doc)
  BY <1>1
<1>3. Merged(v, w) = View(from, SubSeq(doc, from + 1, to))
  BY DEF Merged
<1> HIDE DEF from, to
<1>4. s \in SpansIn(Len(View(0, doc).text))
  BY <1>1, <1>2 DEF SpansIn, View
<1>5. View(0, doc) \in GoodViews(doc)
  BY WholeGood
<1>6. Slice(View(0, doc), s) = View(from, SubSeq(doc, from + 1, to))
  BY <1>2 DEF Slice, View
<1> HIDE DEF s
<1> QED
  BY <1>3, <1>4, <1>5, <1>6, SliceGood

(* Output data lies beyond the input.                                      *)
LEMMA ForeignGood ==
  ASSUME NEW d, NEW text \in Texts
  PROVE  View(Foreign, text) \in GoodViews(d)
BY PipelineAssumption DEF View, Views, GoodViews

LEMMA OneElement ==
  ASSUME NEW S, NEW c \in S
  PROVE  <<c>> \in Seq(S)
OBVIOUS

(* What r makes of its views is a text.                                    *)
LEMMA JoinText ==
  ASSUME NEW d, NEW views \in Seq(GoodViews(d))
  PROVE  Join(views) \in Texts
<1> DEFINE texts == [i \in DOMAIN views |-> IF i = 1 THEN views[i].text
                                            ELSE Separator \o views[i].text]
           n == Len(views)
<1>1. Separator \in Texts
  <2>1. "n" \in Symbols
    BY PipelineAssumption
  <2> QED
    BY <2>1, OneElement, Zenon DEF Separator, Texts
<1>2. ASSUME NEW i \in 1..n PROVE (IF i = 1 THEN views[i].text ELSE Separator \o views[i].text) \in Texts
  <2>1. views[i] \in GoodViews(d)
    OBVIOUS
  <2>2. views[i].text \in Texts
    BY <2>1 DEF GoodViews, Views
  <2> QED
    BY <1>1, <2>2, ConcatProperties DEF Texts
<1>3. n \in Nat /\ DOMAIN views = 1..n
  OBVIOUS
<1>4. texts \in Seq(Texts)
  BY <1>2, <1>3
<1> HIDE DEF texts
<1>5. FlattenSeq(texts) \in Texts
  BY <1>4, Flattened DEF Texts
<1> QED
  BY <1>5 DEF Join, texts

-----------------------------------------------------------------------------
(* The stack.  The facts below are about a program pr, a stack s and the   *)
(* stages g of pr, whatever state they come from.                          *)

Waits      == {"", "up", "block", "collect"}
Frames(pr) == {f \in [p : DOMAIN pr, k : Nat, wait : Waits] : f.k <= Len(pr[f.p])}
Op(pr, f)  == pr[f.p][f.k].op
Reducer(pr, p, r) == r \in 1..Len(pr[p]) /\ pr[p][r].op = "r"

(* What a stage may wait for.                                              *)
Fits(pr, f) ==
  /\ f.wait # "" => f.k > 0
  /\ f.wait = "up" => Op(pr, f) # "r"
  /\ f.wait = "block" => Op(pr, f) \in BlockOps
  /\ f.wait = "collect" => Op(pr, f) = "r"

(* The first frame of a chain, and the frame that f waits for.             *)
Outermost(pr, f) == f.k = Len(pr[f.p]) \/ f.wait = "collect"
Calls(pr, f, e) ==
  \/ f.wait \in {"up", "collect"} /\ e.p = f.p /\ e.k = f.k - 1 /\ e.wait # "collect"
  \/ f.wait = "block" /\ e.p = Block(f) /\ Outermost(pr, e)

(* Further in there are inner blocks and earlier stages.                   *)
Descends(s) ==
  \A i, j \in 1..Len(s) :
    i < j => Len(s[i].p) <= Len(s[j].p) /\ (s[i].p = s[j].p => s[j].k < s[i].k)

(* A reducer that collects is the first of its chain to be on the stack.   *)
CollectsFirst(s) ==
  \A i, j \in 1..Len(s) : i < j /\ s[j].wait = "collect" => s[i].p # s[j].p

(* A stage before a reducer runs only while some reducer between them, or  *)
(* that one, is collecting.                                                *)
CollectedBefore(s, p, r) ==
  \E j \in 1..Len(s) : s[j].p = p /\ s[j].wait = "collect" /\ s[j].k <= r
Collected(pr, s) ==
  \A i \in 1..Len(s), r \in Nat :
    r > s[i].k /\ Reducer(pr, s[i].p, r) => CollectedBefore(s, s[i].p, r)

IsStack(pr, s) ==
  /\ s \in Seq(Frames(pr))
  /\ \A i \in 1..Len(s) : Fits(pr, s[i])
  /\ s # <<>> => s[1].p = <<>> /\ Outermost(pr, s[1])
  /\ \A i \in 1..(Len(s) - 1) : Calls(pr, s[i], s[i + 1])
  /\ Descends(s)
  /\ CollectsFirst(s)
  /\ Collected(pr, s)

LEMMA FrontIs ==
  ASSUME NEW S, NEW s \in Seq(S), s # <<>>
  PROVE  /\ Len(s) \in Nat \ {0} /\ Last(s) = s[Len(s)] /\ Last(s) \in S
         /\ Front(s) \in Seq(S)
         /\ Len(Front(s)) = Len(s) - 1
         /\ \A i \in 1..(Len(s) - 1) : Front(s)[i] = s[i]
<1>1. Len(s) \in Nat \ {0} /\ \A i \in 1..Len(s) : s[i] \in S
  BY EmptySeq
<1>2. 1 \in Int /\ Len(s) - 1 \in Int /\ \A i \in 1..(Len(s) - 1) : s[i] \in S
  BY <1>1
<1>3. /\ Front(s) \in Seq(S)
      /\ Len(Front(s)) = IF 1 <= Len(s) - 1 THEN Len(s) - 1 - 1 + 1 ELSE 0
      /\ \A i \in 1..(Len(s) - 1 - 1 + 1) : Front(s)[i] = s[1 + i - 1]
  BY <1>2, SubSeqProperties DEF Front
<1>4. Last(s) = s[Len(s)] /\ Last(s) \in S
  BY <1>1 DEF Last
<1> DEFINE n == Len(s)
<1>5. n \in Nat /\ n # 0
  BY <1>1
<1> HIDE DEF n
<1>6. 1 <= n - 1 \/ n = 1
  BY <1>5
<1>7. Len(Front(s)) = n - 1
  BY <1>3, <1>5, <1>6 DEF n
<1>8. \A i \in 1..(n - 1) : Front(s)[i] = s[i]
  <2> SUFFICES ASSUME NEW i \in 1..(n - 1) PROVE Front(s)[i] = s[i]
    OBVIOUS
  <2>1. 1 + i - 1 = i /\ n - 1 - 1 + 1 = n - 1
    BY <1>5
  <2> QED
    BY <1>3, <2>1 DEF n
<1> QED
  BY <1>1, <1>3, <1>4, <1>7, <1>8 DEF n

LEMMA LastAppend ==
  ASSUME NEW S, NEW t \in Seq(S), NEW g \in S
  PROVE  Append(t, g) # <<>> /\ Last(Append(t, g)) = g
BY AppendProperties DEF Last

LEMMA SameAppend ==
  ASSUME NEW q \in Seq(Nat), NEW j \in Nat, NEW p \in Seq(Nat), NEW k \in Nat,
         Append(q, j) = Append(p, k)
  PROVE  q = p /\ j = k
<1> DEFINE a == Append(q, j)
           b == Append(p, k)
<1>1. Len(q) \in Nat /\ Len(p) \in Nat
  OBVIOUS
<1>2. Len(a) = Len(q) + 1 /\ a[Len(q) + 1] = j /\ \A i \in 1..Len(q) : a[i] = q[i]
  BY AppendProperties
<1>3. Len(b) = Len(p) + 1 /\ b[Len(p) + 1] = k /\ \A i \in 1..Len(p) : b[i] = p[i]
  BY AppendProperties
<1>4. a = b
  OBVIOUS
<1> HIDE DEF a, b
<1>5. Len(q) = Len(p)
  BY <1>1, <1>2, <1>3, <1>4
<1>6. q = p
  BY <1>2, <1>3, <1>4, <1>5, SeqEqual
<1> QED
  BY <1>2, <1>3, <1>4, <1>5, <1>6

LEMMA PopStack ==
  ASSUME NEW pr, NEW s, IsStack(pr, s), s # <<>>
  PROVE  IsStack(pr, Front(s))
<1> DEFINE n == Len(s)
           t == Front(s)
<1>1. s \in Seq(Frames(pr))
  BY DEF IsStack
<1>2. n \in Nat \ {0} /\ t \in Seq(Frames(pr)) /\ Len(t) = n - 1 /\ \A i \in 1..(n - 1) : t[i] = s[i]
  BY <1>1, FrontIs
<1> HIDE DEF n, t
<1>3. \A i \in 1..Len(t) : i \in 1..n /\ t[i] = s[i]
  BY <1>2
<1>4. \A i \in 1..Len(t) : Fits(pr, t[i])
  BY <1>3 DEF IsStack, n
<1>5. t # <<>> => t[1].p = <<>> /\ Outermost(pr, t[1])
  <2>1. t # <<>> => 1 \in 1..Len(t)
    BY <1>2, EmptySeq
  <2> QED
    BY <1>3, <2>1 DEF IsStack
<1>6. \A i \in 1..(Len(t) - 1) : Calls(pr, t[i], t[i + 1])
  <2>1. \A i \in 1..(Len(t) - 1) : i \in 1..(n - 1) /\ t[i] = s[i] /\ t[i + 1] = s[i + 1]
    BY <1>2
  <2> QED
    BY <2>1 DEF IsStack, n
<1>7. Descends(t)
  BY <1>3 DEF IsStack, Descends, n
<1>8. CollectsFirst(t)
  BY <1>3 DEF IsStack, CollectsFirst, n
<1>9. Collected(pr, t)
  <2> SUFFICES ASSUME NEW i \in 1..Len(t), NEW r \in Nat, r > t[i].k, Reducer(pr, t[i].p, r)
               PROVE  CollectedBefore(t, t[i].p, r)
    BY DEF Collected
  <2>1. i \in 1..n /\ i < n /\ t[i] = s[i] /\ n \in 1..n
    BY <1>2, <1>3
  <2>2. CollectedBefore(s, s[i].p, r)
    BY <2>1 DEF IsStack, Collected, n
  <2>3. PICK j \in 1..n : s[j].p = s[i].p /\ s[j].wait = "collect" /\ s[j].k <= r
    BY <2>2 DEF CollectedBefore, n
  <2>4. j # n
    BY <2>1, <2>3 DEF IsStack, CollectsFirst, n
  <2>5. j \in 1..Len(t) /\ t[j] = s[j]
    BY <1>2, <2>4
  <2> QED
    BY <2>1, <2>3, <2>5 DEF CollectedBefore
<1>10. IsStack(pr, t)
  BY <1>2, <1>4, <1>5, <1>6, <1>7, <1>8, <1>9 DEF IsStack
<1> QED
  BY <1>10 DEF t

LEMMA PushStack ==
  ASSUME NEW pr, IsProgram(pr), NEW s, IsStack(pr, s), NEW f \in Frames(pr), Fits(pr, f),
         IF s = <<>> THEN f.p = <<>> /\ Outermost(pr, f) ELSE Calls(pr, Last(s), f)
  PROVE  IsStack(pr, Append(s, f))
<1> DEFINE n == Len(s)
           t == Append(s, f)
<1>1. s \in Seq(Frames(pr))
  BY DEF IsStack
<1>2. /\ n \in Nat
      /\ t \in Seq(Frames(pr))
      /\ Len(t) = n + 1
      /\ t[n + 1] = f
      /\ \A i \in 1..n : t[i] = s[i]
  BY <1>1, AppendProperties
<1>3. s # <<>> => n > 0 /\ Last(s) = s[n] /\ s[n] \in Frames(pr)
  BY <1>1, EmptySeq DEF Last
<1>4. s = <<>> => n = 0
  OBVIOUS
<1> HIDE DEF n, t
<1>5. /\ \A i \in 1..n : s[i] \in Frames(pr)
      /\ \A g \in Frames(pr) : g.p \in Seq(Nat) /\ g.k \in Nat /\ Len(g.p) \in Nat
  <2>1. \A i \in 1..n : s[i] \in Frames(pr)
    BY <1>1 DEF n
  <2>2. \A p \in DOMAIN pr : p \in Seq(Nat)
    BY DEF IsProgram
  <2>3. \A g \in Frames(pr) : g.p \in DOMAIN pr /\ g.k \in Nat
    BY DEF Frames
  <2> QED
    BY <2>1, <2>2, <2>3
<1>6. \A g \in Frames(pr) : Len(Block(g)) = Len(g.p) + 1
  BY <1>5, AppendProperties DEF Block
<1>7. \A i \in 1..Len(t) : (i \in 1..n /\ t[i] = s[i]) \/ (i = n + 1 /\ t[i] = f)
  BY <1>2
<1>8. \A i \in 1..Len(t) : Fits(pr, t[i])
  BY <1>7 DEF IsStack, n
<1>9. t[1].p = <<>> /\ Outermost(pr, t[1])
  <2>1. CASE s = <<>>
    BY <1>2, <1>4, <2>1
  <2>2. CASE s # <<>>
    <3>1. 1 \in 1..n
      BY <1>2, <1>3, <2>2
    <3> QED
      BY <1>2, <2>2, <3>1 DEF IsStack
  <2> QED
    BY <2>1, <2>2
<1>10. \A i \in 1..(Len(t) - 1) : Calls(pr, t[i], t[i + 1])
  <2> SUFFICES ASSUME NEW i \in 1..(Len(t) - 1) PROVE Calls(pr, t[i], t[i + 1])
    OBVIOUS
  <2>1. CASE i = n
    BY <1>2, <1>3, <1>4, <2>1
  <2>2. CASE i # n
    <3>1. i \in 1..(n - 1) /\ t[i] = s[i] /\ t[i + 1] = s[i + 1]
      BY <1>2, <2>2
    <3> QED
      BY <3>1 DEF IsStack, n
  <2> QED
    BY <2>1, <2>2
(* Of the same chain there are only later stages below f, and no frame of  *)
(* the chain at all if it is the first.                                    *)
<1>11. ASSUME NEW i \in 1..n
       PROVE  /\ Len(s[i].p) <= Len(f.p)
              /\ s[i].p = f.p => f.k < s[i].k
              /\ s[i].p = f.p => f.wait # "collect"
  <2>1. n > 0 /\ s # <<>> /\ Calls(pr, s[n], f) /\ n \in 1..n
    BY <1>2, <1>3, <1>4
  <2>2. /\ Len(s[i].p) <= Len(s[n].p)
        /\ s[i].p = s[n].p => s[n].k <= s[i].k
    <3>1. CASE i = n
      BY <1>5, <3>1
    <3>2. CASE i # n
      <4>1. i < n
        BY <1>2, <3>2
      <4> QED
        BY <1>5, <2>1, <4>1 DEF IsStack, Descends, n
    <3> QED
      BY <3>1, <3>2
  <2>3. CASE f.p = s[n].p /\ f.k = s[n].k - 1 /\ f.wait # "collect"
    BY <1>5, <2>1, <2>2, <2>3
  <2>4. CASE f.p = Block(s[n])
    BY <1>5, <1>6, <2>1, <2>2, <2>4
  <2> QED
    BY <2>1, <2>3, <2>4 DEF Calls
<1>12. Descends(t)
  <2> SUFFICES ASSUME NEW i \in 1..Len(t), NEW j \in 1..Len(t), i < j
               PROVE  Len(t[i].p) <= Len(t[j].p) /\ (t[i].p = t[j].p => t[j].k < t[i].k)
    BY DEF Descends
  <2>1. i \in 1..n /\ t[i] = s[i]
    BY <1>2, <1>7
  <2>2. CASE j \in 1..n /\ t[j] = s[j]
    BY <2>1, <2>2 DEF IsStack, Descends, n
  <2>3. CASE t[j] = f
    BY <1>11, <2>1, <2>3
  <2> QED
    BY <1>7, <2>2, <2>3
<1>13. CollectsFirst(t)
  <2> SUFFICES ASSUME NEW i \in 1..Len(t), NEW j \in 1..Len(t), i < j, t[j].wait = "collect"
               PROVE  t[i].p # t[j].p
    BY DEF CollectsFirst
  <2>1. i \in 1..n /\ t[i] = s[i]
    BY <1>2, <1>7
  <2>2. CASE j \in 1..n /\ t[j] = s[j]
    BY <2>1, <2>2 DEF IsStack, CollectsFirst, n
  <2>3. CASE t[j] = f
    BY <1>11, <2>1, <2>3
  <2> QED
    BY <1>7, <2>2, <2>3
<1>14. \A p, r : CollectedBefore(s, p, r) => CollectedBefore(t, p, r)
  BY <1>2 DEF CollectedBefore, n
<1>15. Collected(pr, t)
  <2> SUFFICES ASSUME NEW i \in 1..Len(t), NEW r \in Nat, r > t[i].k, Reducer(pr, t[i].p, r)
               PROVE  CollectedBefore(t, t[i].p, r)
    BY DEF Collected
  <2>1. CASE i \in 1..n /\ t[i] = s[i]
    BY <1>14, <2>1 DEF IsStack, Collected, n
  <2>2. CASE i = n + 1 /\ t[i] = f
    <3>1. CASE f.k = Len(pr[f.p])
      BY <2>2, <3>1 DEF Reducer
    <3>2. CASE f.wait = "collect"
      <4>1. n + 1 \in 1..Len(t) /\ t[n + 1].k <= r
        BY <1>2, <1>5, <2>2
      <4> QED
        BY <1>2, <2>2, <3>2, <4>1 DEF CollectedBefore
    <3>3. CASE s # <<>> /\ s[n].wait \in {"up", "collect"} /\ f.p = s[n].p /\ f.k = s[n].k - 1
      <4>1. n \in 1..n /\ s[n].k \in Nat /\ r >= s[n].k
        BY <1>2, <1>3, <1>5, <2>2, <3>3
      <4>2. CASE r > s[n].k
        BY <1>14, <2>2, <3>3, <4>1, <4>2 DEF IsStack, Collected, n
      <4>3. CASE r = s[n].k
        <5>1. Op(pr, s[n]) = "r"
          BY <2>2, <3>3, <4>3 DEF Reducer, Op
        <5>2. s[n].wait = "collect"
          BY <3>3, <4>1, <5>1 DEF IsStack, Fits, n
        <5>3. CollectedBefore(s, f.p, r)
          BY <3>3, <4>1, <4>3, <5>2 DEF CollectedBefore, n
        <5> QED
          BY <1>14, <2>2, <5>3
      <4> QED
        BY <4>1, <4>2, <4>3
    <3> QED
      BY <1>3, <1>4, <3>1, <3>2, <3>3 DEF Calls, Outermost
  <2> QED
    BY <1>7, <2>1, <2>2
<1>16. IsStack(pr, t)
  BY <1>2, <1>8, <1>9, <1>10, <1>12, <1>13, <1>15 DEF IsStack
<1> QED
  BY <1>16 DEF t

-----------------------------------------------------------------------------
(* The blocks that are being polled and the flat_maps whose upstream has   *)
(* ended, in the iterators x of pr.                                        *)

Inner(x, p, k) == x[p][k].inner
Fused(x, p, k) == x[p][k].fused
Quiet(x, p, k) == \A j \in 1..k : ~ Inner(x, p, j)

(* Only commands with a block poll one, only flat_maps fuse.               *)
FlagOps(pr, x) ==
  \A p \in DOMAIN pr : \A k \in 0..Len(pr[p]) :
    /\ Inner(x, p, k) => k > 0 /\ pr[p][k].op \in BlockOps
    /\ Fused(x, p, k) => k > 0 /\ pr[p][k].op \in FlatMapOps

(* A stage that waits for its block polls it, one that waits for the stage *)
(* before it does not and has not seen the end.                            *)
Waiters(s, x) ==
  \A i \in 1..Len(s) :
    /\ s[i].wait = "block" => Inner(x, s[i].p, s[i].k)
    /\ s[i].wait = "up" => ~ Inner(x, s[i].p, s[i].k) /\ ~ Fused(x, s[i].p, s[i].k)

(* The stages of a block run only while its command polls it.              *)
Entered(pr, s, x) ==
  \A i \in 1..Len(s), q \in DOMAIN pr : \A j \in 1..Len(pr[q]) :
    s[i].p = Append(q, j) => Inner(x, q, j)

(* A stage runs only while no flat_map after it has seen the end.          *)
OpenAbove(pr, s, x) ==
  \A i \in 1..Len(s) : \A k \in 0..Len(pr[s[i].p]) :
    k > s[i].k => ~ Fused(x, s[i].p, k)

(* What a flat_map has seen the end of polls no block any more, nor does a *)
(* block that is not polled.                                               *)
FusedQuiet(pr, x) ==
  \A p \in DOMAIN pr : \A k \in 1..Len(pr[p]) : Fused(x, p, k) => Quiet(x, p, k - 1)
OuterQuiet(pr, x) ==
  \A q \in DOMAIN pr : \A j \in 1..Len(pr[q]) :
    Append(q, j) \in DOMAIN pr /\ ~ Inner(x, q, j)
      => Quiet(x, Append(q, j), Len(pr[Append(q, j)]))

Flags(pr, s, x) ==
  /\ FlagOps(pr, x)
  /\ Waiters(s, x)
  /\ Entered(pr, s, x)
  /\ OpenAbove(pr, s, x)
  /\ FusedQuiet(pr, x)
  /\ OuterQuiet(pr, x)

(* What a reducer has drained polls no block any more.                     *)
Reduced(pr, s, x) ==
  \A p \in DOMAIN pr, r \in Nat :
    Reducer(pr, p, r) => Quiet(x, p, r - 1) \/ CollectedBefore(s, p, r)

Machine(pr, s, x) == IsStack(pr, s) /\ Flags(pr, s, x) /\ Reduced(pr, s, x)

SameFlags(pr, x, y) ==
  \A p \in DOMAIN pr : \A k \in 0..Len(pr[p]) :
    /\ Inner(y, p, k) <=> Inner(x, p, k)
    /\ Fused(y, p, k) <=> Fused(x, p, k)

LEMMA FrameOf ==
  ASSUME NEW pr, IsProgram(pr), NEW f \in Frames(pr)
  PROVE  /\ f.p \in DOMAIN pr /\ f.p \in Seq(Nat) /\ Len(f.p) \in Nat
         /\ f.k \in Nat /\ f.k \in 0..Len(pr[f.p]) /\ Len(pr[f.p]) \in Nat /\ f.k <= Len(pr[f.p])
         /\ f.wait \in Waits
         /\ f.k > 0 => f.k \in 1..Len(pr[f.p])
<1>1. f.p \in DOMAIN pr /\ f.k \in Nat /\ f.wait \in Waits /\ f.k <= Len(pr[f.p])
  BY DEF Frames
<1>2. f.p \in Seq(Nat) /\ pr[f.p] \in Seq(Commands)
  BY <1>1 DEF IsProgram
<1>3. Len(f.p) \in Nat /\ Len(pr[f.p]) \in Nat
  BY <1>2
<1> QED
  BY <1>1, <1>2, <1>3

LEMMA StackFrames ==
  ASSUME NEW pr, NEW s, IsStack(pr, s)
  PROVE  /\ Len(s) \in Nat
         /\ \A i \in 1..Len(s) : s[i] \in Frames(pr)
         /\ s # <<>> => Len(s) \in 1..Len(s) /\ Last(s) = s[Len(s)] /\ Last(s) \in Frames(pr)
<1>1. s \in Seq(Frames(pr))
  BY DEF IsStack
<1> QED
  BY <1>1, EmptySeq DEF Last

LEMMA SameQuiet ==
  ASSUME NEW pr, NEW x, NEW y, SameFlags(pr, x, y), NEW p \in DOMAIN pr, Len(pr[p]) \in Nat,
         NEW k \in Int, k <= Len(pr[p])
  PROVE  Quiet(y, p, k) <=> Quiet(x, p, k)
<1>1. \A j \in 1..k : j \in 0..Len(pr[p])
  OBVIOUS
<1>2. \A j \in 1..k : Inner(y, p, j) <=> Inner(x, p, j)
  BY <1>1 DEF SameFlags
<1> QED
  BY <1>2 DEF Quiet

(* The invariants only look at the flags.                                  *)
LEMMA KeepFlags ==
  ASSUME NEW pr, IsProgram(pr), NEW s, NEW x, Machine(pr, s, x), NEW y, SameFlags(pr, x, y)
  PROVE  Machine(pr, s, y)
<1>1. IsStack(pr, s) /\ Flags(pr, s, x) /\ Reduced(pr, s, x)
  BY DEF Machine
<1>2. \A i \in 1..Len(s) : s[i].p \in DOMAIN pr /\ s[i].k \in 0..Len(pr[s[i].p])
  BY <1>1, StackFrames, FrameOf
<1>3. \A p \in DOMAIN pr : Len(pr[p]) \in Nat
  BY DEF IsProgram
<1>4. FlagOps(pr, y)
  BY <1>1 DEF Flags, FlagOps, SameFlags
<1>5. Waiters(s, y)
  BY <1>1, <1>2 DEF Flags, Waiters, SameFlags
<1>6. Entered(pr, s, y)
  <2>1. \A q \in DOMAIN pr : \A j \in 1..Len(pr[q]) : j \in 0..Len(pr[q])
    BY <1>3
  <2> QED
    BY <1>1, <2>1 DEF Flags, Entered, SameFlags
<1>7. OpenAbove(pr, s, y)
  BY <1>1, <1>2 DEF Flags, OpenAbove, SameFlags
<1>8. FusedQuiet(pr, y)
  <2> SUFFICES ASSUME NEW p \in DOMAIN pr, NEW k \in 1..Len(pr[p]), Fused(y, p, k)
               PROVE  Quiet(y, p, k - 1)
    BY DEF FusedQuiet
  <2>1. k \in 0..Len(pr[p]) /\ k - 1 \in Int /\ k - 1 <= Len(pr[p])
    BY <1>3
  <2>2. Quiet(x, p, k - 1)
    BY <1>1, <2>1 DEF SameFlags, Flags, FusedQuiet
  <2> QED
    BY <1>3, <2>1, <2>2, SameQuiet
<1>9. OuterQuiet(pr, y)
  <2> SUFFICES ASSUME NEW q \in DOMAIN pr, NEW j \in 1..Len(pr[q]),
                      Append(q, j) \in DOMAIN pr, ~ Inner(y, q, j)
               PROVE  Quiet(y, Append(q, j), Len(pr[Append(q, j)]))
    BY DEF OuterQuiet
  <2>1. j \in 0..Len(pr[q])
    BY <1>3
  <2>2. Quiet(x, Append(q, j), Len(pr[Append(q, j)]))
    BY <1>1, <2>1 DEF SameFlags, Flags, OuterQuiet
  <2>3. Len(pr[Append(q, j)]) \in Int /\ Len(pr[Append(q, j)]) <= Len(pr[Append(q, j)])
    BY <1>3
  <2> QED
    BY <1>3, <2>2, <2>3, SameQuiet
<1>10. Reduced(pr, s, y)
  <2> SUFFICES ASSUME NEW p \in DOMAIN pr, NEW r \in Nat, Reducer(pr, p, r),
                      ~ CollectedBefore(s, p, r)
               PROVE  Quiet(y, p, r - 1)
    BY DEF Reduced
  <2>1. Quiet(x, p, r - 1)
    BY <1>1 DEF Reduced
  <2>2. r - 1 \in Int /\ r - 1 <= Len(pr[p])
    BY <1>3 DEF Reducer
  <2> QED
    BY <1>3, <2>1, <2>2, SameQuiet
<1> QED
  BY <1>1, <1>4, <1>5, <1>6, <1>7, <1>8, <1>9, <1>10 DEF Machine, Flags

(* Popping.                                                                *)
LEMMA PopFlags ==
  ASSUME NEW pr, NEW s, NEW x, IsStack(pr, s), Flags(pr, s, x), s # <<>>
  PROVE  Flags(pr, Front(s), x)
<1> DEFINE t == Front(s)
<1>1. s \in Seq(Frames(pr))
  BY DEF IsStack
<1>2. \A i \in 1..Len(t) : i \in 1..Len(s) /\ t[i] = s[i]
  BY <1>1, FrontIs
<1> HIDE DEF t
<1>3. Waiters(t, x)
  BY <1>2 DEF Flags, Waiters
<1>4. Entered(pr, t, x)
  BY <1>2 DEF Flags, Entered
<1>5. OpenAbove(pr, t, x)
  BY <1>2 DEF Flags, OpenAbove
<1>6. Flags(pr, t, x)
  BY <1>3, <1>4, <1>5 DEF Flags
<1> QED
  BY <1>6 DEF t

LEMMA PopReduced ==
  ASSUME NEW pr, NEW s, NEW x, IsStack(pr, s), s # <<>>, Last(s).wait # "collect", Reduced(pr, s, x)
  PROVE  Reduced(pr, Front(s), x)
<1> DEFINE t == Front(s)
           n == Len(s)
<1>1. s \in Seq(Frames(pr))
  BY DEF IsStack
<1>2. n \in Nat /\ n # 0 /\ Len(t) = n - 1 /\ Last(s) = s[n] /\ \A i \in 1..(n - 1) : t[i] = s[i]
  BY <1>1, FrontIs
<1> HIDE DEF t
<1>3. ASSUME NEW p, NEW r, CollectedBefore(s, p, r) PROVE CollectedBefore(t, p, r)
  <2>1. PICK j \in 1..n : s[j].p = p /\ s[j].wait = "collect" /\ s[j].k <= r
    BY <1>3 DEF CollectedBefore
  <2>2. j # n
    BY <1>2, <2>1
  <2>3. j \in 1..Len(t) /\ t[j] = s[j]
    BY <1>2, <2>2
  <2> QED
    BY <2>1, <2>3 DEF CollectedBefore
<1> QED
  BY <1>3 DEF Reduced, t

(* Pushing.                                                                *)
LEMMA PushReduced ==
  ASSUME NEW pr, NEW s, NEW x, IsStack(pr, s), Reduced(pr, s, x), NEW f \in Frames(pr)
  PROVE  Reduced(pr, Append(s, f), x)
<1>1. s \in Seq(Frames(pr))
  BY DEF IsStack
<1>2. /\ Len(s) \in Nat
      /\ Len(Append(s, f)) = Len(s) + 1
      /\ \A i \in 1..Len(s) : Append(s, f)[i] = s[i]
  BY <1>1, AppendProperties
<1>3. \A i \in 1..Len(s) : i \in 1..Len(Append(s, f))
  BY <1>2
<1>4. \A p, r : CollectedBefore(s, p, r) => CollectedBefore(Append(s, f), p, r)
  BY <1>2, <1>3 DEF CollectedBefore
<1> QED
  BY <1>4 DEF Reduced

(* What a frame that is pushed on s has to find in the flags.              *)
Ready(pr, s, f, x) ==
  /\ f.wait = "block" => Inner(x, f.p, f.k)
  /\ f.wait = "up" => ~ Inner(x, f.p, f.k) /\ ~ Fused(x, f.p, f.k)
  /\ f.wait = "collect" => \A k \in 0..Len(pr[f.p]) : k > f.k => ~ Fused(x, f.p, k)
  /\ IF s = <<>> THEN f.p = <<>> /\ Outermost(pr, f) ELSE Calls(pr, Last(s), f)

LEMMA PushFlags ==
  ASSUME NEW pr, IsProgram(pr), NEW s, NEW x, IsStack(pr, s), Flags(pr, s, x),
         NEW f \in Frames(pr), Ready(pr, s, f, x)
  PROVE  Flags(pr, Append(s, f), x)
<1> DEFINE n == Len(s)
           t == Append(s, f)
<1>1. s \in Seq(Frames(pr))
  BY DEF IsStack
<1>2. /\ n \in Nat
      /\ Len(t) = n + 1
      /\ t[n + 1] = f
      /\ \A i \in 1..n : t[i] = s[i]
  BY <1>1, AppendProperties
<1>3. s # <<>> => n \in 1..n /\ Last(s) = s[n] /\ s[n] \in Frames(pr)
  BY <1>1, EmptySeq DEF Last
<1> HIDE DEF n, t
<1>4. \A i \in 1..Len(t) : (i \in 1..n /\ t[i] = s[i]) \/ t[i] = f
  BY <1>2
<1>5. Waiters(t, x)
  BY <1>4 DEF Flags, Waiters, Ready, n
<1>6. Entered(pr, t, x)
  <2> SUFFICES ASSUME NEW i \in 1..Len(t), NEW q \in DOMAIN pr, NEW j \in 1..Len(pr[q]),
                      t[i].p = Append(q, j)
               PROVE  Inner(x, q, j)
    BY DEF Entered
  <2>1. CASE i \in 1..n /\ t[i] = s[i]
    BY <2>1 DEF Flags, Entered, n
  <2>2. CASE t[i] = f
    <3>1. q \in Seq(Nat) /\ j \in Nat /\ Append(q, j) # <<>>
      <4>1. q \in Seq(Nat) /\ j \in Nat
        BY DEF IsProgram
      <4> QED
        BY <4>1, AppendProperties
    <3>2. s # <<>> /\ Calls(pr, s[n], f)
      BY <1>3, <2>2, <3>1 DEF Ready
    <3>3. CASE s[n].p = f.p
      BY <1>3, <2>2, <3>2, <3>3 DEF Flags, Entered, n
    <3>4. CASE s[n].wait = "block" /\ f.p = Block(s[n])
      <4>1. s[n].p \in Seq(Nat) /\ s[n].k \in Nat
        BY <1>3, <3>2, FrameOf
      <4>2. q = s[n].p /\ j = s[n].k
        <5> DEFINE a == s[n].p
                   b == s[n].k
        <5>1. Append(q, j) = Append(a, b) /\ a \in Seq(Nat) /\ b \in Nat
          BY <2>2, <3>4, <4>1 DEF Block
        <5> HIDE DEF a, b
        <5>2. q = a /\ j = b
          BY <3>1, <5>1, SameAppend
        <5> QED
          BY <5>2 DEF a, b
      <4> QED
        BY <1>3, <3>2, <3>4, <4>2 DEF Flags, Waiters, n
    <3> QED
      BY <3>2, <3>3, <3>4 DEF Calls
  <2> QED
    BY <1>4, <2>1, <2>2
<1>7. OpenAbove(pr, t, x)
  <2> SUFFICES ASSUME NEW i \in 1..Len(t), NEW k \in 0..Len(pr[t[i].p]), k > t[i].k
               PROVE  ~ Fused(x, t[i].p, k)
    BY DEF OpenAbove
  <2>1. CASE i \in 1..n /\ t[i] = s[i]
    BY <2>1 DEF Flags, OpenAbove, n
  <2>2. CASE t[i] = f
    <3>1. f.k \in Nat /\ Len(pr[f.p]) \in Nat
      BY FrameOf
    <3>2. CASE Outermost(pr, f)
      BY <2>2, <3>1, <3>2 DEF Outermost, Ready
    <3>3. CASE s # <<>> /\ s[n].wait \in {"up", "collect"} /\ f.p = s[n].p /\ f.k = s[n].k - 1
      <4>1. s[n].k \in Nat
        BY <1>3, <3>3, FrameOf
      <4>2. k > s[n].k \/ k = s[n].k
        BY <2>2, <3>1, <3>3, <4>1
      <4>3. CASE k > s[n].k
        BY <1>3, <2>2, <3>3, <4>3 DEF Flags, OpenAbove, n
      <4>4. CASE k = s[n].k
        <5>1. CASE s[n].wait = "up"
          BY <1>3, <2>2, <3>3, <4>4, <5>1 DEF Flags, Waiters, n
        <5>2. CASE s[n].wait = "collect"
          <6>1. pr[f.p][k].op = "r"
            BY <1>3, <3>3, <4>4, <5>2 DEF IsStack, Fits, Op, n
          <6>2. "r" \notin FlatMapOps
            BY DEF FlatMapOps
          <6>3. f.p \in DOMAIN pr
            BY FrameOf
          <6> QED
            BY <2>2, <6>1, <6>2, <6>3 DEF Flags, FlagOps
        <5> QED
          BY <3>3, <5>1, <5>2
      <4> QED
        BY <4>2, <4>3, <4>4
    <3> QED
      BY <1>3, <3>2, <3>3 DEF Ready, Calls
  <2> QED
    BY <1>4, <2>1, <2>2
<1>8. Flags(pr, t, x)
  BY <1>5, <1>6, <1>7 DEF Flags
<1> QED
  BY <1>8 DEF t

LEMMA Pop ==
  ASSUME NEW pr, NEW s, NEW x, Machine(pr, s, x), s # <<>>, Last(s).wait # "collect"
  PROVE  Machine(pr, Front(s), x)
BY PopStack, PopFlags, PopReduced DEF Machine

LEMMA Push ==
  ASSUME NEW pr, IsProgram(pr), NEW s, NEW x, Machine(pr, s, x),
         NEW f \in Frames(pr), Fits(pr, f), Ready(pr, s, f, x)
  PROVE  Machine(pr, Append(s, f), x)
<1>1. IF s = <<>> THEN f.p = <<>> /\ Outermost(pr, f) ELSE Calls(pr, Last(s), f)
  BY DEF Ready
<1> QED
  BY <1>1, PushStack, PushFlags, PushReduced DEF Machine

LEMMA BlockIs ==
  ASSUME NEW pr, IsProgram(pr), NEW f \in Frames(pr)
  PROVE  /\ \A q \in DOMAIN pr : \A j \in 1..Len(pr[q]) :
              Append(q, j) = Block(f) => q = f.p /\ j = f.k
         /\ Block(f) # <<>>
         /\ f.k > 0 /\ Op(pr, f) \in BlockOps => Block(f) \in DOMAIN pr
         /\ \A g \in Frames(pr) : Len(g.p) <= Len(f.p) => g.p # Block(f)
<1>1. f.p \in Seq(Nat) /\ f.k \in Nat /\ f.p \in DOMAIN pr
  BY FrameOf
<1>2. \A q \in DOMAIN pr : q \in Seq(Nat) /\ Len(q) \in Nat
  BY DEF IsProgram
<1>3. ASSUME NEW q \in DOMAIN pr, NEW j \in 1..Len(pr[q]), Append(q, j) = Block(f)
      PROVE  q = f.p /\ j = f.k
  <2> DEFINE p == f.p
             k == f.k
  <2>1. q \in Seq(Nat) /\ j \in Nat /\ p \in Seq(Nat) /\ k \in Nat
    BY <1>1, <1>2
  <2>2. Append(q, j) = Append(p, k)
    BY <1>3 DEF Block
  <2> HIDE DEF p, k
  <2>3. q = p /\ j = k
    BY <2>1, <2>2, SameAppend
  <2> QED
    BY <2>3 DEF p, k
<1>4. Block(f) # <<>> /\ Len(Block(f)) = Len(f.p) + 1
  <2> DEFINE p == f.p
             k == f.k
  <2>1. p \in Seq(Nat) /\ k \in Nat /\ Block(f) = Append(p, k)
    BY <1>1 DEF Block
  <2> HIDE DEF p, k
  <2>2. Len(Append(p, k)) = Len(p) + 1 /\ Append(p, k) \in Seq(Nat)
    BY <2>1, AppendProperties
  <2>3. Append(p, k) # <<>>
    BY <2>1, <2>2
  <2> QED
    BY <2>1, <2>2, <2>3 DEF p
<1>5. ASSUME f.k > 0, Op(pr, f) \in BlockOps PROVE Block(f) \in DOMAIN pr
  <2>1. pr[f.p] \in Seq(Commands)
    BY <1>1 DEF IsProgram
  <2>2. f.k \in DOMAIN pr[f.p]
    BY <1>5, <2>1, FrameOf
  <2> QED
    BY <1>1, <1>5, <2>2 DEF IsProgram, Op, Block
<1>6. ASSUME NEW g \in Frames(pr), Len(g.p) <= Len(f.p) PROVE g.p # Block(f)
  <2>1. Len(g.p) \in Nat /\ Len(f.p) \in Nat
    BY FrameOf
  <2> QED
    BY <1>4, <1>6, <2>1
<1> QED
  BY <1>3, <1>4, <1>5, <1>6

(* The frames below the last one: none is of its block, none is itself.    *)
LEMMA BelowLast ==
  ASSUME NEW pr, IsProgram(pr), NEW s, IsStack(pr, s), s # <<>>
  PROVE  /\ Last(s) \in Frames(pr)
         /\ Front(s) \in Seq(Frames(pr))
         /\ \A i \in 1..Len(Front(s)) :
              LET g == Front(s)[i]  f == Last(s) IN
              /\ g \in Frames(pr)
              /\ g.p # Block(f)
              /\ g.p = f.p => f.k < g.k
              /\ i \in 1..Len(s) /\ g = s[i] /\ i < Len(s)
<1> DEFINE n == Len(s)
           t == Front(s)
<1>1. s \in Seq(Frames(pr))
  BY DEF IsStack
<1>2. /\ n \in Nat /\ n # 0 /\ t \in Seq(Frames(pr)) /\ Len(t) = n - 1 /\ \A i \in 1..(n - 1) : t[i] = s[i]
      /\ Last(s) = s[n] /\ Last(s) \in Frames(pr)
  BY <1>1, FrontIs
<1> HIDE DEF t
<1>3. ASSUME NEW i \in 1..Len(t)
      PROVE  /\ t[i] \in Frames(pr)
             /\ t[i].p # Block(s[n])
             /\ t[i].p = s[n].p => s[n].k < t[i].k
             /\ i \in 1..n /\ t[i] = s[i] /\ i < n
  <2>1. i \in 1..n /\ t[i] = s[i] /\ i < n /\ n \in 1..n
    BY <1>2
  <2>2. s[i] \in Frames(pr)
    BY <1>1, <2>1
  <2>3. Len(s[i].p) <= Len(s[n].p) /\ (s[i].p = s[n].p => s[n].k < s[i].k)
    BY <2>1 DEF IsStack, Descends
  <2>4. s[i].p # Block(s[n])
    BY <1>2, <2>2, <2>3, BlockIs
  <2> QED
    BY <2>1, <2>2, <2>3, <2>4
<1>4. Last(s) \in Frames(pr) /\ t \in Seq(Frames(pr))
  BY <1>2
<1>5. \A i \in 1..Len(t) :
        /\ t[i] \in Frames(pr)
        /\ t[i].p # Block(Last(s))
        /\ t[i].p = Last(s).p => Last(s).k < t[i].k
        /\ i \in 1..n /\ t[i] = s[i] /\ i < n
  BY <1>2, <1>3
<1> QED
  BY <1>4, <1>5 DEF t

(* y is x with the block of the last stage of s begun afresh.              *)
Begins(pr, f, x, y) ==
  \A p \in DOMAIN pr : \A k \in 0..Len(pr[p]) :
    /\ Inner(y, p, k) <=> IF p = Block(f) THEN FALSE ELSE Inner(x, p, k) \/ (p = f.p /\ k = f.k)
    /\ Fused(y, p, k) <=> p # Block(f) /\ Fused(x, p, k)

(* The stage that begins its block is popped here and pushed again, to     *)
(* wait for the block.                                                     *)
LEMMA BeginBlock ==
  ASSUME NEW pr, IsProgram(pr), NEW s, NEW x, Machine(pr, s, x), s # <<>>,
         NEW f, f = Last(s), f.k > 0, Op(pr, f) \in BlockOps, f.wait # "collect",
         ~ Inner(x, f.p, f.k), NEW y, Begins(pr, f, x, y)
  PROVE  Machine(pr, Front(s), y) /\ Inner(y, f.p, f.k)
<1> DEFINE n == Len(s)
           t == Front(s)
           b == Block(f)
<1>1. IsStack(pr, s) /\ Flags(pr, s, x) /\ Reduced(pr, s, x) /\ s \in Seq(Frames(pr))
  BY DEF Machine, IsStack
<1>2. /\ f \in Frames(pr) /\ f = s[n] /\ n \in 1..n
      /\ \A i \in 1..Len(t) :
           /\ t[i] \in Frames(pr)
           /\ t[i].p # b
           /\ t[i].p = f.p => f.k < t[i].k
           /\ i \in 1..n /\ t[i] = s[i]
  BY <1>1, BelowLast, StackFrames
<1>3. /\ f.p \in DOMAIN pr /\ f.k \in 1..Len(pr[f.p]) /\ f.k \in 0..Len(pr[f.p])
      /\ b \in DOMAIN pr /\ f.p # b
  BY <1>2, FrameOf, BlockIs
<1>4. \A p \in DOMAIN pr : Len(pr[p]) \in Nat
  BY DEF IsProgram
<1>5. \A g \in Frames(pr) : g.p \in DOMAIN pr /\ g.k \in 0..Len(pr[g.p]) /\ g.k \in Nat
  BY FrameOf
<1>6. \A p \in DOMAIN pr : \A k \in 1..Len(pr[p]) : k \in 0..Len(pr[p])
  BY <1>4
<1>7. Machine(pr, t, x)
  BY Pop
<1>8. Inner(y, f.p, f.k)
  BY <1>3 DEF Begins
<1> HIDE DEF t, b, n
<1>9. FlagOps(pr, y)
  BY <1>1, <1>3 DEF Flags, FlagOps, Begins, Op
<1>10. Waiters(t, y)
  <2> SUFFICES ASSUME NEW i \in 1..Len(t)
               PROVE  /\ t[i].wait = "block" => Inner(y, t[i].p, t[i].k)
                      /\ t[i].wait = "up" => ~ Inner(y, t[i].p, t[i].k) /\ ~ Fused(y, t[i].p, t[i].k)
    BY DEF Waiters
  <2>1. t[i].p \in DOMAIN pr /\ t[i].k \in 0..Len(pr[t[i].p]) /\ t[i].p # b
    BY <1>2, <1>5
  <2>2. ~ (t[i].p = f.p /\ t[i].k = f.k)
    BY <1>2, <1>5
  <2>3. /\ Inner(y, t[i].p, t[i].k) <=> Inner(x, t[i].p, t[i].k)
        /\ Fused(y, t[i].p, t[i].k) <=> Fused(x, t[i].p, t[i].k)
    BY <2>1, <2>2 DEF Begins, b
  <2> QED
    BY <1>7, <2>3 DEF Machine, Flags, Waiters
<1>11. Entered(pr, t, y)
  <2> SUFFICES ASSUME NEW i \in 1..Len(t), NEW q \in DOMAIN pr, NEW j \in 1..Len(pr[q]),
                      t[i].p = Append(q, j)
               PROVE  Inner(y, q, j)
    BY DEF Entered
  <2>1. Inner(x, q, j)
    BY <1>7 DEF Machine, Flags, Entered
  <2>2. q # b
    <3>1. t[i] \in Frames(pr) /\ Len(t[i].p) <= Len(f.p)
      <4>1. t[i] = s[i] /\ i \in 1..n /\ n \in Nat
        BY <1>1, <1>2 DEF n
      <4>2. CASE i = n
        BY <1>2, <4>1, <4>2, FrameOf
      <4>3. CASE i # n
        BY <1>1, <1>2, <4>1, <4>3 DEF IsStack, Descends, n
      <4> QED
        BY <1>2, <4>2, <4>3
    <3>2. /\ f.p \in Seq(Nat) /\ f.k \in Nat /\ Len(t[i].p) \in Nat /\ Len(f.p) \in Nat
          /\ q \in Seq(Nat) /\ j \in Nat
      <4>1. q \in Seq(Nat) /\ j \in Nat
        BY DEF IsProgram
      <4>2. Len(t[i].p) \in Nat
        BY <3>1, FrameOf
      <4> QED
        BY <1>2, <4>1, <4>2, FrameOf
    <3>3. Len(t[i].p) = Len(q) + 1 /\ Len(b) = Len(f.p) + 1 /\ Len(q) \in Nat
      BY <3>2, AppendProperties DEF Block, b
    <3> QED
      BY <3>1, <3>2, <3>3
  <2> QED
    BY <1>6, <2>1, <2>2 DEF Begins, b
<1>12. OpenAbove(pr, t, y)
  BY <1>2, <1>5, <1>7 DEF Machine, Flags, OpenAbove, Begins, b
<1>13. ASSUME NEW p \in DOMAIN pr, p # b, NEW k \in Int, k <= Len(pr[p]),
              Quiet(x, p, k), ~ (p = f.p /\ f.k <= k)
       PROVE  Quiet(y, p, k)
  <2> SUFFICES ASSUME NEW j \in 1..k PROVE ~ Inner(y, p, j)
    BY DEF Quiet
  <2>1. j \in 0..Len(pr[p]) /\ ~ (p = f.p /\ j = f.k)
    BY <1>4, <1>13
  <2>2. ~ Inner(x, p, j)
    BY <1>13 DEF Quiet
  <2> QED
    BY <1>13, <2>1, <2>2 DEF Begins, b
<1>14. ASSUME NEW k \in Int, k <= Len(pr[b]) PROVE Quiet(y, b, k)
  <2>1. \A j \in 1..k : j \in 0..Len(pr[b])
    BY <1>3, <1>4, <1>14
  <2> QED
    BY <1>3, <2>1 DEF Begins, b, Quiet
<1>15. FusedQuiet(pr, y)
  <2> SUFFICES ASSUME NEW p \in DOMAIN pr, NEW k \in 1..Len(pr[p]), Fused(y, p, k)
               PROVE  Quiet(y, p, k - 1)
    BY DEF FusedQuiet
  <2>1. p # b /\ Fused(x, p, k)
    BY <1>6 DEF Begins, b
  <2>2. Quiet(x, p, k - 1)
    BY <1>1, <2>1 DEF Flags, FusedQuiet
  <2>3. ~ (p = f.p /\ f.k <= k - 1)
    <3> SUFFICES ASSUME p = f.p, f.k <= k - 1 PROVE FALSE
      OBVIOUS
    <3>1. k > f.k /\ k \in 0..Len(pr[f.p])
      BY <1>3, <1>6
    <3> QED
      BY <1>1, <1>2, <2>1, <3>1 DEF Flags, OpenAbove, n
  <2>4. k - 1 \in Int /\ k - 1 <= Len(pr[p])
    BY <1>4
  <2> QED
    BY <1>13, <2>1, <2>2, <2>3, <2>4
<1>16. OuterQuiet(pr, y)
  <2> SUFFICES ASSUME NEW q \in DOMAIN pr, NEW j \in 1..Len(pr[q]),
                      Append(q, j) \in DOMAIN pr, ~ Inner(y, q, j)
               PROVE  Quiet(y, Append(q, j), Len(pr[Append(q, j)]))
    BY DEF OuterQuiet
  <2> DEFINE c == Append(q, j)
  <2>1. Len(pr[c]) \in Int /\ Len(pr[c]) <= Len(pr[c])
    BY <1>4
  <2>2. CASE c = b
    BY <1>14, <2>1, <2>2
  <2>3. CASE c # b
    <3>1. ~ Inner(x, q, j)
      <4>1. CASE q = b
        <5>1. Quiet(x, b, Len(pr[b]))
          BY <1>1, <1>3 DEF Flags, OuterQuiet, b, Block
        <5> QED
          BY <4>1, <5>1 DEF Quiet
      <4>2. CASE q # b
        BY <1>6, <4>2 DEF Begins, b
      <4> QED
        BY <4>1, <4>2
    <3>2. Quiet(x, c, Len(pr[c]))
      BY <1>1, <3>1 DEF Flags, OuterQuiet
    <3>3. ~ (c = f.p)
      <4> SUFFICES ASSUME c = f.p PROVE FALSE
        OBVIOUS
      <4> QED
        BY <1>1, <1>2, <3>1 DEF Flags, Entered, n
    <3> QED
      BY <1>13, <2>1, <2>3, <3>2, <3>3
  <2> QED
    BY <2>2, <2>3
<1>17. Reduced(pr, t, y)
  <2> SUFFICES ASSUME NEW p \in DOMAIN pr, NEW r \in Nat, Reducer(pr, p, r),
                      ~ CollectedBefore(t, p, r)
               PROVE  Quiet(y, p, r - 1)
    BY DEF Reduced
  <2>1. Quiet(x, p, r - 1)
    BY <1>7 DEF Machine, Reduced
  <2>2. r - 1 \in Int /\ r - 1 <= Len(pr[p])
    BY <1>4 DEF Reducer
  <2>3. CASE p = b
    BY <1>14, <2>2, <2>3
  <2>4. CASE p # b
    <3>1. ~ (p = f.p /\ f.k <= r - 1)
      <4> SUFFICES ASSUME p = f.p, f.k <= r - 1 PROVE FALSE
        OBVIOUS
      <4>1. r > f.k
        BY <1>3, <2>2
      <4>2. CollectedBefore(s, f.p, r)
        BY <1>1, <1>2, <4>1 DEF IsStack, Collected, n
      <4>3. PICK i \in 1..n : s[i].p = f.p /\ s[i].wait = "collect" /\ s[i].k <= r
        BY <4>2 DEF CollectedBefore, n
      <4>4. i # n
        BY <1>2, <4>3
      <4>5. i \in 1..Len(t) /\ t[i] = s[i]
        BY <1>1, <4>4, FrontIs DEF t, n
      <4> QED
        BY <4>3, <4>5 DEF CollectedBefore
    <3> QED
      BY <1>13, <2>1, <2>2, <2>4, <3>1
  <2> QED
    BY <2>3, <2>4
<1>18. Machine(pr, t, y)
  BY <1>7, <1>9, <1>10, <1>11, <1>12, <1>15, <1>16, <1>17 DEF Machine, Flags
<1> QED
  BY <1>8, <1>18 DEF t

(* y is x with the flat_map f fused.                                       *)
Fuses(pr, f, x, y) ==
  \A p \in DOMAIN pr : \A k \in 0..Len(pr[p]) :
    /\ Inner(y, p, k) <=> Inner(x, p, k)
    /\ Fused(y, p, k) <=> Fused(x, p, k) \/ (p = f.p /\ k = f.k)

LEMMA FuseFlatMap ==
  ASSUME NEW pr, IsProgram(pr), NEW s, NEW x, Machine(pr, s, x), s # <<>>,
         NEW f, f = Last(s), f.k > 0, pr[f.p][f.k].op \in FlatMapOps, f.wait # "collect",
         Quiet(x, f.p, f.k - 1), NEW y, Fuses(pr, f, x, y)
  PROVE  Machine(pr, Front(s), y)
<1> DEFINE n == Len(s)
           t == Front(s)
<1>1. IsStack(pr, s) /\ Flags(pr, s, x) /\ Reduced(pr, s, x) /\ s \in Seq(Frames(pr))
  BY DEF Machine, IsStack
<1>2. /\ f \in Frames(pr)
      /\ \A i \in 1..Len(t) :
           /\ t[i] \in Frames(pr)
           /\ t[i].p = f.p => f.k < t[i].k
  BY <1>1, BelowLast
<1>3. f.p \in DOMAIN pr /\ f.k \in 1..Len(pr[f.p]) /\ f.k \in Nat
  BY <1>2, FrameOf
<1>4. \A p \in DOMAIN pr : Len(pr[p]) \in Nat
  BY DEF IsProgram
<1>5. \A g \in Frames(pr) : g.p \in DOMAIN pr /\ g.k \in 0..Len(pr[g.p]) /\ g.k \in Nat
  BY FrameOf
<1>6. \A p \in DOMAIN pr : \A k \in 1..Len(pr[p]) : k \in 0..Len(pr[p])
  BY <1>4
<1>7. Machine(pr, t, x)
  BY Pop
<1> HIDE DEF t, n
<1>8. FlagOps(pr, y)
  BY <1>1, <1>3 DEF Flags, FlagOps, Fuses
<1>9. Waiters(t, y)
  <2> SUFFICES ASSUME NEW i \in 1..Len(t)
               PROVE  /\ t[i].wait = "block" => Inner(y, t[i].p, t[i].k)
                      /\ t[i].wait = "up" => ~ Inner(y, t[i].p, t[i].k) /\ ~ Fused(y, t[i].p, t[i].k)
    BY DEF Waiters
  <2>1. t[i].p \in DOMAIN pr /\ t[i].k \in 0..Len(pr[t[i].p])
    BY <1>2, <1>5
  <2>2. ~ (t[i].p = f.p /\ t[i].k = f.k)
    BY <1>2, <1>3, <1>5
  <2>3. /\ Inner(y, t[i].p, t[i].k) <=> Inner(x, t[i].p, t[i].k)
        /\ Fused(y, t[i].p, t[i].k) <=> Fused(x, t[i].p, t[i].k)
    BY <2>1, <2>2 DEF Fuses
  <2> QED
    BY <1>7, <2>3 DEF Machine, Flags, Waiters
<1>10. Entered(pr, t, y)
  BY <1>6, <1>7 DEF Machine, Flags, Entered, Fuses
<1>11. OpenAbove(pr, t, y)
  <2> SUFFICES ASSUME NEW i \in 1..Len(t), NEW k \in 0..Len(pr[t[i].p]), k > t[i].k
               PROVE  ~ Fused(y, t[i].p, k)
    BY DEF OpenAbove
  <2>1. t[i].p \in DOMAIN pr /\ t[i].k \in Nat /\ ~ (t[i].p = f.p /\ k = f.k)
    BY <1>2, <1>3, <1>5
  <2>2. ~ Fused(x, t[i].p, k)
    BY <1>7 DEF Machine, Flags, OpenAbove
  <2> QED
    BY <2>1, <2>2 DEF Fuses
<1>12. ASSUME NEW p \in DOMAIN pr, NEW k \in Int, k <= Len(pr[p]), Quiet(x, p, k)
       PROVE  Quiet(y, p, k)
  <2>1. \A j \in 1..k : j \in 0..Len(pr[p])
    BY <1>4, <1>12
  <2> QED
    BY <1>12, <2>1 DEF Quiet, Fuses
<1>13. FusedQuiet(pr, y)
  <2> SUFFICES ASSUME NEW p \in DOMAIN pr, NEW k \in 1..Len(pr[p]), Fused(y, p, k)
               PROVE  Quiet(y, p, k - 1)
    BY DEF FusedQuiet
  <2>1. Fused(x, p, k) \/ (p = f.p /\ k = f.k)
    BY <1>6 DEF Fuses
  <2>2. Quiet(x, p, k - 1)
    BY <1>1, <2>1 DEF Flags, FusedQuiet
  <2>3. k - 1 \in Int /\ k - 1 <= Len(pr[p])
    BY <1>4
  <2> QED
    BY <1>12, <2>2, <2>3
<1>14. OuterQuiet(pr, y)
  <2> SUFFICES ASSUME NEW q \in DOMAIN pr, NEW j \in 1..Len(pr[q]),
                      Append(q, j) \in DOMAIN pr, ~ Inner(y, q, j)
               PROVE  Quiet(y, Append(q, j), Len(pr[Append(q, j)]))
    BY DEF OuterQuiet
  <2>1. Len(pr[Append(q, j)]) \in Int /\ Len(pr[Append(q, j)]) <= Len(pr[Append(q, j)])
    BY <1>4
  <2>2. ~ Inner(x, q, j)
    BY <1>6 DEF Fuses
  <2>3. Quiet(x, Append(q, j), Len(pr[Append(q, j)]))
    BY <1>1, <2>2 DEF Flags, OuterQuiet
  <2> QED
    BY <1>12, <2>1, <2>3
<1>15. Reduced(pr, t, y)
  <2> SUFFICES ASSUME NEW p \in DOMAIN pr, NEW r \in Nat, Reducer(pr, p, r),
                      ~ CollectedBefore(t, p, r)
               PROVE  Quiet(y, p, r - 1)
    BY DEF Reduced
  <2>1. Quiet(x, p, r - 1)
    BY <1>7 DEF Machine, Reduced
  <2>2. r - 1 \in Int /\ r - 1 <= Len(pr[p])
    BY <1>4 DEF Reducer
  <2> QED
    BY <1>12, <2>1, <2>2
<1>16. Machine(pr, t, y)
  BY <1>7, <1>8, <1>9, <1>10, <1>11, <1>13, <1>14, <1>15 DEF Machine, Flags
<1> QED
  BY <1>16 DEF t

(* y is x with the block of f left.                                        *)
Leaves(pr, f, x, y) ==
  \A p \in DOMAIN pr : \A k \in 0..Len(pr[p]) :
    /\ Inner(y, p, k) <=> Inner(x, p, k) /\ ~ (p = f.p /\ k = f.k)
    /\ Fused(y, p, k) <=> Fused(x, p, k)

LEMMA LeaveBlock ==
  ASSUME NEW pr, IsProgram(pr), NEW s, NEW x, Machine(pr, s, x), s # <<>>,
         NEW f, f = Last(s), f.wait = "block",
         Quiet(x, Block(f), Len(pr[Block(f)])), NEW y, Leaves(pr, f, x, y)
  PROVE  Machine(pr, Front(s), y)
<1> DEFINE n == Len(s)
           t == Front(s)
           b == Block(f)
<1>1. IsStack(pr, s) /\ Flags(pr, s, x) /\ Reduced(pr, s, x) /\ s \in Seq(Frames(pr))
  BY DEF Machine, IsStack
<1>2. /\ f \in Frames(pr) /\ f = s[n] /\ n \in 1..n
      /\ \A i \in 1..Len(t) :
           /\ t[i] \in Frames(pr)
           /\ t[i].p # b
           /\ t[i].p = f.p => f.k < t[i].k
  BY <1>1, BelowLast, StackFrames
<1>3. f.p \in DOMAIN pr /\ f.k \in Nat
  BY <1>2, FrameOf
<1>4. \A p \in DOMAIN pr : Len(pr[p]) \in Nat
  BY DEF IsProgram
<1>5. \A g \in Frames(pr) : g.p \in DOMAIN pr /\ g.k \in 0..Len(pr[g.p]) /\ g.k \in Nat
  BY FrameOf
<1>6. \A p \in DOMAIN pr : \A k \in 1..Len(pr[p]) : k \in 0..Len(pr[p])
  BY <1>4
<1>7. Machine(pr, t, x)
  <2>1. Last(s).wait # "collect"
    OBVIOUS
  <2> QED
    BY <2>1, Pop
<1> HIDE DEF t, n
<1>8. FlagOps(pr, y)
  BY <1>1 DEF Flags, FlagOps, Leaves
<1>9. Waiters(t, y)
  <2> SUFFICES ASSUME NEW i \in 1..Len(t)
               PROVE  /\ t[i].wait = "block" => Inner(y, t[i].p, t[i].k)
                      /\ t[i].wait = "up" => ~ Inner(y, t[i].p, t[i].k) /\ ~ Fused(y, t[i].p, t[i].k)
    BY DEF Waiters
  <2>1. t[i].p \in DOMAIN pr /\ t[i].k \in 0..Len(pr[t[i].p])
    BY <1>2, <1>5
  <2>2. ~ (t[i].p = f.p /\ t[i].k = f.k)
    BY <1>2, <1>3, <1>5
  <2>3. /\ Inner(y, t[i].p, t[i].k) <=> Inner(x, t[i].p, t[i].k)
        /\ Fused(y, t[i].p, t[i].k) <=> Fused(x, t[i].p, t[i].k)
    BY <2>1, <2>2 DEF Leaves
  <2> QED
    BY <1>7, <2>3 DEF Machine, Flags, Waiters
<1>10. Entered(pr, t, y)
  <2> SUFFICES ASSUME NEW i \in 1..Len(t), NEW q \in DOMAIN pr, NEW j \in 1..Len(pr[q]),
                      t[i].p = Append(q, j)
               PROVE  Inner(y, q, j)
    BY DEF Entered
  <2>1. Inner(x, q, j)
    BY <1>7 DEF Machine, Flags, Entered
  <2>2. ~ (q = f.p /\ j = f.k)
    BY <1>2 DEF Block
  <2> QED
    BY <1>6, <2>1, <2>2 DEF Leaves
<1>11. OpenAbove(pr, t, y)
  BY <1>2, <1>5, <1>7 DEF Machine, Flags, OpenAbove, Leaves
<1>12. ASSUME NEW p \in DOMAIN pr, NEW k \in Int, k <= Len(pr[p]), Quiet(x, p, k)
       PROVE  Quiet(y, p, k)
  <2>1. \A j \in 1..k : j \in 0..Len(pr[p])
    BY <1>4, <1>12
  <2> QED
    BY <1>12, <2>1 DEF Quiet, Leaves
<1>13. FusedQuiet(pr, y)
  <2> SUFFICES ASSUME NEW p \in DOMAIN pr, NEW k \in 1..Len(pr[p]), Fused(y, p, k)
               PROVE  Quiet(y, p, k - 1)
    BY DEF FusedQuiet
  <2>1. Quiet(x, p, k - 1)
    BY <1>1, <1>6 DEF Flags, FusedQuiet, Leaves
  <2>2. k - 1 \in Int /\ k - 1 <= Len(pr[p])
    BY <1>4
  <2> QED
    BY <1>12, <2>1, <2>2
<1>14. OuterQuiet(pr, y)
  <2> SUFFICES ASSUME NEW q \in DOMAIN pr, NEW j \in 1..Len(pr[q]),
                      Append(q, j) \in DOMAIN pr, ~ Inner(y, q, j)
               PROVE  Quiet(y, Append(q, j), Len(pr[Append(q, j)]))
    BY DEF OuterQuiet
  <2>1. Len(pr[Append(q, j)]) \in Int /\ Len(pr[Append(q, j)]) <= Len(pr[Append(q, j)])
    BY <1>4
  <2>2. ~ Inner(x, q, j) \/ (q = f.p /\ j = f.k)
    BY <1>6 DEF Leaves
  <2>3. Quiet(x, Append(q, j), Len(pr[Append(q, j)]))
    BY <1>1, <2>2 DEF Flags, OuterQuiet, Block
  <2> QED
    BY <1>12, <2>1, <2>3
<1>15. Reduced(pr, t, y)
  <2> SUFFICES ASSUME NEW p \in DOMAIN pr, NEW r \in Nat, Reducer(pr, p, r),
                      ~ CollectedBefore(t, p, r)
               PROVE  Quiet(y, p, r - 1)
    BY DEF Reduced
  <2>1. Quiet(x, p, r - 1)
    BY <1>7 DEF Machine, Reduced
  <2>2. r - 1 \in Int /\ r - 1 <= Len(pr[p])
    BY <1>4 DEF Reducer
  <2> QED
    BY <1>12, <2>1, <2>2
<1>16. Machine(pr, t, y)
  BY <1>7, <1>8, <1>9, <1>10, <1>11, <1>13, <1>14, <1>15 DEF Machine, Flags
<1> QED
  BY <1>16 DEF t

(* When a chain ends everything in it is quiet.                            *)
EndQuiet(pr, s, x) ==
  s # <<>> =>
    LET f == Last(s) IN
    IF f.wait = "block" THEN Quiet(x, Block(f), Len(pr[Block(f)])) ELSE Quiet(x, f.p, f.k - 1)

LEMMA FrontCalls ==
  ASSUME NEW pr, NEW s, IsStack(pr, s), s # <<>>
  PROVE  IF Front(s) = <<>> THEN Last(s).p = <<>> /\ Outermost(pr, Last(s))
         ELSE Calls(pr, Last(Front(s)), Last(s)) /\ Last(Front(s)).wait # ""
<1> DEFINE n == Len(s)
           t == Front(s)
<1>1. s \in Seq(Frames(pr))
  BY DEF IsStack
<1>2. /\ n \in Nat /\ n # 0 /\ t \in Seq(Frames(pr)) /\ Len(t) = n - 1 /\ \A i \in 1..(n - 1) : t[i] = s[i]
      /\ Last(s) = s[n]
  BY <1>1, FrontIs
<1> HIDE DEF t
<1>3. CASE t = <<>>
  <2>1. n = 1
    BY <1>2, <1>3
  <2> QED
    BY <1>2, <1>3, <2>1 DEF IsStack, t
<1>4. CASE t # <<>>
  <2>1. n - 1 \in 1..(n - 1) /\ Last(t) = s[n - 1]
    BY <1>2, <1>4, EmptySeq DEF Last
  <2>2. Calls(pr, s[n - 1], s[n - 1 + 1]) /\ n - 1 + 1 = n
    BY <1>2, <2>1 DEF IsStack
  <2>3. s[n - 1].wait # ""
    BY <2>2 DEF Calls
  <2> QED
    BY <1>2, <1>4, <2>1, <2>2, <2>3 DEF t
<1> QED
  BY <1>3, <1>4

(* The stage that replies was polled; with the end, all before it is quiet.*)
LEMMA ReplyQuiet ==
  ASSUME NEW pr, NEW s, NEW x, IsStack(pr, s), s # <<>>, Last(s).wait # "collect",
         Quiet(x, Last(s).p, Last(s).k)
  PROVE  EndQuiet(pr, Front(s), x)
<1> SUFFICES ASSUME Front(s) # <<>> PROVE EndQuiet(pr, Front(s), x)
  BY DEF EndQuiet
<1> DEFINE e == Last(s)
           f == Last(Front(s))
<1>1. Calls(pr, f, e)
  BY FrontCalls
<1>2. e.wait # "collect" /\ Quiet(x, e.p, e.k)
  OBVIOUS
<1> HIDE DEF e, f
<1>3. IF f.wait = "block" THEN Quiet(x, Block(f), Len(pr[Block(f)])) ELSE Quiet(x, f.p, f.k - 1)
  BY <1>1, <1>2 DEF Calls, Outermost
<1> QED
  BY <1>3 DEF EndQuiet, f

(* The last stage waits for something else.                                *)
Now(f, w)    == [f EXCEPT !.wait = w]
Rewait(s, w) == Append(Front(s), Now(Last(s), w))

MayWait(pr, f, w, y) ==
  \/ w = ""
  \/ w = "up" /\ f.k > 0 /\ Op(pr, f) # "r" /\ ~ Inner(y, f.p, f.k) /\ ~ Fused(y, f.p, f.k)
  \/ w = "block" /\ f.k > 0 /\ Op(pr, f) \in BlockOps /\ Inner(y, f.p, f.k)

LEMMA FrameIn ==
  ASSUME NEW pr, NEW p \in DOMAIN pr, NEW k \in Nat, k <= Len(pr[p]), NEW w \in Waits
  PROVE  /\ Frame(p, k, w) \in Frames(pr)
         /\ Frame(p, k, w).p = p /\ Frame(p, k, w).k = k /\ Frame(p, k, w).wait = w
BY DEF Frame, Frames

LEMMA NowIs ==
  ASSUME NEW pr, NEW f \in Frames(pr), NEW w \in Waits
  PROVE  Now(f, w) \in Frames(pr) /\ Now(f, w).p = f.p /\ Now(f, w).k = f.k /\ Now(f, w).wait = w
BY DEF Now, Frames

Rewaited(pr, s, w, y) ==
  LET t == Rewait(s, w) IN
  /\ Machine(pr, t, y) /\ t # <<>> /\ t \in Seq(Frames(pr))
  /\ Last(t).p = Last(s).p /\ Last(t).k = Last(s).k /\ Last(t).wait = w

LEMMA Rewaits ==
  ASSUME NEW pr, IsProgram(pr), NEW s, IsStack(pr, s), s # <<>>, Last(s).wait # "collect",
         NEW y, Machine(pr, Front(s), y), NEW w, MayWait(pr, Last(s), w, y)
  PROVE  Rewaited(pr, s, w, y)
<1> DEFINE f == Last(s)
           g == Now(f, w)
           t == Front(s)
<1>1. f \in Frames(pr) /\ w \in Waits /\ f.wait # "collect"
  BY StackFrames DEF MayWait, Waits
<1>2. g \in Frames(pr) /\ g.p = f.p /\ g.k = f.k /\ g.wait = w
  BY <1>1, NowIs
<1>3. IF t = <<>> THEN f.p = <<>> /\ Outermost(pr, f) ELSE Calls(pr, Last(t), f)
  BY FrontCalls
<1>4. MayWait(pr, f, w, y) /\ Machine(pr, t, y)
  OBVIOUS
<1>5. Rewait(s, w) = Append(t, g)
  BY DEF Rewait
<1> HIDE DEF f, g, t
<1>6. Fits(pr, g)
  BY <1>2, <1>4 DEF MayWait, Fits, Op
<1>7. Ready(pr, t, g, y)
  <2>1. g.wait # "collect"
    BY <1>2, <1>4 DEF MayWait
  <2>2. Outermost(pr, f) => Outermost(pr, g)
    BY <1>1, <1>2 DEF Outermost
  <2>3. \A e : Calls(pr, e, f) => Calls(pr, e, g)
    BY <1>2, <2>1, <2>2 DEF Calls
  <2>4. IF t = <<>> THEN g.p = <<>> /\ Outermost(pr, g) ELSE Calls(pr, Last(t), g)
    BY <1>2, <1>3, <2>2, <2>3
  <2> QED
    BY <1>2, <1>4, <2>1, <2>4 DEF MayWait, Ready
<1>8. Machine(pr, Append(t, g), y)
  BY <1>2, <1>4, <1>6, <1>7, Push
<1>9. t \in Seq(Frames(pr)) /\ Append(t, g) \in Seq(Frames(pr))
  BY <1>4, <1>8 DEF Machine, IsStack
<1>10. Append(t, g) # <<>> /\ Last(Append(t, g)) = g
  BY <1>2, <1>9, LastAppend
<1> QED
  BY <1>2, <1>5, <1>8, <1>9, <1>10 DEF f, Rewaited

(* The frames that start a chain above stage k.                            *)
LEMMA NextReduceIs ==
  ASSUME IsProgram(prog), NEW p \in DOMAIN prog, NEW k \in 0..Len(prog[p])
  PROVE  /\ NextReduce(p, k) \in (k + 1)..(Len(prog[p]) + 1)
         /\ NextReduce(p, k) <= Len(prog[p]) => Reducer(prog, p, NextReduce(p, k))
         /\ \A j \in Nat : Reducer(prog, p, j) /\ j > k => NextReduce(p, k) <= j
<1> DEFINE n == Len(prog[p])
           rs == {j \in (k + 1)..n : IsReduce(p, j)}
<1>1. n \in Nat /\ k \in Nat /\ k <= n
  BY DEF IsProgram
<1>2. NextReduce(p, k) = IF rs = {} THEN n + 1 ELSE CHOOSE j \in rs : \A i \in rs : j <= i
  BY DEF NextReduce
<1>3. \A j \in Nat : j \in rs <=> Reducer(prog, p, j) /\ j > k
  BY <1>1 DEF IsReduce, Reducer
<1>4. rs \subseteq Nat /\ \A j \in rs : j \in (k + 1)..n
  BY <1>1
<1> HIDE DEF rs, n
<1>5. CASE rs = {}
  <2>1. NextReduce(p, k) = n + 1 /\ \A j \in Nat : ~ (Reducer(prog, p, j) /\ j > k)
    BY <1>2, <1>3, <1>5
  <2> QED
    BY <1>1, <2>1 DEF n
<1>6. CASE rs # {}
  <2> DEFINE r == CHOOSE j \in rs : \A i \in rs : j <= i
  <2>1. PICK m \in rs : \A i \in rs : i >= m
    BY <1>4, <1>6, Least
  <2>2. \A i \in rs : m <= i
    BY <1>4, <2>1
  <2>3. r \in rs /\ \A i \in rs : r <= i
    BY <2>2, Zenon
  <2> HIDE DEF r
  <2>4. NextReduce(p, k) = r
    BY <1>2, <1>6 DEF r
  <2>5. r \in (k + 1)..(n + 1) /\ r \in Nat
    BY <1>1, <1>4, <2>3
  <2> QED
    BY <1>3, <2>3, <2>4, <2>5 DEF n
<1> QED
  BY <1>5, <1>6

LEMMA ConcatTwo ==
  ASSUME NEW S, NEW t \in Seq(S), NEW a \in S, NEW b \in S
  PROVE  t \o <<a>> = Append(t, a) /\ t \o <<a, b>> = Append(Append(t, a), b)
OBVIOUS

Above(pr, t, p)       == IF t = <<>> THEN p = <<>> ELSE Last(t).wait = "block" /\ p = Block(Last(t))
OpenOver(pr, p, k, x) == \A j \in 0..Len(pr[p]) : j > k => ~ Fused(x, p, j)
Drained(pr, t, p, k, x) ==
  \A q \in DOMAIN pr, r \in Nat :
    Reducer(pr, q, r) => (q = p /\ r > k) \/ Quiet(x, q, r - 1) \/ CollectedBefore(t, q, r)

(* A stack whose last stage was polled.                                    *)
Polls(pr, s, x) == Machine(pr, s, x) /\ s # <<>> /\ Last(s).wait = ""

LEMMA Built ==
  ASSUME IsProgram(prog), NEW t, NEW x, IsStack(prog, t), Flags(prog, t, x),
         NEW p \in DOMAIN prog, NEW k \in 0..Len(prog[p]),
         Above(prog, t, p), OpenOver(prog, p, k, x), Drained(prog, t, p, k, x)
  PROVE  Polls(prog, t \o BuildAbove(p, k), x)
<1> DEFINE n == Len(prog[p])
           r == NextReduce(p, k)
<1>1. n \in Nat /\ k \in Nat /\ t \in Seq(Frames(prog))
  BY DEF IsProgram, IsStack
<1>2. /\ r \in (k + 1)..(n + 1)
      /\ r <= n => Reducer(prog, p, r)
      /\ \A j \in Nat : Reducer(prog, p, j) /\ j > k => r <= j
  BY NextReduceIs
<1>3. BuildAbove(p, k) = IF r > n THEN <<Frame(p, n, "")>>
                         ELSE <<Frame(p, r, "collect"), Frame(p, r - 1, "")>>
  BY DEF BuildAbove
<1>4. \A i \in 0..n, w \in Waits :
        LET f == Frame(p, i, w) IN f \in Frames(prog) /\ f.p = p /\ f.k = i /\ f.wait = w
  BY <1>1 DEF Frame, Frames
<1>5. "" \in Waits /\ "collect" \in Waits
  BY DEF Waits
<1> HIDE DEF n, r
<1>6. CASE r > n
  <2> DEFINE f == Frame(p, n, "")
  <2>1. f \in Frames(prog) /\ f.p = p /\ f.k = n /\ f.wait = ""
    <3>1. n \in 0..n
      BY <1>1
    <3> QED
      BY <1>4, <1>5, <3>1, Zenon
  <2> HIDE DEF f
  <2>2. Fits(prog, f)
    BY <2>1 DEF Fits
  <2>3. Ready(prog, t, f, x)
    BY <2>1 DEF Ready, Calls, Outermost, Above, n
  <2>4. Reduced(prog, t, x)
    <3> SUFFICES ASSUME NEW q \in DOMAIN prog, NEW j \in Nat, Reducer(prog, q, j)
                 PROVE  Quiet(x, q, j - 1) \/ CollectedBefore(t, q, j)
      BY DEF Reduced
    <3>1. ~ (q = p /\ j > k)
      <4> SUFFICES ASSUME q = p, j > k PROVE FALSE
        OBVIOUS
      <4>1. r <= j /\ j <= n
        BY <1>2 DEF Reducer, n
      <4> QED
        BY <1>1, <1>2, <1>6, <4>1
    <3> QED
      BY <3>1 DEF Drained
  <2>5. Machine(prog, Append(t, f), x)
    BY <2>1, <2>2, <2>3, <2>4, Push DEF Machine
  <2>6. t \o BuildAbove(p, k) = Append(t, f)
    BY <1>1, <1>3, <1>6, <2>1, ConcatTwo DEF f
  <2> QED
    BY <1>1, <2>1, <2>5, <2>6, LastAppend DEF Polls
<1>7. CASE ~ r > n
  <2> DEFINE g == Frame(p, r, "collect")
             f == Frame(p, r - 1, "")
             u == Append(t, g)
  <2>1. r \in 0..n /\ r - 1 \in 0..n /\ r <= n /\ r > k /\ r > 0 /\ r \in Nat
    BY <1>1, <1>2, <1>7
  <2>2. g \in Frames(prog) /\ g.p = p /\ g.k = r /\ g.wait = "collect"
    BY <1>4, <1>5, <2>1, Zenon
  <2>3. f \in Frames(prog) /\ f.p = p /\ f.k = r - 1 /\ f.wait = ""
    BY <1>4, <1>5, <2>1, Zenon
  <2>4. BuildAbove(p, k) = <<g, f>>
    BY <1>3, <1>7
  <2> HIDE DEF f, g
  <2>5. t \o BuildAbove(p, k) = Append(u, f)
    <3>1. t \o <<g, f>> = Append(Append(t, g), f)
      <4>1. PICK S : S = Frames(prog)
        OBVIOUS
      <4>2. t \in Seq(S) /\ g \in S /\ f \in S
        BY <1>1, <2>2, <2>3, <4>1
      <4> QED
        BY <4>2, ConcatTwo
    <3> QED
      BY <2>4, <3>1, Zenon
  <2>6. Fits(prog, g)
    BY <1>2, <2>1, <2>2 DEF Fits, Op, Reducer
  <2>7. Ready(prog, t, g, x)
    BY <1>1, <2>1, <2>2 DEF Ready, Calls, Outermost, Above, OpenOver, n
  <2>8. IsStack(prog, u) /\ Flags(prog, u, x)
    <3>1. IF t = <<>> THEN g.p = <<>> /\ Outermost(prog, g) ELSE Calls(prog, Last(t), g)
      BY <2>7 DEF Ready
    <3> QED
      BY <2>2, <2>6, <2>7, <3>1, PushStack, PushFlags
  <2>9. /\ Len(t) \in Nat
        /\ Len(u) = Len(t) + 1
        /\ u[Len(t) + 1] = g
        /\ \A i \in 1..Len(t) : u[i] = t[i]
        /\ u # <<>> /\ Last(u) = g
        /\ u \in Seq(Frames(prog))
    BY <1>1, <2>2, AppendProperties, LastAppend
  <2> HIDE DEF u
  <2>10. Reduced(prog, u, x)
    <3> SUFFICES ASSUME NEW q \in DOMAIN prog, NEW j \in Nat, Reducer(prog, q, j),
                        ~ Quiet(x, q, j - 1)
                 PROVE  CollectedBefore(u, q, j)
      BY DEF Reduced
    <3>1. CASE q = p /\ j > k
      <4>1. r <= j /\ Len(t) + 1 \in 1..Len(u)
        BY <1>2, <2>9, <3>1
      <4> QED
        BY <2>2, <2>9, <3>1, <4>1 DEF CollectedBefore
    <3>2. CASE CollectedBefore(t, q, j)
      <4>1. PICK i \in 1..Len(t) : t[i].p = q /\ t[i].wait = "collect" /\ t[i].k <= j
        BY <3>2 DEF CollectedBefore
      <4>2. i \in 1..Len(u) /\ u[i] = t[i]
        BY <2>9
      <4> QED
        BY <4>1, <4>2 DEF CollectedBefore
    <3> QED
      BY <3>1, <3>2 DEF Drained
  <2>11. Machine(prog, u, x)
    BY <2>8, <2>10 DEF Machine
  <2>12. Fits(prog, f)
    BY <2>3 DEF Fits
  <2>13. Ready(prog, u, f, x)
    BY <2>2, <2>3, <2>9 DEF Ready, Calls
  <2>14. Machine(prog, Append(u, f), x)
    BY <2>3, <2>11, <2>12, <2>13, Push
  <2>15. Append(u, f) # <<>> /\ Last(Append(u, f)) = f
    BY <2>3, <2>9, LastAppend
  <2> QED
    BY <2>3, <2>5, <2>14, <2>15 DEF Polls
<1> QED
  BY <1>6, <1>7

-----------------------------------------------------------------------------
(* The inductive invariant.                                                *)

Records == [stage : Seq(Nat) \X Nat, what : Ops \cup {"BEGIN", "record", "END"}, view : Views]

StageStates(d) ==
  [queue : Seq(GoodViews(d)), held : Seq(GoodViews(d)),
   fused : BOOLEAN, inner : BOOLEAN, began : BOOLEAN, ended : BOOLEAN, errored : BOOLEAN,
   buf : {b \in Seq(Records) : Len(b) <= BufCap}]

(* A source writes nothing, and a binder keeps the view its block is on.   *)
IsStage(pr, d, p, k, s) ==
  /\ s \in StageStates(d)
  /\ k = 0 => s.buf = <<>>
  /\ k > 0 /\ pr[p][k].op = "/" /\ s.inner => s.held # <<>>

AreStages(pr, d, x) ==
  /\ DOMAIN x = DOMAIN pr
  /\ \A p \in DOMAIN pr :
       /\ DOMAIN x[p] = 0..Len(pr[p])
       /\ \A k \in 0..Len(pr[p]) : IsStage(pr, d, p, k, x[p][k])

(* The writers of a block are empty while it is not polled.                *)
BlocksFlushed(pr, x) ==
  \A q \in DOMAIN pr : \A j \in 1..Len(pr[q]) :
    Append(q, j) \in DOMAIN pr /\ ~ Inner(x, q, j)
      => \A k \in 0..Len(pr[Append(q, j)]) : x[Append(q, j)][k].buf = <<>>

Regs(d) == {Poll, End} \cup {Some(v) : v \in GoodViews(d)}

TypeInv ==
  /\ prog \in Programs
  /\ doc \in Docs
  /\ AreStages(prog, doc, st)
  /\ reg \in Regs(doc)
  /\ flag \in BOOLEAN
  /\ Len(error) \in {0, 1}
  /\ pc \in {"run", "done", "failed", "panicked"}

(* The last frame was polled, or waits for what is in the register.        *)
MachineInv ==
  /\ Machine(prog, stack, st)
  /\ reg = Poll => stack # <<>> /\ Last(stack).wait = ""
  /\ reg # Poll => stack = <<>> \/ Last(stack).wait # ""
  /\ reg = End => EndQuiet(prog, stack, st)

IInv == TypeInv /\ MachineInv /\ BlocksFlushed(prog, st)

LEMMA RegsAre ==
  ASSUME NEW d
  PROVE  /\ Poll # End
         /\ \A v : Some(v) # Poll /\ Some(v) # End /\ Some(v).view = v /\ Some(v).kind = "some"
         /\ \A r \in Regs(d) : /\ r.kind = "poll" => r = Poll
                               /\ r.kind = "none" => r = End
                               /\ r.kind = "some" => r.view \in GoodViews(d) /\ r = Some(r.view)
                               /\ r.kind \in {"poll", "some", "none"}
         /\ \A v \in GoodViews(d) : Some(v) \in Regs(d)
         /\ Poll \in Regs(d) /\ End \in Regs(d)
         /\ Poll.kind = "poll" /\ End.kind = "none"
<1>1. Poll.kind = "poll" /\ End.kind = "none"
  BY DEF Poll, End
<1>2. \A v : Some(v).view = v /\ Some(v).kind = "some"
  BY DEF Some
<1>3. Poll # End /\ \A v : Some(v) # Poll /\ Some(v) # End
  BY <1>1, <1>2
<1>4. Regs(d) = {Poll, End} \cup {Some(v) : v \in GoodViews(d)}
  BY DEF Regs
<1>5. Poll \in Regs(d) /\ End \in Regs(d) /\ \A v \in GoodViews(d) : Some(v) \in Regs(d)
  BY <1>4
<1>6. ASSUME NEW r \in Regs(d)
      PROVE  /\ r.kind = "poll" => r = Poll
             /\ r.kind = "none" => r = End
             /\ r.kind = "some" => r.view \in GoodViews(d) /\ r = Some(r.view)
             /\ r.kind \in {"poll", "some", "none"}
  <2>1. CASE r = Poll
    BY <1>1, <2>1
  <2>2. CASE r = End
    BY <1>1, <2>2
  <2>3. CASE r \in {Some(v) : v \in GoodViews(d)}
    <3>1. PICK v \in GoodViews(d) : r = Some(v)
      BY <2>3
    <3>2. r.view = v /\ r.kind = "some"
      BY <1>2, <3>1
    <3> QED
      BY <3>1, <3>2
  <2> QED
    BY <1>4, <2>1, <2>2, <2>3
<1> QED
  BY <1>1, <1>2, <1>3, <1>5, <1>6

(* The stage on top of the stack.                                          *)
LEMMA Running ==
  ASSUME IInv, stack # <<>>
  PROVE  /\ IsProgram(prog) /\ doc \in Texts /\ Len(doc) < Foreign /\ Len(doc) \in Nat
         /\ IsStack(prog, stack) /\ Flags(prog, stack, st) /\ Reduced(prog, stack, st)
         /\ Top = Last(stack) /\ Top \in Frames(prog)
         /\ Top.p \in DOMAIN prog /\ Top.k \in 0..Len(prog[Top.p]) /\ Top.k \in Nat
         /\ IsStage(prog, doc, Top.p, Top.k, St)
         /\ St = st[Top.p][Top.k] /\ Cmd = prog[Top.p][Top.k] /\ Cmd.op = Op(prog, Top)
         /\ Fits(prog, Top)
         /\ Top.wait = "block" => Inner(st, Top.p, Top.k)
         /\ Top.wait = "up" => ~ Inner(st, Top.p, Top.k) /\ ~ Fused(st, Top.p, Top.k)
         /\ \A q \in DOMAIN prog : \A j \in 1..Len(prog[q]) :
              Top.p = Append(q, j) => Inner(st, q, j)
<1>1. IsProgram(prog) /\ doc \in Texts /\ Len(doc) < Foreign
  BY PipelineAssumption DEF IInv, TypeInv, Texts
<1>2. IsStack(prog, stack) /\ Flags(prog, stack, st) /\ Reduced(prog, stack, st)
  BY DEF IInv, MachineInv, Machine
<1>3. Top = Last(stack) /\ Top \in Frames(prog) /\ Len(stack) \in 1..Len(stack) /\ Top = stack[Len(stack)]
  BY <1>2, StackFrames DEF Top
<1>4. Top.p \in DOMAIN prog /\ Top.k \in 0..Len(prog[Top.p]) /\ Top.k \in Nat
  BY <1>1, <1>3, FrameOf
<1>5. IsStage(prog, doc, Top.p, Top.k, St)
  BY <1>4 DEF IInv, TypeInv, AreStages, St
<1>6. Len(doc) \in Nat
  BY <1>1 DEF Texts
<1>7. St = st[Top.p][Top.k] /\ Cmd = prog[Top.p][Top.k] /\ Cmd.op = Op(prog, Top)
  BY DEF St, Cmd, Op
<1> HIDE DEF Top
<1>8. Fits(prog, Top)
  BY <1>2, <1>3 DEF IsStack
<1>9. /\ Top.wait = "block" => Inner(st, Top.p, Top.k)
      /\ Top.wait = "up" => ~ Inner(st, Top.p, Top.k) /\ ~ Fused(st, Top.p, Top.k)
  BY <1>2, <1>3 DEF Flags, Waiters
<1>10. \A q \in DOMAIN prog : \A j \in 1..Len(prog[q]) : Top.p = Append(q, j) => Inner(st, q, j)
  BY <1>2, <1>3 DEF Flags, Entered
<1> QED
  BY <1>1, <1>2, <1>3, <1>4, <1>5, <1>6, <1>7, <1>8, <1>9, <1>10

(* A step that leaves the flags alone.                                     *)
Steady(y) == AreStages(prog, doc, y) /\ SameFlags(prog, st, y) /\ BlocksFlushed(prog, y)

(* The last stage replies r.                                               *)
LEMMA ReplyStep ==
  ASSUME IInv, stack # <<>>, Top.wait # "collect", Steady(st'), prog' = prog,
         NEW r \in Regs(doc), Reply(r), r # Poll, r = End => Quiet(st, Top.p, Top.k)
  PROVE  MachineInv'
<1> DEFINE t == Front(stack)
<1>1. /\ IsProgram(prog) /\ IsStack(prog, stack) /\ Top = Last(stack) /\ Top.p \in DOMAIN prog
      /\ Top.k \in Nat /\ Top \in Frames(prog)
  BY Running
<1>2. Machine(prog, stack, st')
  BY <1>1, KeepFlags DEF IInv, MachineInv, Steady
<1>3. Machine(prog, t, st')
  BY <1>1, <1>2, Pop
<1>4. t = <<>> \/ Last(t).wait # ""
  BY <1>1, FrontCalls
<1>5. ASSUME r = End PROVE EndQuiet(prog, t, st')
  <2>1. Quiet(st', Top.p, Top.k)
    BY <1>1, <1>5, FrameOf, SameQuiet DEF Steady
  <2> QED
    BY <1>1, <2>1, ReplyQuiet
<1>6. stack' = t /\ reg' = r
  BY DEF Reply
<1> HIDE DEF t
<1> QED
  BY <1>3, <1>4, <1>5, <1>6 DEF MachineInv

(* What the last stage waits for next, and the stage it calls.             *)
LEMMA RewaitStep ==
  ASSUME IInv, stack # <<>>, Top.wait # "collect", prog' = prog,
         Machine(prog, Front(stack), st'), NEW w, MayWait(prog, Top, w, st'),
         NEW e, stack' = IF w = "" THEN Waiting(w) ELSE Append(Waiting(w), e),
         w # "" => e \in Frames(prog) /\ e.wait = "",
         w = "up" => e.p = Top.p /\ e.k = Top.k - 1,
         w = "block" => e.p = Block(Top) /\ e.k = Len(prog[e.p]),
         reg' = Poll
  PROVE  MachineInv'
<1> DEFINE t == Rewait(stack, w)
           f == Last(stack)
<1>1. IsProgram(prog) /\ IsStack(prog, stack) /\ Top = Last(stack) /\ Last(stack).wait # "collect"
  BY Running
<1>2. MayWait(prog, Last(stack), w, st')
  BY <1>1
<1>3. Waiting(w) = t
  BY <1>1 DEF Waiting, Rewait, Now
<1>4. /\ Machine(prog, t, st') /\ t # <<>> /\ t \in Seq(Frames(prog))
      /\ Last(t).p = f.p /\ Last(t).k = f.k /\ Last(t).wait = w
  <2>1. Rewaited(prog, stack, w, st')
    BY <1>2, <1>1, Rewaits
  <2> QED
    BY <2>1 DEF Rewaited
<1>5. Poll # End
  BY DEF Poll, End
<1>6. w \in {"", "up", "block"}
  BY DEF MayWait
<1>7. Top = f
  BY <1>1
<1> HIDE DEF t, f
<1>8. CASE w = ""
  BY <1>3, <1>4, <1>5, <1>8 DEF MachineInv
<1>9. CASE w # ""
  <2>1. Fits(prog, e)
    BY <1>9 DEF Fits
  <2>2. Calls(prog, Last(t), e)
    BY <1>4, <1>6, <1>9, <1>7 DEF Calls, Outermost, Block
  <2>3. Ready(prog, t, e, st')
    BY <1>4, <1>9, <2>2 DEF Ready
  <2>4. Machine(prog, Append(t, e), st')
    BY <1>1, <1>4, <1>9, <2>1, <2>3, Push
  <2>5. Append(t, e) # <<>> /\ Last(Append(t, e)) = e
    BY <1>4, <1>9, LastAppend
  <2> QED
    BY <1>3, <1>5, <1>9, <2>4, <2>5 DEF MachineInv
<1> QED
  BY <1>8, <1>9

LEMMA AgainStep ==
  ASSUME IInv, stack # <<>>, Top.wait # "collect", Machine(prog, Front(stack), st'), prog' = prog,
         Again
  PROVE  MachineInv'
<1> DEFINE w == ""
<1>1. MayWait(prog, Top, w, st')
  BY DEF MayWait
<1>2. stack' = Waiting(w) /\ reg' = Poll
  BY DEF Again
<1>3. w = "" /\ ~ (w = "up") /\ ~ (w = "block")
  OBVIOUS
<1> HIDE DEF w
<1> QED
  BY <1>1, <1>2, <1>3, RewaitStep

LEMMA SteadyPop ==
  ASSUME IInv, stack # <<>>, Top.wait # "collect", Steady(st')
  PROVE  Machine(prog, Front(stack), st')
<1>1. IsProgram(prog) /\ Top = Last(stack)
  BY Running
<1>2. Machine(prog, stack, st')
  BY <1>1, KeepFlags DEF IInv, MachineInv, Steady
<1> QED
  BY <1>1, <1>2, Pop

LEMMA PollUpStep ==
  ASSUME IInv, stack # <<>>, Top.wait # "collect", Steady(st'), prog' = prog,
         Top.k > 0, Cmd.op # "r", ~ Inner(st, Top.p, Top.k), ~ Fused(st, Top.p, Top.k), PollUp
  PROVE  MachineInv'
<1> DEFINE e == Frame(Top.p, Top.k - 1, "")
           w == "up"
<1>1. /\ IsProgram(prog) /\ Cmd.op = Op(prog, Top)
      /\ Top.p \in DOMAIN prog /\ Top.k \in Nat /\ Top.k \in 0..Len(prog[Top.p])
  BY Running
<1>2. Machine(prog, Front(stack), st')
  BY SteadyPop
<1>3. ~ Inner(st', Top.p, Top.k) /\ ~ Fused(st', Top.p, Top.k)
  BY <1>1 DEF Steady, SameFlags
<1>4. MayWait(prog, Top, w, st')
  BY <1>1, <1>3 DEF MayWait
<1>5. stack' = Append(Waiting(w), e) /\ reg' = Poll
  BY DEF PollUp
<1>6. /\ e \in Frames(prog) /\ e.p = Top.p /\ e.k = Top.k - 1 /\ e.wait = ""
  <2>1. Len(prog[Top.p]) \in Nat
    BY <1>1 DEF IsProgram
  <2>2. Top.k - 1 \in Nat /\ Top.k - 1 <= Len(prog[Top.p])
    BY <1>1, <2>1
  <2> DEFINE p == Top.p
             k == Top.k - 1
  <2>3. p \in DOMAIN prog /\ k \in Nat /\ k <= Len(prog[p])
    BY <1>1, <2>2
  <2> HIDE DEF p, k
  <2>4. Frame(p, k, "") \in Frames(prog)
    BY <2>3 DEF Frame, Frames, Waits
  <2> QED
    BY <2>4 DEF Frame, p, k
<1>7. w = "up" /\ ~ (w = "") /\ ~ (w = "block")
  OBVIOUS
<1> HIDE DEF e, w
<1> QED
  BY <1>2, <1>4, <1>5, <1>6, <1>7, RewaitStep

LEMMA PollBlockStep ==
  ASSUME IInv, stack # <<>>, Top.wait # "collect", Steady(st'), prog' = prog,
         Top.k > 0, Cmd.op \in BlockOps, Inner(st, Top.p, Top.k), PollBlock
  PROVE  MachineInv'
<1> DEFINE b == Block(Top)
           e == Frame(b, Len(prog[b]), "")
           w == "block"
<1>1. /\ IsProgram(prog) /\ Cmd.op = Op(prog, Top) /\ Top \in Frames(prog)
      /\ Top.p \in DOMAIN prog /\ Top.k \in Nat /\ Top.k \in 0..Len(prog[Top.p])
  BY Running
<1>2. Machine(prog, Front(stack), st')
  BY SteadyPop
<1>3. Inner(st', Top.p, Top.k)
  BY <1>1 DEF Steady, SameFlags
<1>4. MayWait(prog, Top, w, st')
  BY <1>1, <1>3 DEF MayWait
<1>5. stack' = Append(Waiting(w), e) /\ reg' = Poll
  BY DEF PollBlock
<1>6. b \in DOMAIN prog /\ b = Block(Top)
  BY <1>1, BlockIs
<1> HIDE DEF b
<1>7. /\ e \in Frames(prog) /\ e.p = b /\ e.k = Len(prog[b]) /\ e.wait = ""
  <2>1. Len(prog[b]) \in Nat /\ Len(prog[b]) <= Len(prog[b])
    BY <1>1, <1>6 DEF IsProgram
  <2> DEFINE k == Len(prog[b])
  <2>2. k \in Nat /\ k <= Len(prog[b])
    BY <2>1
  <2> HIDE DEF k
  <2>3. Frame(b, k, "") \in Frames(prog)
    BY <1>6, <2>2 DEF Frame, Frames, Waits
  <2> QED
    BY <2>3 DEF Frame, k
<1>8. w = "block" /\ ~ (w = "") /\ ~ (w = "up")
  OBVIOUS
<1> HIDE DEF e, w
<1>9. e.p = Block(Top) /\ e.k = Len(prog[e.p])
  BY <1>6, <1>7
<1> QED
  BY <1>2, <1>4, <1>5, <1>7, <1>8, <1>9, RewaitStep

-----------------------------------------------------------------------------
(* The steps of the iterators.                                             *)

LEMMA StageIs ==
  ASSUME NEW pr, NEW d, NEW p, NEW k, NEW s, IsStage(pr, d, p, k, s)
  PROVE  /\ s.queue \in Seq(GoodViews(d)) /\ s.held \in Seq(GoodViews(d))
         /\ s.fused \in BOOLEAN /\ s.inner \in BOOLEAN
         /\ s.buf \in Seq(Records) /\ Len(s.buf) <= BufCap
BY DEF IsStage, StageStates

LEMMA FreshIs ==
  ASSUME NEW d
  PROVE  /\ Fresh \in StageStates(d) /\ Fresh.buf = <<>> /\ ~ Fresh.inner /\ ~ Fresh.fused
         /\ \A v \in GoodViews(d) :
              LET s == [Fresh EXCEPT !.queue = <<v>>] IN
              s \in StageStates(d) /\ s.buf = <<>> /\ ~ s.inner /\ ~ s.fused
<1>1. <<>> \in Seq(Records) /\ Len(<<>>) = 0 /\ 0 <= BufCap
  BY PipelineAssumption
<1>2. <<>> \in {b \in Seq(Records) : Len(b) <= BufCap}
  BY <1>1
<1>3. <<>> \in Seq(GoodViews(d)) /\ \A v \in GoodViews(d) : <<v>> \in Seq(GoodViews(d))
  OBVIOUS
<1> QED
  BY <1>2, <1>3 DEF StageStates, Fresh

(* Stage t may take the place of stage s.                                  *)
Keeps(pr, d, p, k, s, t) == IsStage(pr, d, p, k, t) /\ t.inner = s.inner /\ t.fused = s.fused

LEMMA Rebuffered ==
  ASSUME NEW pr, NEW d, NEW p, NEW k, NEW s, IsStage(pr, d, p, k, s),
         NEW b \in Seq(Records), Len(b) <= BufCap, k = 0 => b = <<>>
  PROVE  Keeps(pr, d, p, k, s, [s EXCEPT !.buf = b])
<1> DEFINE t == [s EXCEPT !.buf = b]
<1>1. s \in StageStates(d)
  BY DEF IsStage
<1>2. t \in StageStates(d) /\ t.buf = b /\ t.held = s.held
  BY <1>1 DEF StageStates
<1>3. t.inner = s.inner
  BY <1>1, Zenon DEF StageStates
<1>4. t.fused = s.fused
  BY <1>1, Zenon DEF StageStates
<1> HIDE DEF t
<1>5. IsStage(pr, d, p, k, t)
  BY <1>2, <1>3 DEF IsStage
<1> QED
  BY <1>3, <1>4, <1>5 DEF t, Keeps

(* One stage is put in place of another.                                   *)
Replaces(pr, x, p, k, s, y) ==
  /\ DOMAIN y = DOMAIN pr
  /\ \A q \in DOMAIN pr :
       /\ DOMAIN y[q] = 0..Len(pr[q])
       /\ \A j \in 0..Len(pr[q]) : y[q][j] = IF q = p /\ j = k THEN s ELSE x[q][j]

LEMMA Put ==
  ASSUME NEW pr, NEW d, NEW x, AreStages(pr, d, x), NEW p \in DOMAIN pr, NEW k \in 0..Len(pr[p]),
         NEW s, NEW y, y = [x EXCEPT ![p][k] = s]
  PROVE  Replaces(pr, x, p, k, s, y)
BY DEF AreStages, Replaces

(* The stages of a block that is not polled do not run.                    *)
LEMMA KeepFlushed ==
  ASSUME IInv, stack # <<>>, NEW y,
         \A p \in DOMAIN prog : \A k \in 0..Len(prog[p]) :
           /\ Inner(y, p, k) <=> Inner(st, p, k)
           /\ p = Top.p \/ y[p][k].buf = st[p][k].buf
  PROVE  BlocksFlushed(prog, y)
<1> SUFFICES ASSUME NEW q \in DOMAIN prog, NEW j \in 1..Len(prog[q]), Append(q, j) \in DOMAIN prog,
                    ~ Inner(y, q, j), NEW k \in 0..Len(prog[Append(q, j)])
             PROVE  y[Append(q, j)][k].buf = <<>>
  BY DEF BlocksFlushed
<1>1. ~ Inner(st, q, j)
  OBVIOUS
<1>2. Append(q, j) # Top.p
  BY <1>1, Running
<1>3. st[Append(q, j)][k].buf = <<>>
  BY <1>1 DEF IInv, BlocksFlushed
<1> QED
  BY <1>2, <1>3

LEMMA SteadySame ==
  ASSUME IInv, st' = st
  PROVE  Steady(st')
BY DEF Steady, IInv, TypeInv, SameFlags

LEMMA SteadySet ==
  ASSUME IInv, stack # <<>>, NEW s, SetStage(s), Keeps(prog, doc, Top.p, Top.k, St, s)
  PROVE  Steady(st')
<1>1. /\ AreStages(prog, doc, st) /\ Top.p \in DOMAIN prog /\ Top.k \in 0..Len(prog[Top.p])
      /\ St = st[Top.p][Top.k]
  BY Running DEF IInv, TypeInv
<1> DEFINE y == st'
           p == Top.p
           k == Top.k
<1>2. y = [st EXCEPT ![p][k] = s]
  BY DEF SetStage
<1> HIDE DEF y, p, k
<1>3. /\ DOMAIN y = DOMAIN prog
      /\ \A q \in DOMAIN prog :
           /\ DOMAIN y[q] = 0..Len(prog[q])
           /\ \A j \in 0..Len(prog[q]) : y[q][j] = IF q = p /\ j = k THEN s ELSE st[q][j]
  <2>1. p \in DOMAIN prog /\ k \in 0..Len(prog[p])
    BY <1>1 DEF p, k
  <2>2. Replaces(prog, st, p, k, s, y)
    BY <1>1, <1>2, <2>1, Put
  <2> QED
    BY <2>2 DEF Replaces
<1>4. AreStages(prog, doc, y)
  BY <1>1, <1>3 DEF AreStages, Keeps, p, k
<1>5. SameFlags(prog, st, y)
  <2>1. \A q \in DOMAIN prog : \A j \in 0..Len(prog[q]) :
          y[q][j].inner = st[q][j].inner /\ y[q][j].fused = st[q][j].fused
    BY <1>1, <1>3 DEF Keeps, p, k
  <2> QED
    BY <2>1 DEF SameFlags, Inner, Fused
<1>6. BlocksFlushed(prog, y)
  BY <1>3, <1>5, KeepFlushed DEF SameFlags, p
<1> QED
  BY <1>4, <1>5, <1>6 DEF Steady, y

(* A write keeps what the stage is, and the writer within its capacity.    *)
LEMMA Writes ==
  ASSUME IInv, stack # <<>>, Top.k > 0, NEW s, Keeps(prog, doc, Top.p, Top.k, St, s),
         NEW r \in Records, Write(s, r)
  PROVE  Steady(st')
<1> DEFINE short == [s EXCEPT !.buf = <<r>>]
           long  == [s EXCEPT !.buf = Append(@, r)]
<1>1. IsStage(prog, doc, Top.p, Top.k, s)
  BY DEF Keeps
<1>2. s.buf \in Seq(Records) /\ Len(s.buf) <= BufCap /\ Len(s.buf) \in Nat
  BY <1>1, StageIs
<1>3. BufCap \in Nat \ {0}
  BY PipelineAssumption
<1>4. /\ <<r>> \in Seq(Records) /\ Len(<<r>>) <= BufCap
      /\ Append(s.buf, r) \in Seq(Records)
      /\ ~ Len(s.buf) >= BufCap => Len(Append(s.buf, r)) <= BufCap
  <2>1. <<r>> \in Seq(Records) /\ Len(<<r>>) = 1
    OBVIOUS
  <2>2. Append(s.buf, r) \in Seq(Records) /\ Len(Append(s.buf, r)) = Len(s.buf) + 1
    BY <1>2
  <2> QED
    BY <1>3, <1>2, <2>1, <2>2
<1>5. \A b \in Seq(Records) : Len(b) <= BufCap => Keeps(prog, doc, Top.p, Top.k, St, [s EXCEPT !.buf = b])
  <2> SUFFICES ASSUME NEW b \in Seq(Records), Len(b) <= BufCap
               PROVE  Keeps(prog, doc, Top.p, Top.k, St, [s EXCEPT !.buf = b])
    OBVIOUS
  <2>1. Keeps(prog, doc, Top.p, Top.k, s, [s EXCEPT !.buf = b])
    BY <1>1, Rebuffered
  <2> QED
    BY <2>1, Zenon DEF Keeps
<1>6. Keeps(prog, doc, Top.p, Top.k, St, short) /\ (~ Len(s.buf) >= BufCap => Keeps(prog, doc, Top.p, Top.k, St, long))
  BY <1>1, <1>4, <1>5
<1>7. CASE Len(s.buf) >= BufCap
  <2>1. SetStage(short)
    BY <1>7 DEF Write
  <2> HIDE DEF short
  <2> QED
    BY <1>6, <2>1, SteadySet
<1>8. CASE ~ Len(s.buf) >= BufCap
  <2>1. SetStage(long)
    BY <1>8 DEF Write
  <2> HIDE DEF long
  <2> QED
    BY <1>6, <1>8, <2>1, SteadySet
<1> QED
  BY <1>7, <1>8

(* A step that leaves the stack and the register alone.                    *)
LEMMA StayStep ==
  ASSUME IInv, Steady(st'), prog' = prog, stack' = stack, reg' = reg, reg # End
  PROVE  MachineInv'
<1>1. IsProgram(prog)
  BY PipelineAssumption DEF IInv, TypeInv
<1>2. Machine(prog, stack, st')
  BY <1>1, KeepFlags DEF IInv, MachineInv, Steady
<1> QED
  BY <1>2 DEF MachineInv, IInv

(* What is left to show when the machine stays intact.                     *)
Rest == flag \in BOOLEAN /\ Len(error) \in {0, 1} /\ pc \in {"run", "done", "failed", "panicked"}

LEMMA RestIs ==
  ASSUME IInv
  PROVE  Rest /\ (UNCHANGED <<flag, error>> /\ pc' \in {pc, "panicked"} => Rest')
BY DEF IInv, TypeInv, Rest

LEMMA StepInv ==
  ASSUME IInv, UNCHANGED <<prog, doc>>, MachineInv', AreStages(prog, doc, st'),
         BlocksFlushed(prog, st'), reg' \in Regs(doc), Rest'
  PROVE  IInv'
BY DEF IInv, TypeInv, Rest

LEMMA SteadyInv ==
  ASSUME IInv, UNCHANGED <<prog, doc>>, MachineInv', Steady(st'), reg' \in Regs(doc), Rest'
  PROVE  IInv'
BY StepInv DEF Steady

LEMMA ReplyViewInv ==
  ASSUME IInv, stack # <<>>, Top.wait # "collect", Steady(st'), UNCHANGED <<prog, doc>>,
         NEW v \in GoodViews(doc), Reply(Some(v)), Rest'
  PROVE  IInv'
<1> DEFINE r == Some(v)
<1>1. r \in Regs(doc) /\ r # Poll /\ r # End /\ Reply(r)
  BY RegsAre
<1> HIDE DEF r
<1>2. MachineInv'
  BY <1>1, ReplyStep
<1>3. reg' \in Regs(doc)
  BY <1>1 DEF Reply
<1> QED
  BY <1>2, <1>3, SteadyInv

LEMMA ReplyEndInv ==
  ASSUME IInv, stack # <<>>, Top.wait # "collect", Steady(st'), UNCHANGED <<prog, doc>>,
         Reply(End), Quiet(st, Top.p, Top.k), Rest'
  PROVE  IInv'
<1>1. End \in Regs(doc) /\ End # Poll
  BY RegsAre
<1>2. MachineInv'
  BY <1>1, ReplyStep
<1>3. reg' \in Regs(doc)
  BY <1>1 DEF Reply
<1> QED
  BY <1>2, <1>3, SteadyInv

LEMMA AgainInv ==
  ASSUME IInv, stack # <<>>, Top.wait # "collect", Steady(st'), UNCHANGED <<prog, doc>>,
         Again, Rest'
  PROVE  IInv'
<1>1. MachineInv'
  BY SteadyPop, AgainStep
<1>2. reg' \in Regs(doc)
  BY RegsAre DEF Again
<1> QED
  BY <1>1, <1>2, SteadyInv

LEMMA PollUpInv ==
  ASSUME IInv, stack # <<>>, Top.wait # "collect", Steady(st'), UNCHANGED <<prog, doc>>,
         Top.k > 0, Cmd.op # "r", ~ Inner(st, Top.p, Top.k), ~ Fused(st, Top.p, Top.k), PollUp, Rest'
  PROVE  IInv'
<1>1. MachineInv'
  BY PollUpStep
<1>2. reg' \in Regs(doc)
  BY RegsAre DEF PollUp
<1> QED
  BY <1>1, <1>2, SteadyInv

LEMMA PollBlockInv ==
  ASSUME IInv, stack # <<>>, Top.wait # "collect", Steady(st'), UNCHANGED <<prog, doc>>,
         Top.k > 0, Cmd.op \in BlockOps, Inner(st, Top.p, Top.k), PollBlock, Rest'
  PROVE  IInv'
<1>1. MachineInv'
  BY PollBlockStep
<1>2. reg' \in Regs(doc)
  BY RegsAre DEF PollBlock
<1> QED
  BY <1>1, <1>2, SteadyInv

LEMMA StayInv ==
  ASSUME IInv, Steady(st'), UNCHANGED <<prog, doc, stack, reg>>, reg # End, Rest'
  PROVE  IInv'
<1>1. MachineInv'
  BY StayStep
<1>2. reg' \in Regs(doc)
  BY DEF IInv, TypeInv
<1> QED
  BY <1>1, <1>2, SteadyInv

LEMMA Requeued ==
  ASSUME NEW pr, NEW d, NEW p, NEW k, NEW s, IsStage(pr, d, p, k, s), NEW q \in Seq(GoodViews(d))
  PROVE  Keeps(pr, d, p, k, s, [s EXCEPT !.queue = q])
<1> DEFINE t == [s EXCEPT !.queue = q]
<1>1. s \in StageStates(d)
  BY DEF IsStage
<1>2. t \in StageStates(d) /\ t.buf = s.buf /\ t.held = s.held
  BY <1>1 DEF StageStates
<1>3. t.inner = s.inner
  BY <1>1, Zenon DEF StageStates
<1>4. t.fused = s.fused
  BY <1>1, Zenon DEF StageStates
<1> HIDE DEF t
<1>5. IsStage(pr, d, p, k, t)
  BY <1>2, <1>3 DEF IsStage
<1> QED
  BY <1>3, <1>4, <1>5 DEF t, Keeps

LEMMA Reheld ==
  ASSUME NEW pr, NEW d, NEW p, NEW k, NEW s, IsStage(pr, d, p, k, s), NEW h \in Seq(GoodViews(d)),
         k > 0 /\ pr[p][k].op = "/" => h # <<>>
  PROVE  Keeps(pr, d, p, k, s, [s EXCEPT !.held = h])
<1> DEFINE t == [s EXCEPT !.held = h]
<1>1. s \in StageStates(d)
  BY DEF IsStage
<1>2. t \in StageStates(d) /\ t.buf = s.buf /\ t.held = h
  BY <1>1 DEF StageStates
<1>3. t.inner = s.inner
  BY <1>1, Zenon DEF StageStates
<1>4. t.fused = s.fused
  BY <1>1, Zenon DEF StageStates
<1> HIDE DEF t
<1>5. IsStage(pr, d, p, k, t)
  BY <1>2, <1>3 DEF IsStage
<1> QED
  BY <1>3, <1>4, <1>5 DEF t, Keeps


-----------------------------------------------------------------------------
(* The actions, one lemma each.                                            *)

LEMMA PlainOp ==
  ASSUME IInv, stack # <<>>, Top.k > 0
  PROVE  /\ Cmd.op \notin BlockOps => ~ Inner(st, Top.p, Top.k)
         /\ Cmd.op \notin FlatMapOps => ~ Fused(st, Top.p, Top.k)
<1>1. /\ FlagOps(prog, st) /\ Top.p \in DOMAIN prog /\ Top.k \in 0..Len(prog[Top.p])
      /\ Cmd = prog[Top.p][Top.k]
  BY Running DEF Flags
<1> QED
  BY <1>1 DEF FlagOps

LEMMA QuietAt ==
  ASSUME NEW x, NEW p, NEW k \in Nat, Quiet(x, p, k - 1), k > 0 => ~ Inner(x, p, k)
  PROVE  Quiet(x, p, k)
<1>1. \A j \in 1..k : j \in 1..(k - 1) \/ (j = k /\ k > 0)
  OBVIOUS
<1> QED
  BY <1>1 DEF Quiet

LEMMA PolledIs ==
  ASSUME IInv, stack # <<>>, reg = Poll
  PROVE  Top.wait = "" /\ Top.wait # "collect" /\ reg # End
<1>1. Top.wait = ""
  BY Running DEF IInv, MachineInv
<1> QED
  BY <1>1, RegsAre

LEMMA ArrivedIs ==
  ASSUME IInv, NEW op, NEW kind \in {"some", "none"}, Arrived(op, kind)
  PROVE  /\ stack # <<>> /\ Top.wait # "collect" /\ Top.k > 0 /\ Cmd.op = op
         /\ ~ Inner(st, Top.p, Top.k) /\ ~ Fused(st, Top.p, Top.k)
         /\ reg # Poll
         /\ kind = "some" => reg.view \in GoodViews(doc) /\ reg = Some(reg.view) /\ reg # End
         /\ kind = "none" => /\ reg = End /\ Quiet(st, Top.p, Top.k - 1)
                             /\ Quiet(st, Top.p, Top.k)
<1>1. stack # <<>> /\ reg.kind = kind /\ Top.k > 0 /\ Top.wait = "up" /\ Cmd.op = op
  BY DEF Arrived
<1>2. ~ Inner(st, Top.p, Top.k) /\ ~ Fused(st, Top.p, Top.k) /\ Top = Last(stack) /\ Top.k \in Nat
  BY <1>1, Running
<1>3. reg \in Regs(doc)
  BY DEF IInv, TypeInv
<1>4. /\ kind = "some" => reg.view \in GoodViews(doc) /\ reg = Some(reg.view)
      /\ kind = "none" => reg = End
  BY <1>1, <1>3, RegsAre
<1>5. reg # Poll /\ (kind = "some" => reg # End)
  BY <1>1, RegsAre
<1>6. ASSUME kind = "none" PROVE Quiet(st, Top.p, Top.k - 1) /\ Quiet(st, Top.p, Top.k)
  <2>1. EndQuiet(prog, stack, st)
    BY <1>4, <1>6 DEF IInv, MachineInv
  <2>2. Quiet(st, Top.p, Top.k - 1)
    BY <1>1, <1>2, <2>1 DEF EndQuiet
  <2> QED
    BY <1>2, <2>2, QuietAt
<1> QED
  BY <1>1, <1>2, <1>4, <1>5, <1>6

LEMMA HeadTail ==
  ASSUME NEW S, NEW q \in Seq(S), q # <<>>
  PROVE  Head(q) \in S /\ Tail(q) \in Seq(S)
BY EmptySeq

LEMMA NoQueue ==
  ASSUME IInv, stack # <<>>
  PROVE  Keeps(prog, doc, Top.p, Top.k, St, [St EXCEPT !.queue = <<>>])
<1>1. <<>> \in Seq(GoodViews(doc)) /\ IsStage(prog, doc, Top.p, Top.k, St)
  BY Running
<1> QED
  BY <1>1, Requeued

LEMMA PollSourceInv ==
  ASSUME IInv, PollSource
  PROVE  IInv'
<1>1. /\ stack # <<>> /\ reg = Poll /\ Top.k = 0 /\ SetStage([St EXCEPT !.queue = <<>>])
      /\ UNCHANGED <<prog, doc, flag, error, pc>>
      /\ IF St.queue = <<>> THEN Reply(End) ELSE Reply(Some(Head(St.queue)))
  BY DEF PollSource, Effects
<1>2. Steady(st') /\ Rest' /\ Top.wait # "collect"
  BY <1>1, NoQueue, SteadySet, RestIs, PolledIs
<1>3. CASE St.queue = <<>>
  <2>1. Quiet(st, Top.p, Top.k)
    BY <1>1 DEF Quiet
  <2> QED
    BY <1>1, <1>2, <1>3, <2>1, ReplyEndInv
<1>4. CASE St.queue # <<>>
  <2> DEFINE v == Head(St.queue)
  <2>1. v \in GoodViews(doc) /\ Reply(Some(v))
    BY <1>1, <1>4, Running, StageIs, HeadTail
  <2> HIDE DEF v
  <2> QED
    BY <1>1, <1>2, <2>1, ReplyViewInv
<1> QED
  BY <1>3, <1>4

LEMMA PollThroughInv ==
  ASSUME IInv, PollThrough
  PROVE  IInv'
<1>1. /\ stack # <<>> /\ reg = Poll /\ Top.k > 0 /\ PollUp
      /\ Cmd.op \in {"g", "v", "+", "-", "s", "c", "p", "=", "N"}
      /\ UNCHANGED <<prog, doc, st, flag, error, pc>>
  BY DEF PollThrough, Polled, Effects
<1>2. Cmd.op \notin BlockOps /\ Cmd.op \notin FlatMapOps /\ Cmd.op # "r"
  BY <1>1 DEF BlockOps, FlatMapOps
<1> QED
  BY <1>1, <1>2, PlainOp, PolledIs, SteadySame, RestIs, PollUpInv

LEMMA PollBinderInv ==
  ASSUME IInv, PollBinder
  PROVE  IInv'
<1>1. /\ stack # <<>> /\ reg = Poll /\ Top.k > 0 /\ Cmd.op = "/"
      /\ IF St.inner THEN PollBlock ELSE PollUp
      /\ UNCHANGED <<prog, doc, st, flag, error, pc>>
  BY DEF PollBinder, Polled, Effects
<1>2. Cmd.op \in BlockOps /\ Cmd.op \notin FlatMapOps /\ Cmd.op # "r"
  BY <1>1 DEF BlockOps, FlatMapOps
<1>3. Steady(st') /\ Rest' /\ Top.wait # "collect" /\ ~ Fused(st, Top.p, Top.k)
  BY <1>1, <1>2, PlainOp, PolledIs, SteadySame, RestIs
<1>4. St.inner <=> Inner(st, Top.p, Top.k)
  BY DEF St, Inner
<1>5. CASE Inner(st, Top.p, Top.k)
  BY <1>1, <1>2, <1>3, <1>4, <1>5, PollBlockInv
<1>6. CASE ~ Inner(st, Top.p, Top.k)
  BY <1>1, <1>2, <1>3, <1>4, <1>6, PollUpInv
<1> QED
  BY <1>5, <1>6

LEMMA PollReduceInv ==
  ASSUME IInv, PollReduce
  PROVE  IInv'
<1>1. /\ stack # <<>> /\ reg = Poll /\ Top.k > 0 /\ Cmd.op = "r"
      /\ SetStage([St EXCEPT !.queue = <<>>])
      /\ UNCHANGED <<prog, doc, flag, error, pc>>
      /\ IF St.queue = <<>> THEN Reply(End) ELSE Reply(Some(Head(St.queue)))
  BY DEF PollReduce, Polled, Effects
<1>2. Steady(st') /\ Rest' /\ Top.wait # "collect"
  BY <1>1, NoQueue, SteadySet, RestIs, PolledIs
<1>3. CASE St.queue = <<>>
  <2>1. ~ Inner(st, Top.p, Top.k)
    BY <1>1, PlainOp DEF BlockOps
  <2>2. /\ Top.p \in DOMAIN prog /\ Top.k \in 0..Len(prog[Top.p]) /\ Top.k \in Nat
        /\ Top = Last(stack) /\ IsStack(prog, stack) /\ IsProgram(prog)
        /\ Reduced(prog, stack, st) /\ Cmd = prog[Top.p][Top.k]
    BY <1>1, Running
  <2>3. Reducer(prog, Top.p, Top.k)
    BY <1>1, <2>2 DEF Reducer
  <2>4. ~ CollectedBefore(stack, Top.p, Top.k)
    <3>1. Len(stack) \in 1..Len(stack) /\ Top = stack[Len(stack)]
      BY <1>1, <2>2, StackFrames
    <3> SUFFICES ASSUME NEW j \in 1..Len(stack), stack[j].p = Top.p, stack[j].wait = "collect",
                        stack[j].k <= Top.k
                 PROVE  FALSE
      BY DEF CollectedBefore
    <3>2. j < Len(stack)
      BY <1>2, <3>1
    <3>3. Top.k < stack[j].k /\ stack[j].k \in Nat
      BY <2>2, <3>1, <3>2, StackFrames, FrameOf DEF IsStack, Descends
    <3> QED
      BY <2>2, <3>3
  <2>5. Quiet(st, Top.p, Top.k - 1)
    BY <2>2, <2>3, <2>4 DEF Reduced
  <2>6. Quiet(st, Top.p, Top.k)
    BY <2>1, <2>2, <2>5, QuietAt
  <2> QED
    BY <1>1, <1>2, <1>3, <2>6, ReplyEndInv
<1>4. CASE St.queue # <<>>
  <2> DEFINE v == Head(St.queue)
  <2>1. v \in GoodViews(doc) /\ Reply(Some(v))
    BY <1>1, <1>4, Running, StageIs, HeadTail
  <2> HIDE DEF v
  <2> QED
    BY <1>1, <1>2, <2>1, ReplyViewInv
<1> QED
  BY <1>3, <1>4

LEMMA PassEndInv ==
  ASSUME IInv, PassEnd
  PROVE  IInv'
<1>1. /\ UNCHANGED <<prog, doc, st, flag, error, pc>> /\ Reply(End)
      /\ \E op : Arrived(op, "none")
  BY DEF PassEnd, Effects
<1>2. Quiet(st, Top.p, Top.k) /\ stack # <<>> /\ Top.wait # "collect"
  BY <1>1, ArrivedIs
<1> QED
  BY <1>1, <1>2, SteadySame, RestIs, ReplyEndInv

LEMMA SplitInv ==
  ASSUME IInv, Split
  PROVE  IInv'
<1> DEFINE q == IF Cmd.op = "x" THEN Extracted(Cmd.re, reg.view) ELSE Yanked(Cmd.re, reg.view)
<1>1. /\ UNCHANGED <<prog, doc, flag, error, pc>> /\ Again
      /\ SetStage([St EXCEPT !.queue = q])
      /\ \E op : Arrived(op, "some")
  BY DEF Split, Effects
<1>2. stack # <<>> /\ Top.wait # "collect" /\ reg.view \in GoodViews(doc)
  BY <1>1, ArrivedIs
<1>3. doc \in Texts /\ IsStage(prog, doc, Top.p, Top.k, St)
  BY <1>2, Running
<1>4. q \in Seq(GoodViews(doc))
  BY <1>2, <1>3, ExtractedGood, YankedGood
<1> HIDE DEF q
<1>5. Keeps(prog, doc, Top.p, Top.k, St, [St EXCEPT !.queue = q])
  BY <1>3, <1>4, Requeued
<1>6. Steady(st')
  BY <1>1, <1>2, <1>5, SteadySet
<1> QED
  BY <1>1, <1>2, <1>6, RestIs, AgainInv

LEMMA MapViewInv ==
  ASSUME IInv, MapView
  PROVE  IInv'
<1> DEFINE q == Extracted(Cmd.re, reg.view)
<1>1. /\ UNCHANGED <<prog, doc, flag, error, pc>> /\ Again
      /\ SetStage([St EXCEPT !.queue = q])
      /\ Arrived("m", "some")
  BY DEF MapView, Effects
<1>2. stack # <<>> /\ Top.wait # "collect" /\ reg.view \in GoodViews(doc)
  BY <1>1, ArrivedIs
<1>3. doc \in Texts /\ IsStage(prog, doc, Top.p, Top.k, St)
  BY <1>2, Running
<1>4. q \in Seq(GoodViews(doc))
  BY <1>2, <1>3, ExtractedGood
<1> HIDE DEF q
<1>5. Keeps(prog, doc, Top.p, Top.k, St, [St EXCEPT !.queue = q])
  BY <1>3, <1>4, Requeued
<1>6. Steady(st')
  BY <1>1, <1>2, <1>5, SteadySet
<1> QED
  BY <1>1, <1>2, <1>6, RestIs, AgainInv

(* A view's addresses.                                                     *)
LEMMA ViewIs ==
  ASSUME NEW d \in Texts, NEW v \in GoodViews(d)
  PROVE  /\ v \in Views /\ v.text \in Texts /\ Len(v.text) \in Nat
         /\ v.at \in Nat /\ EndOf(v) \in Nat /\ v.at <= EndOf(v) /\ EndOf(v) = v.at + Len(v.text)
         /\ Len(d) < Foreign /\ v.at <= Len(d) => EndOf(v) <= Len(d)
<1>1. v \in Views /\ (EndOf(v) <= Len(d) \/ v.at >= Foreign) /\ Len(d) \in Nat /\ Foreign \in Nat
  BY PipelineAssumption DEF GoodViews, Texts
<1>2. v.at \in Nat /\ v.text \in Texts /\ Len(v.text) \in Nat
  BY <1>1 DEF Views, Texts
<1> QED
  BY <1>1, <1>2 DEF EndOf

LEMMA ExpandInv ==
  ASSUME IInv, Expand
  PROVE  IInv'
<1>1. /\ UNCHANGED <<prog, doc, st, flag, error>> /\ Arrived("+", "some")
      /\ IF reg.view.at > Len(doc)
         THEN pc' = "panicked" /\ UNCHANGED <<stack, reg>>
         ELSE /\ Reply(Some(Slice(View(0, doc), Expanded(doc, reg.view.at, EndOf(reg.view)))))
              /\ UNCHANGED pc
  BY DEF Expand, Effects
<1>2. stack # <<>> /\ Top.wait # "collect" /\ reg.view \in GoodViews(doc) /\ reg # End
  BY <1>1, ArrivedIs
<1>3. doc \in Texts /\ Len(doc) < Foreign /\ Len(doc) \in Nat
  BY <1>2, Running
<1>4. Steady(st')
  BY <1>1, SteadySame
<1>5. CASE reg.view.at > Len(doc)
  BY <1>1, <1>2, <1>4, <1>5, RestIs, StayInv
<1>6. CASE ~ reg.view.at > Len(doc)
  <2> DEFINE whole == View(0, doc)
             span == Expanded(doc, reg.view.at, EndOf(reg.view))
             v == Slice(whole, span)
  <2>1. /\ reg.view.at \in Nat /\ EndOf(reg.view) \in Nat /\ reg.view.at <= EndOf(reg.view)
        /\ EndOf(reg.view) <= Len(doc)
    BY <1>2, <1>3, <1>6, ViewIs
  <2>2. span \in SpansIn(Len(doc))
    BY <1>3, <2>1, ExpandedSpan
  <2>3. whole \in GoodViews(doc) /\ whole.text = doc
    BY <1>3, WholeGood DEF View
  <2>4. Reply(Some(v)) /\ Rest'
    BY <1>1, <1>6, RestIs
  <2> HIDE DEF whole, span
  <2>5. v \in GoodViews(doc)
    BY <1>3, <2>2, <2>3, SliceGood
  <2> HIDE DEF v
  <2> QED
    BY <1>1, <1>2, <1>4, <2>4, <2>5, ReplyViewInv
<1> QED
  BY <1>5, <1>6

LEMMA CollapseInv ==
  ASSUME IInv, Collapse
  PROVE  IInv'
<1> DEFINE inner == Collapsed(reg.view.text)
           v == Slice(reg.view, inner[1])
<1>1. /\ UNCHANGED <<prog, doc, st, flag, error, pc>> /\ Arrived("-", "some")
      /\ IF inner = <<>> THEN Again ELSE Reply(Some(v))
  BY DEF Collapse, Effects
<1>2. stack # <<>> /\ Top.wait # "collect" /\ reg.view \in GoodViews(doc)
  BY <1>1, ArrivedIs
<1>3. doc \in Texts /\ reg.view.text \in Texts
  BY <1>2, Running, ViewIs
<1>4. Steady(st') /\ Rest'
  BY <1>1, SteadySame, RestIs
<1>5. inner # <<>> => v \in GoodViews(doc)
  BY <1>2, <1>3, CollapsedSpan, SliceGood
<1> HIDE DEF inner, v
<1>6. CASE inner = <<>>
  BY <1>1, <1>2, <1>4, <1>6, AgainInv
<1>7. CASE inner # <<>>
  BY <1>1, <1>2, <1>4, <1>5, <1>7, ReplyViewInv
<1> QED
  BY <1>6, <1>7

LEMMA FilterInv ==
  ASSUME IInv, Filter
  PROVE  IInv'
<1>1. /\ UNCHANGED <<prog, doc, st, flag, error, pc>> /\ \E op : Arrived(op, "some")
      /\ Reply(reg) \/ Again
  BY DEF Filter, Effects
<1>2. /\ stack # <<>> /\ Top.wait # "collect" /\ reg.view \in GoodViews(doc)
      /\ reg = Some(reg.view)
  BY <1>1, ArrivedIs
<1>3. Steady(st') /\ Rest'
  BY <1>1, SteadySame, RestIs
<1>4. CASE Again
  BY <1>1, <1>2, <1>3, <1>4, AgainInv
<1>5. CASE Reply(reg)
  <2> DEFINE v == reg.view
  <2>1. v \in GoodViews(doc) /\ Reply(Some(v))
    BY <1>2, <1>5
  <2> HIDE DEF v
  <2> QED
    BY <1>1, <1>2, <1>3, <2>1, ReplyViewInv
<1> QED
  BY <1>1, <1>4, <1>5

(* A view that passes as it is.                                            *)
LEMMA PassView ==
  ASSUME IInv, NEW op, Arrived(op, "some"), Reply(reg), Steady(st'), UNCHANGED <<prog, doc>>, Rest'
  PROVE  IInv'
<1>1. /\ stack # <<>> /\ Top.wait # "collect" /\ reg.view \in GoodViews(doc)
      /\ reg = Some(reg.view)
  BY ArrivedIs
<1> DEFINE v == reg.view
<1>2. v \in GoodViews(doc) /\ Reply(Some(v))
  BY <1>1
<1> HIDE DEF v
<1> QED
  BY <1>1, <1>2, ReplyViewInv

LEMMA SubstituteInv ==
  ASSUME IInv, Substitute
  PROVE  IInv'
<1>1. /\ UNCHANGED <<prog, doc, st, error, pc>> /\ Arrived("s", "some") /\ Reply(reg)
      /\ \E new : flag' = (flag \/ new # <<>>)
  BY DEF Substitute
<1>2. flag' \in BOOLEAN
  BY <1>1 DEF IInv, TypeInv
<1>3. Rest'
  BY <1>1, <1>2, RestIs DEF Rest
<1> QED
  BY <1>1, <1>3, SteadySame, PassView

LEMMA ChangeInv ==
  ASSUME IInv, Change
  PROVE  IInv'
<1> DEFINE v == View(Foreign, ChangeText)
<1>1. /\ UNCHANGED <<prog, doc, st, flag, error, pc>> /\ Arrived("c", "some") /\ Reply(Some(v))
  BY DEF Change
<1>2. ChangeText \in Texts
  BY PipelineAssumption DEF ChangeText, Texts
<1>3. v \in GoodViews(doc)
  BY <1>2, ForeignGood
<1> HIDE DEF v
<1> QED
  BY <1>1, <1>3, ArrivedIs, SteadySame, RestIs, ReplyViewInv

LEMMA RecordIn ==
  ASSUME IInv, stack # <<>>, NEW what \in Ops \cup {"BEGIN", "record", "END"}, NEW v \in Views
  PROVE  Record(what, v) \in Records
<1>1. IsProgram(prog) /\ Top \in Frames(prog)
  BY Running
<1>2. At \in Seq(Nat) \X Nat
  BY <1>1, FrameOf DEF At
<1> QED
  BY <1>2 DEF Record, Records

LEMMA SelfKeeps ==
  ASSUME IInv, stack # <<>>
  PROVE  Keeps(prog, doc, Top.p, Top.k, St, St)
BY Running DEF Keeps

LEMMA PrintViewInv ==
  ASSUME IInv, PrintView
  PROVE  IInv'
<1> DEFINE r == Record(Cmd.op, reg.view)
<1>1. /\ UNCHANGED <<prog, doc, flag, error, pc>> /\ Reply(reg) /\ Write(St, r)
      /\ \E op \in {"p", "="} : Arrived(op, "some")
  BY DEF PrintView
<1>2. PICK op \in {"p", "="} : Arrived(op, "some")
  BY <1>1
<1>3. /\ stack # <<>> /\ Top.k > 0 /\ reg.view \in GoodViews(doc) /\ Cmd.op \in Ops
  BY <1>2, ArrivedIs DEF Ops
<1>4. r \in Records
  BY <1>3, RecordIn DEF GoodViews
<1> HIDE DEF r
<1>5. Steady(st')
  BY <1>1, <1>3, <1>4, SelfKeeps, Writes
<1> QED
  BY <1>1, <1>2, <1>5, RestIs, PassView

LEMMA NextFirstInv ==
  ASSUME IInv, NextFirst
  PROVE  IInv'
<1> DEFINE h == <<reg.view>>
<1>1. /\ UNCHANGED <<prog, doc, flag, error, pc>> /\ Arrived("N", "some") /\ PollUp
      /\ SetStage([St EXCEPT !.held = h])
  BY DEF NextFirst, Effects
<1>2. /\ stack # <<>> /\ Top.wait # "collect" /\ Top.k > 0 /\ reg.view \in GoodViews(doc)
      /\ Cmd.op = "N" /\ Cmd.op # "r"
      /\ ~ Inner(st, Top.p, Top.k) /\ ~ Fused(st, Top.p, Top.k)
  BY <1>1, ArrivedIs
<1>3. h \in Seq(GoodViews(doc)) /\ h # <<>>
  BY <1>2
<1> HIDE DEF h
<1>4. IsStage(prog, doc, Top.p, Top.k, St)
  BY <1>2, Running
<1>5. Keeps(prog, doc, Top.p, Top.k, St, [St EXCEPT !.held = h])
  BY <1>3, <1>4, Reheld
<1>6. Steady(st') /\ Rest'
  BY <1>1, <1>2, <1>5, SteadySet, RestIs
<1> QED
  BY <1>1, <1>2, <1>6, PollUpInv

(* N lets go of the view it holds.                                         *)
LEMMA NoHeld ==
  ASSUME IInv, stack # <<>>, Top.k > 0, Cmd.op = "N"
  PROVE  Keeps(prog, doc, Top.p, Top.k, St, [St EXCEPT !.held = <<>>])
<1>1. /\ <<>> \in Seq(GoodViews(doc)) /\ IsStage(prog, doc, Top.p, Top.k, St)
      /\ ~ prog[Top.p][Top.k].op = "/"
  BY Running
<1> QED
  BY <1>1, Reheld

LEMMA NextSecondInv ==
  ASSUME IInv, NextSecond
  PROVE  IInv'
<1> DEFINE h == St.held[1]
           v == Merged(h, reg.view)
           off == EndOf(reg.view) > Len(doc) \/ EndOf(h) > Len(doc)
<1>1. /\ UNCHANGED <<prog, doc, flag, error>> /\ Arrived("N", "some") /\ St.held # <<>>
      /\ IF off
         THEN pc' = "panicked" /\ UNCHANGED <<st, stack, reg>>
         ELSE /\ Reply(Some(v)) /\ UNCHANGED pc
              /\ SetStage([St EXCEPT !.held = <<>>])
  BY DEF NextSecond, Effects
<1>2. /\ stack # <<>> /\ Top.wait # "collect" /\ Top.k > 0 /\ reg.view \in GoodViews(doc)
      /\ Cmd.op = "N" /\ reg # End
  BY <1>1, ArrivedIs
<1>3. doc \in Texts /\ h \in GoodViews(doc)
  <2>1. doc \in Texts /\ St.held \in Seq(GoodViews(doc))
    BY <1>2, Running, StageIs
  <2>2. 1 \in 1..Len(St.held)
    BY <1>1, <2>1, EmptySeq
  <2> QED
    BY <2>1, <2>2
<1>4. CASE off
  <2>1. Steady(st') /\ Rest' /\ UNCHANGED <<stack, reg>>
    BY <1>1, <1>4, SteadySame, RestIs
  <2> QED
    BY <1>1, <1>2, <2>1, StayInv
<1>5. CASE ~ off
  <2>1. Reply(Some(v)) /\ UNCHANGED pc /\ SetStage([St EXCEPT !.held = <<>>])
    BY <1>1, <1>5
  <2>2. Steady(st') /\ Rest'
    BY <1>1, <1>2, <2>1, NoHeld, SteadySet, RestIs
  <2>3. v \in GoodViews(doc)
    <3>1. Len(doc) \in Nat /\ EndOf(h) \in Nat /\ EndOf(reg.view) \in Nat
      BY <1>2, <1>3, ViewIs DEF Texts
    <3>2. EndOf(h) <= Len(doc) /\ EndOf(reg.view) <= Len(doc)
      BY <1>5, <3>1
    <3> QED
      BY <1>2, <1>3, <3>2, MergedGood
  <2> HIDE DEF v
  <2> QED
    BY <1>1, <1>2, <2>1, <2>2, <2>3, ReplyViewInv
<1> QED
  BY <1>4, <1>5

LEMMA NextEndInv ==
  ASSUME IInv, NextEnd
  PROVE  IInv'
<1> DEFINE h == St.held[1]
<1>1. /\ UNCHANGED <<prog, doc, flag, error, pc>> /\ Arrived("N", "none")
      /\ IF St.held = <<>> THEN Reply(End) ELSE Reply(Some(h))
      /\ SetStage([St EXCEPT !.held = <<>>])
  BY DEF NextEnd, Effects, Reply
<1>2. /\ stack # <<>> /\ Top.wait # "collect" /\ Top.k > 0 /\ Cmd.op = "N"
      /\ Quiet(st, Top.p, Top.k)
  BY <1>1, ArrivedIs
<1>3. Steady(st') /\ Rest'
  BY <1>1, <1>2, NoHeld, SteadySet, RestIs
<1>4. St.held # <<>> => h \in GoodViews(doc)
  <2>1. St.held \in Seq(GoodViews(doc))
    BY <1>2, Running, StageIs
  <2>2. St.held # <<>> => 1 \in 1..Len(St.held)
    BY <2>1, EmptySeq
  <2> QED
    BY <2>1, <2>2
<1> HIDE DEF h
<1>5. CASE St.held = <<>>
  BY <1>1, <1>2, <1>3, <1>5, ReplyEndInv
<1>6. CASE St.held # <<>>
  BY <1>1, <1>2, <1>3, <1>4, <1>6, ReplyViewInv
<1> QED
  BY <1>5, <1>6

LEMMA RaiseRest ==
  ASSUME IInv, NEW fails, Raise(fails), UNCHANGED <<flag, pc>>
  PROVE  Rest'
<1>1. Len(<<At>>) = 1
  OBVIOUS
<1>2. Len(error') \in {0, 1}
  BY <1>1 DEF Raise, IInv, TypeInv
<1> QED
  BY <1>2, RestIs DEF Rest

(* The flags of an AwkRun.                                                 *)
LEMMA AwkFlags ==
  ASSUME NEW pr, NEW d, NEW p, NEW k, NEW s, IsStage(pr, d, p, k, s), NEW e \in BOOLEAN
  PROVE  /\ Keeps(pr, d, p, k, s, [s EXCEPT !.errored = e])
         /\ Keeps(pr, d, p, k, s, [s EXCEPT !.began = TRUE, !.errored = e])
         /\ Keeps(pr, d, p, k, s, [s EXCEPT !.ended = TRUE, !.errored = e])
<1> DEFINE good(t) == t \in StageStates(d) /\ t.buf = s.buf /\ t.held = s.held
<1>1. s \in StageStates(d)
  BY DEF IsStage
<1>2. ASSUME NEW t, good(t), t.inner = s.inner, t.fused = s.fused
      PROVE  Keeps(pr, d, p, k, s, t)
  <2>1. IsStage(pr, d, p, k, t)
    BY <1>2 DEF IsStage
  <2> QED
    BY <1>2, <2>1 DEF Keeps
<1>3. /\ good([s EXCEPT !.errored = e])
      /\ good([s EXCEPT !.began = TRUE, !.errored = e])
      /\ good([s EXCEPT !.ended = TRUE, !.errored = e])
  BY <1>1 DEF StageStates
<1>4. /\ [s EXCEPT !.errored = e].inner = s.inner
      /\ [s EXCEPT !.began = TRUE, !.errored = e].inner = s.inner
      /\ [s EXCEPT !.ended = TRUE, !.errored = e].inner = s.inner
  BY <1>1, Zenon DEF StageStates
<1>5. /\ [s EXCEPT !.errored = e].fused = s.fused
      /\ [s EXCEPT !.began = TRUE, !.errored = e].fused = s.fused
      /\ [s EXCEPT !.ended = TRUE, !.errored = e].fused = s.fused
  BY <1>1, Zenon DEF StageStates
<1> HIDE DEF good
<1>6. Keeps(pr, d, p, k, s, [s EXCEPT !.errored = e])
  BY <1>2, <1>3, <1>4, <1>5, Zenon
<1>7. Keeps(pr, d, p, k, s, [s EXCEPT !.began = TRUE, !.errored = e])
  BY <1>2, <1>3, <1>4, <1>5, Zenon
<1>8. Keeps(pr, d, p, k, s, [s EXCEPT !.ended = TRUE, !.errored = e])
  BY <1>2, <1>3, <1>4, <1>5, Zenon
<1> QED
  BY <1>6, <1>7, <1>8

LEMMA PollAwkInv ==
  ASSUME IInv, PollAwk
  PROVE  IInv'
<1> DEFINE fails == Cmd.re = "begin"
           s == [St EXCEPT !.began = TRUE, !.errored = fails]
           r == Record("BEGIN", NoView)
<1>1. /\ UNCHANGED <<prog, doc, pc>> /\ stack # <<>> /\ reg = Poll /\ Top.k > 0 /\ Cmd.op = "@"
      /\ \/ PollUp /\ UNCHANGED <<st, flag, error>>
         \/ Write(s, r) /\ Raise(fails) /\ UNCHANGED <<stack, reg, flag>>
  BY DEF PollAwk, Polled, Effects
<1>2. /\ ~ Inner(st, Top.p, Top.k) /\ ~ Fused(st, Top.p, Top.k)
      /\ Top.wait # "collect" /\ reg # End /\ Cmd.op # "r"
  BY <1>1, PlainOp, PolledIs DEF BlockOps, FlatMapOps
<1>3. CASE PollUp /\ UNCHANGED <<st, flag, error>>
  BY <1>1, <1>2, <1>3, SteadySame, RestIs, PollUpInv
<1>4. CASE Write(s, r) /\ Raise(fails) /\ UNCHANGED <<stack, reg, flag>>
  <2>1. NoView \in Views
    BY DEF NoView, View, Views, Texts
  <2>2. r \in Records
    BY <1>1, <2>1, RecordIn
  <2>3. IsStage(prog, doc, Top.p, Top.k, St) /\ fails \in BOOLEAN
    BY <1>1, Running
  <2>4. Keeps(prog, doc, Top.p, Top.k, St, s)
    BY <2>3, AwkFlags
  <2>5. Rest'
    BY <1>1, <1>4, RaiseRest
  <2> HIDE DEF s, r
  <2>6. Steady(st')
    BY <1>1, <1>4, <2>2, <2>4, Writes
  <2> QED
    BY <1>1, <1>2, <1>4, <2>5, <2>6, StayInv
<1> QED
  BY <1>1, <1>3, <1>4

LEMMA AwkViewInv ==
  ASSUME IInv, AwkView
  PROVE  IInv'
<1> DEFINE fails == Cmd.re = "record" /\ Contains(reg.view.text, "b")
           s == [St EXCEPT !.errored = fails]
           r == Record("record", reg.view)
<1>1. /\ UNCHANGED <<prog, doc, pc>> /\ Arrived("@", "some") /\ Reply(reg)
      /\ \/ UNCHANGED <<st, flag, error>>
         \/ Write(s, r) /\ Raise(fails) /\ UNCHANGED flag
  BY DEF AwkView, Effects
<1>2. stack # <<>> /\ Top.k > 0 /\ reg.view \in GoodViews(doc)
  BY <1>1, ArrivedIs
<1>3. CASE UNCHANGED <<st, flag, error>>
  BY <1>1, <1>3, SteadySame, RestIs, PassView
<1>4. CASE Write(s, r) /\ Raise(fails) /\ UNCHANGED flag
  <2>1. r \in Records
    BY <1>2, RecordIn DEF GoodViews
  <2>2. IsStage(prog, doc, Top.p, Top.k, St) /\ fails \in BOOLEAN
    BY <1>2, Running
  <2>3. Rest'
    BY <1>1, <1>4, RaiseRest
  <2> HIDE DEF fails
  <2>4. Keeps(prog, doc, Top.p, Top.k, St, s)
    BY <2>2, AwkFlags
  <2> HIDE DEF s, r
  <2>5. Steady(st')
    BY <1>2, <1>4, <2>1, <2>4, Writes
  <2> QED
    BY <1>1, <2>3, <2>5, PassView
<1> QED
  BY <1>1, <1>3, <1>4

LEMMA AwkEndInv ==
  ASSUME IInv, AwkEnd
  PROVE  IInv'
<1> DEFINE runs  == ~ St.ended /\ ~ St.errored
           fails == runs /\ Cmd.re = "end"
           e == St.errored \/ fails
           c == IF St.ended THEN St.buf ELSE <<>>
           t == [St EXCEPT !.ended = TRUE, !.errored = e]
           s == [St EXCEPT !.ended = TRUE, !.errored = e, !.buf = c]
<1>1. /\ UNCHANGED <<prog, doc, flag, pc>> /\ Arrived("@", "none") /\ Reply(End)
      /\ SetStage(s) /\ Raise(fails)
  BY DEF AwkEnd
<1>2. stack # <<>> /\ Top.wait # "collect" /\ Top.k > 0 /\ Quiet(st, Top.p, Top.k)
  BY <1>1, ArrivedIs
<1>3. IsStage(prog, doc, Top.p, Top.k, St) /\ e \in BOOLEAN
  BY <1>2, Running
<1>4. Rest'
  BY <1>1, RaiseRest
<1>5. c \in Seq(Records) /\ Len(c) <= BufCap
  <2>1. <<>> \in Seq(Records) /\ Len(<<>>) = 0 /\ 0 <= BufCap
    BY PipelineAssumption
  <2> QED
    BY <1>3, <2>1, StageIs
<1> HIDE DEF e, c
<1>6. Keeps(prog, doc, Top.p, Top.k, St, t)
  BY <1>3, AwkFlags
<1>7. s = [t EXCEPT !.buf = c]
  BY <1>3 DEF IsStage, StageStates
<1> HIDE DEF s, t
<1>8. Keeps(prog, doc, Top.p, Top.k, St, s)
  <2>1. IsStage(prog, doc, Top.p, Top.k, t)
    BY <1>6 DEF Keeps
  <2>2. Keeps(prog, doc, Top.p, Top.k, t, s)
    BY <1>2, <1>5, <1>7, <2>1, Rebuffered
  <2> QED
    BY <1>6, <2>2, Zenon DEF Keeps
<1>9. Steady(st')
  BY <1>1, <1>2, <1>8, SteadySet
<1> QED
  BY <1>1, <1>2, <1>4, <1>9, ReplyEndInv

(* What comes from the block that the last stage polls.                    *)
LEMMA FromBlockIs ==
  ASSUME IInv, NEW kind \in {"some", "none"}, FromBlock(kind)
  PROVE  /\ stack # <<>> /\ Top.wait = "block" /\ Top.wait # "collect" /\ Top.k > 0
         /\ Cmd.op \in BlockOps /\ Inner(st, Top.p, Top.k)
         /\ kind = "some" => reg.view \in GoodViews(doc) /\ reg = Some(reg.view)
         /\ kind = "none" => reg = End /\ Quiet(st, Block(Top), Len(prog[Block(Top)]))
<1>1. stack # <<>> /\ reg.kind = kind /\ Top.k > 0 /\ Top.wait = "block"
  BY DEF FromBlock
<1>2. /\ Inner(st, Top.p, Top.k) /\ Top = Last(stack) /\ Cmd.op = Op(prog, Top) /\ Fits(prog, Top)
  BY <1>1, Running
<1>3. Cmd.op \in BlockOps
  BY <1>1, <1>2 DEF Fits
<1>4. reg \in Regs(doc)
  BY DEF IInv, TypeInv
<1>5. /\ kind = "some" => reg.view \in GoodViews(doc) /\ reg = Some(reg.view)
      /\ kind = "none" => reg = End
  BY <1>1, <1>4, RegsAre
<1>6. ASSUME kind = "none" PROVE Quiet(st, Block(Top), Len(prog[Block(Top)]))
  <2>1. EndQuiet(prog, stack, st)
    BY <1>5, <1>6 DEF IInv, MachineInv
  <2> QED
    BY <1>1, <1>2, <2>1 DEF EndQuiet
<1> QED
  BY <1>1, <1>2, <1>3, <1>5, <1>6

LEMMA BlockViewInv ==
  ASSUME IInv, BlockView
  PROVE  IInv'
<1> DEFINE h == Append(St.held, reg.view)
           v == reg.view
<1>1. /\ UNCHANGED <<prog, doc, flag, error, pc>> /\ FromBlock("some")
      /\ Cmd.op \in {"group", "m"} => Reply(reg) /\ UNCHANGED st
      /\ Cmd.op = "/" => PollBlock /\ UNCHANGED st
      /\ Cmd.op = "t" => PollBlock /\ SetStage([St EXCEPT !.held = h])
  BY DEF BlockView, Effects
<1>2. /\ stack # <<>> /\ Top.wait # "collect" /\ Top.k > 0 /\ Cmd.op \in BlockOps
      /\ Inner(st, Top.p, Top.k) /\ v \in GoodViews(doc) /\ reg = Some(v)
  BY <1>1, FromBlockIs
<1>3. IsStage(prog, doc, Top.p, Top.k, St) /\ Cmd = prog[Top.p][Top.k]
  BY <1>2, Running
<1>4. h \in Seq(GoodViews(doc))
  BY <1>2, <1>3, StageIs
<1>5. Rest'
  BY <1>1, RestIs
<1> HIDE DEF h, v
<1>6. CASE Cmd.op \in {"group", "m"}
  <2>1. Reply(Some(v)) /\ Steady(st')
    BY <1>1, <1>2, <1>6, SteadySame
  <2> QED
    BY <1>1, <1>2, <1>5, <2>1, ReplyViewInv
<1>7. CASE Cmd.op = "/"
  BY <1>1, <1>2, <1>5, <1>7, SteadySame, PollBlockInv
<1>8. CASE Cmd.op = "t"
  <2>1. ~ prog[Top.p][Top.k].op = "/"
    BY <1>3, <1>8
  <2>2. Keeps(prog, doc, Top.p, Top.k, St, [St EXCEPT !.held = h])
    BY <1>3, <1>4, <2>1, Reheld
  <2>3. Steady(st')
    BY <1>1, <1>2, <1>8, <2>2, SteadySet
  <2> QED
    BY <1>1, <1>2, <1>5, <1>8, <2>3, PollBlockInv
<1> QED
  BY <1>2, <1>6, <1>7, <1>8 DEF BlockOps

(* A stage that is polled is pushed.                                       *)
LEMMA PushStep ==
  ASSUME IInv, IsProgram(prog), Machine(prog, stack, st'), prog' = prog,
         NEW p \in DOMAIN prog, NEW k \in Nat, k <= Len(prog[p]),
         Ready(prog, stack, Frame(p, k, ""), st'),
         stack' = Append(stack, Frame(p, k, "")), reg' = Poll
  PROVE  MachineInv'
<1> DEFINE f == Frame(p, k, "")
           t == Append(stack, f)
<1>1. f \in Frames(prog) /\ f.wait = ""
  BY DEF Frame, Frames, Waits
<1>2. Ready(prog, stack, f, st') /\ stack' = t
  OBVIOUS
<1> HIDE DEF f
<1>3. Fits(prog, f)
  BY <1>1 DEF Fits
<1>4. Machine(prog, t, st')
  BY <1>1, <1>2, <1>3, Push
<1>5. stack \in Seq(Frames(prog))
  BY DEF IInv, MachineInv, Machine, IsStack
<1>6. t # <<>> /\ Last(t).wait = ""
  BY <1>1, <1>5, LastAppend
<1>7. Poll # End
  BY RegsAre
<1> HIDE DEF t
<1> QED
  BY <1>2, <1>4, <1>6, <1>7 DEF MachineInv

LEMMA DrivePollInv ==
  ASSUME IInv, DrivePoll
  PROVE  IInv'
<1> DEFINE k == Len(prog[<<>>])
           f == Frame(<<>>, k, "")
<1>1. /\ UNCHANGED <<prog, doc, st, flag, error, pc>> /\ stack = <<>> /\ stack' = <<f>>
      /\ reg' = Poll
  BY DEF DrivePoll, Effects, Top0
<1>2. IsProgram(prog)
  BY PipelineAssumption DEF IInv, TypeInv
<1>3. <<>> \in DOMAIN prog /\ k \in Nat /\ k <= Len(prog[<<>>])
  BY <1>2 DEF IsProgram
<1>4. stack' = Append(stack, f)
  <2> HIDE DEF f
  <2>1. <<f>> = Append(<<>>, f)
    OBVIOUS
  <2> QED
    BY <1>1, <2>1
<1>5. Ready(prog, stack, f, st')
  BY <1>1 DEF Ready, Frame, Outermost
<1>6. Machine(prog, stack, st')
  BY <1>1 DEF IInv, MachineInv
<1> HIDE DEF k
<1>7. MachineInv'
  BY <1>1, <1>2, <1>3, <1>4, <1>5, <1>6, PushStep
<1>8. reg' \in Regs(doc)
  BY <1>1, RegsAre
<1> QED
  BY <1>1, <1>7, <1>8, SteadySame, RestIs, SteadyInv

(* What a reducer that collects gets.                                      *)
LEMMA CollectingIs ==
  ASSUME IInv, NEW kind \in {"some", "none"}, Collecting(kind)
  PROVE  /\ stack # <<>> /\ Top.wait = "collect" /\ Top.k > 0 /\ Cmd.op = "r"
         /\ kind = "some" => reg.view \in GoodViews(doc) /\ reg = Some(reg.view)
         /\ kind = "none" => reg = End /\ Quiet(st, Top.p, Top.k - 1)
<1>1. stack # <<>> /\ reg.kind = kind /\ Top.k > 0 /\ Top.wait = "collect"
  BY DEF Collecting
<1>2. Top = Last(stack) /\ Cmd.op = Op(prog, Top) /\ Fits(prog, Top)
  BY <1>1, Running
<1>3. Cmd.op = "r"
  BY <1>1, <1>2 DEF Fits
<1>4. reg \in Regs(doc)
  BY DEF IInv, TypeInv
<1>5. /\ kind = "some" => reg.view \in GoodViews(doc) /\ reg = Some(reg.view)
      /\ kind = "none" => reg = End
  BY <1>1, <1>4, RegsAre
<1>6. ASSUME kind = "none" PROVE Quiet(st, Top.p, Top.k - 1)
  <2>1. EndQuiet(prog, stack, st)
    BY <1>5, <1>6 DEF IInv, MachineInv
  <2> QED
    BY <1>1, <1>2, <2>1 DEF EndQuiet
<1> QED
  BY <1>1, <1>3, <1>5, <1>6

LEMMA CollectViewInv ==
  ASSUME IInv, CollectView
  PROVE  IInv'
<1> DEFINE h == Append(St.held, reg.view)
           p == Top.p
           k == Top.k - 1
           f == Frame(p, k, "")
<1>1. /\ UNCHANGED <<prog, doc, flag, error, pc>> /\ Collecting("some") /\ reg' = Poll
      /\ SetStage([St EXCEPT !.held = h])
      /\ stack' = Append(stack, f)
  BY DEF CollectView, Effects
<1>2. /\ stack # <<>> /\ Top.wait = "collect" /\ Top.k > 0 /\ Cmd.op = "r"
      /\ reg.view \in GoodViews(doc)
  BY <1>1, CollectingIs
<1>3. /\ IsStage(prog, doc, Top.p, Top.k, St) /\ Cmd = prog[Top.p][Top.k] /\ IsProgram(prog)
      /\ Top = Last(stack) /\ Top.p \in DOMAIN prog /\ Top.k \in 0..Len(prog[Top.p])
  BY <1>2, Running
<1>4. h \in Seq(GoodViews(doc))
  BY <1>2, <1>3, StageIs
<1> HIDE DEF h
<1>5. Steady(st')
  <2>1. ~ prog[Top.p][Top.k].op = "/"
    BY <1>2, <1>3
  <2>2. Keeps(prog, doc, Top.p, Top.k, St, [St EXCEPT !.held = h])
    BY <1>3, <1>4, <2>1, Reheld
  <2> QED
    BY <1>1, <1>2, <2>2, SteadySet
<1>6. Machine(prog, stack, st')
  BY <1>3, <1>5, KeepFlags DEF IInv, MachineInv, Steady
<1>7. p \in DOMAIN prog /\ k \in Nat /\ k <= Len(prog[p])
  <2>1. Len(prog[p]) \in Nat
    BY <1>3 DEF IsProgram
  <2> QED
    BY <1>2, <1>3, <2>1
<1>8. Ready(prog, stack, f, st')
  <2>1. f.p = Top.p /\ f.k = Top.k - 1 /\ f.wait = ""
    BY DEF Frame
  <2> HIDE DEF f
  <2>2. Calls(prog, Last(stack), f)
    BY <1>2, <1>3, <2>1 DEF Calls
  <2> QED
    BY <1>2, <2>1, <2>2 DEF Ready
<1> HIDE DEF p, k
<1>9. MachineInv'
  BY <1>1, <1>3, <1>6, <1>7, <1>8, PushStep
<1>10. reg' \in Regs(doc)
  BY <1>1, RegsAre
<1> QED
  BY <1>1, <1>5, <1>9, <1>10, RestIs, SteadyInv

(* A chain whose first n writers were flushed.                             *)
FlushedTo(p, n, c) ==
  /\ DOMAIN c = 0..Len(prog[p])
  /\ \A k \in 0..Len(prog[p]) :
       /\ Keeps(prog, doc, p, k, st[p][k], c[k])
       /\ c[k].buf = <<>> \/ c[k].buf = st[p][k].buf
       /\ k <= n => c[k].buf = <<>>
       /\ ~ k <= n => c[k] = st[p][k]

LEMMA FlushedIs ==
  ASSUME IInv, NEW p \in DOMAIN prog, NEW n \in Int
  PROVE  FlushedTo(p, n, Flushed(p, n))
<1> DEFINE c == Flushed(p, n)
<1>1. DOMAIN st[p] = 0..Len(prog[p]) /\ \A k \in 0..Len(prog[p]) : IsStage(prog, doc, p, k, st[p][k])
  BY DEF IInv, TypeInv, AreStages
<1>2. /\ DOMAIN c = 0..Len(prog[p])
      /\ \A k \in 0..Len(prog[p]) :
           c[k] = IF k <= n THEN [st[p][k] EXCEPT !.buf = <<>>] ELSE st[p][k]
  BY <1>1 DEF Flushed
<1> HIDE DEF c
<1>3. ASSUME NEW k \in 0..Len(prog[p])
      PROVE  /\ Keeps(prog, doc, p, k, st[p][k], c[k])
             /\ c[k].buf = <<>> \/ c[k].buf = st[p][k].buf
             /\ k <= n => c[k].buf = <<>>
             /\ ~ k <= n => c[k] = st[p][k]
  <2> DEFINE s == st[p][k]
             t == [s EXCEPT !.buf = <<>>]
  <2>1. IsStage(prog, doc, p, k, s)
    BY <1>1
  <2>2. <<>> \in Seq(Records) /\ Len(<<>>) = 0 /\ 0 <= BufCap
    BY PipelineAssumption
  <2>3. t.buf = <<>>
    BY <2>1 DEF IsStage, StageStates
  <2>4. c[k] = IF k <= n THEN t ELSE s
    BY <1>2
  <2> HIDE DEF s
  <2>5. Keeps(prog, doc, p, k, s, t)
    BY <2>1, <2>2, Rebuffered
  <2> HIDE DEF t
  <2>6. Keeps(prog, doc, p, k, s, s)
    BY <2>1 DEF Keeps
  <2> QED
    BY <2>3, <2>4, <2>5, <2>6 DEF s
<1> QED
  BY <1>2, <1>3 DEF c, FlushedTo

LEMMA KeepEmpty ==
  ASSUME NEW pr, NEW x, NEW y, BlocksFlushed(pr, x),
         \A p \in DOMAIN pr : \A k \in 0..Len(pr[p]) :
           /\ Inner(y, p, k) <=> Inner(x, p, k)
           /\ y[p][k].buf = <<>> \/ y[p][k].buf = x[p][k].buf
  PROVE  BlocksFlushed(pr, y)
BY DEF BlocksFlushed

LEMMA DriveEndInv ==
  ASSUME IInv, DriveEnd
  PROVE  IInv'
<1> DEFINE n == Len(prog[<<>>])
           c == Flushed(<<>>, n)
           y == st'
<1>1. /\ UNCHANGED <<prog, doc, stack, reg, flag, error>> /\ stack = <<>>
      /\ reg.kind = "none" /\ pc' \in {"done", "failed"}
      /\ y = [st EXCEPT ![<<>>] = c]
  BY DEF DriveEnd, Top0
<1>2. IsProgram(prog) /\ AreStages(prog, doc, st)
  BY PipelineAssumption DEF IInv, TypeInv
<1>3. <<>> \in DOMAIN prog /\ n \in Nat
  BY <1>2 DEF IsProgram
<1>4. FlushedTo(<<>>, n, c)
  BY <1>3, FlushedIs
<1> HIDE DEF c, y, n
<1>5. \A p \in DOMAIN prog : y[p] = IF p = <<>> THEN c ELSE st[p]
  BY <1>1, <1>2 DEF AreStages
<1>6. AreStages(prog, doc, y)
  BY <1>1, <1>2, <1>4, <1>5 DEF AreStages, FlushedTo, Keeps
<1>7. \A p \in DOMAIN prog : \A k \in 0..Len(prog[p]) :
        /\ y[p][k].inner = st[p][k].inner /\ y[p][k].fused = st[p][k].fused
        /\ y[p][k].buf = <<>> \/ y[p][k].buf = st[p][k].buf
  BY <1>4, <1>5 DEF FlushedTo, Keeps
<1>8. SameFlags(prog, st, y)
  BY <1>7 DEF SameFlags, Inner, Fused
<1>9. \A p \in DOMAIN prog : \A k \in 0..Len(prog[p]) :
        /\ Inner(y, p, k) <=> Inner(st, p, k)
        /\ y[p][k].buf = <<>> \/ y[p][k].buf = st[p][k].buf
  BY <1>7, <1>8 DEF SameFlags
<1>10. BlocksFlushed(prog, y)
  BY <1>9, KeepEmpty DEF IInv
<1>11. Machine(prog, stack, y)
  BY <1>2, <1>8, KeepFlags DEF IInv, MachineInv
<1>12. MachineInv'
  BY <1>1, <1>11 DEF MachineInv, IInv, EndQuiet, y
<1>13. Rest' /\ reg' \in Regs(doc)
  BY <1>1 DEF IInv, TypeInv, Rest
<1> QED
  BY <1>1, <1>6, <1>10, <1>12, <1>13, StepInv DEF y

(* A flat_map that has seen the end: the stages before it are dropped.     *)
LEMMA FlatMapEndInv ==
  ASSUME IInv, FlatMapEnd
  PROVE  IInv'
<1> DEFINE p == Top.p
           k == Top.k
           c == Flushed(p, k - 1)
           s == [c[k] EXCEPT !.fused = TRUE]
           y == st'
<1>1. /\ UNCHANGED <<prog, doc, flag, error, pc>> /\ Again
      /\ \E op \in FlatMapOps : Arrived(op, "none")
      /\ y = [st EXCEPT ![p] = [c EXCEPT ![k] = s]]
  BY DEF FlatMapEnd
<1>2. /\ stack # <<>> /\ Top.wait # "collect" /\ k > 0 /\ Cmd.op \in FlatMapOps
      /\ Quiet(st, p, k - 1)
  BY <1>1, ArrivedIs
<1>3. /\ IsProgram(prog) /\ AreStages(prog, doc, st) /\ p \in DOMAIN prog /\ k \in 0..Len(prog[p])
      /\ k \in Nat /\ Top = Last(stack) /\ Cmd = prog[p][k]
  BY <1>2, Running DEF IInv, TypeInv
<1>4. FlushedTo(p, k - 1, c)
  BY <1>3, FlushedIs
<1> HIDE DEF c, y
<1>5. c[k] = st[p][k] /\ IsStage(prog, doc, p, k, st[p][k])
  BY <1>3, <1>4 DEF FlushedTo, AreStages
<1>6. IsStage(prog, doc, p, k, s) /\ s.buf = st[p][k].buf /\ s.fused
  <2> DEFINE x == st[p][k]
  <2>1. IsStage(prog, doc, p, k, x) /\ s = [x EXCEPT !.fused = TRUE] /\ x.buf = st[p][k].buf
    BY <1>5
  <2> HIDE DEF x, s
  <2>2. s \in StageStates(doc) /\ s.buf = x.buf /\ s.held = x.held
    BY <2>1 DEF IsStage, StageStates
  <2>3. s.inner = x.inner
    BY <2>1, Zenon DEF IsStage, StageStates
  <2>4. s.fused
    BY <2>1, Zenon DEF IsStage, StageStates
  <2> QED
    BY <2>1, <2>2, <2>3, <2>4 DEF IsStage
<1>7. s.inner = st[p][k].inner
  BY <1>5, Zenon DEF IsStage, StageStates
<1> HIDE DEF s
<1>8. DOMAIN y = DOMAIN prog
      /\ \A q \in DOMAIN prog :
           /\ DOMAIN y[q] = 0..Len(prog[q])
           /\ \A j \in 0..Len(prog[q]) :
                y[q][j] = IF q = p THEN IF j = k THEN s ELSE c[j] ELSE st[q][j]
  BY <1>1, <1>3, <1>4 DEF AreStages, FlushedTo
<1> HIDE DEF p, k
<1>9. AreStages(prog, doc, y)
  BY <1>3, <1>4, <1>6, <1>8 DEF AreStages, FlushedTo, Keeps
<1>10. \A q \in DOMAIN prog : \A j \in 0..Len(prog[q]) :
         /\ y[q][j].inner = st[q][j].inner
         /\ ~ (q = p /\ j = k) => y[q][j].fused = st[q][j].fused
         /\ q = p /\ j = k => y[q][j].fused
         /\ y[q][j].buf = <<>> \/ y[q][j].buf = st[q][j].buf
  BY <1>4, <1>6, <1>7, <1>8 DEF FlushedTo, Keeps
<1>11. Fuses(prog, Top, st, y)
  BY <1>10 DEF Fuses, Inner, Fused, p, k
<1>12. \A q \in DOMAIN prog : \A j \in 0..Len(prog[q]) :
         /\ Inner(y, q, j) <=> Inner(st, q, j)
         /\ y[q][j].buf = <<>> \/ y[q][j].buf = st[q][j].buf
  BY <1>10, <1>11 DEF Fuses
<1>13. BlocksFlushed(prog, y)
  BY <1>12, KeepEmpty DEF IInv
<1>14. Machine(prog, Front(stack), y)
  BY <1>2, <1>3, <1>11, FuseFlatMap DEF IInv, MachineInv, p, k
<1>15. MachineInv'
  BY <1>1, <1>2, <1>14, AgainStep DEF y
<1>16. reg' \in Regs(doc)
  BY <1>1, RegsAre DEF Again
<1> QED
  BY <1>1, <1>9, <1>13, <1>15, <1>16, RestIs, StepInv DEF y

(* The end of a block: its chain is dropped.                               *)
LEMMA BlockEndInv ==
  ASSUME IInv, BlockEnd
  PROVE  IInv'
<1> DEFINE p == Top.p
           k == Top.k
           b == Block(Top)
           c == Flushed(b, Len(prog[b]))
           s == [St EXCEPT !.inner = FALSE, !.held = <<>>,
                           !.queue = IF Cmd.op = "t" THEN St.held ELSE @]
           y == st'
           v == St.held[1]
<1>1. /\ UNCHANGED <<prog, doc, flag, error, pc>> /\ FromBlock("none")
      /\ y = [st EXCEPT ![p][k] = s, ![b] = c]
      /\ IF Cmd.op = "/" THEN Reply(Some(v)) ELSE Again
  BY DEF BlockEnd
<1>2. /\ stack # <<>> /\ Top.wait = "block" /\ Top.wait # "collect" /\ k > 0
      /\ Cmd.op \in BlockOps /\ Inner(st, p, k) /\ Quiet(st, b, Len(prog[b]))
  BY <1>1, FromBlockIs
<1>3. /\ IsProgram(prog) /\ AreStages(prog, doc, st) /\ p \in DOMAIN prog /\ k \in 0..Len(prog[p])
      /\ k \in Nat /\ Top = Last(stack) /\ Top \in Frames(prog) /\ Cmd = prog[p][k]
      /\ Cmd.op = Op(prog, Top) /\ St = st[p][k]
  BY <1>2, Running DEF IInv, TypeInv
<1>4. b \in DOMAIN prog /\ b # p /\ Len(prog[b]) \in Nat
  <2>1. b \in DOMAIN prog
    BY <1>2, <1>3, BlockIs
  <2>2. Len(p) <= Len(p)
    BY <1>3 DEF IsProgram
  <2>3. p # b
    BY <1>3, <2>2, BlockIs
  <2> QED
    BY <1>3, <2>1, <2>3 DEF IsProgram
<1>5. FlushedTo(b, Len(prog[b]), c)
  BY <1>4, FlushedIs
<1>6. IsStage(prog, doc, p, k, St)
  BY <1>2, Running
<1>7. IsStage(prog, doc, p, k, s) /\ s.buf = St.buf /\ ~ s.inner
  <2> DEFINE q == IF Cmd.op = "t" THEN St.held ELSE St.queue
  <2>1. St \in StageStates(doc) /\ s = [St EXCEPT !.inner = FALSE, !.held = <<>>, !.queue = q]
    BY <1>6 DEF IsStage
  <2>2. q \in Seq(GoodViews(doc)) /\ <<>> \in Seq(GoodViews(doc))
    BY <2>1 DEF StageStates
  <2> HIDE DEF q, s
  <2>3. s \in StageStates(doc) /\ s.buf = St.buf
    BY <2>1, <2>2 DEF StageStates
  <2>4. ~ s.inner
    BY <2>1, Zenon DEF StageStates
  <2> QED
    BY <1>6, <2>3, <2>4 DEF IsStage
<1>8. s.fused = St.fused
  BY <1>6, Zenon DEF IsStage, StageStates
<1> HIDE DEF s, c, y, b
<1>9. DOMAIN y = DOMAIN prog
      /\ \A q \in DOMAIN prog :
           /\ DOMAIN y[q] = 0..Len(prog[q])
           /\ \A j \in 0..Len(prog[q]) :
                y[q][j] = IF q = b THEN c[j] ELSE IF q = p /\ j = k THEN s ELSE st[q][j]
  BY <1>1, <1>3, <1>4, <1>5 DEF AreStages, FlushedTo
<1>10. Len(prog[b]) \in Int /\ \A j \in 0..Len(prog[b]) : c[j].buf = <<>>
  BY <1>4, <1>5 DEF FlushedTo
<1> HIDE DEF p, k
<1>11. AreStages(prog, doc, y)
  BY <1>3, <1>5, <1>7, <1>9 DEF AreStages, FlushedTo, Keeps
<1>12. \A q \in DOMAIN prog : \A j \in 0..Len(prog[q]) :
         /\ ~ (q = p /\ j = k) => y[q][j].inner = st[q][j].inner
         /\ q = p /\ j = k => ~ y[q][j].inner
         /\ y[q][j].fused = st[q][j].fused
         /\ y[q][j].buf = <<>> \/ y[q][j].buf = st[q][j].buf
         /\ q = b => y[q][j].buf = <<>>
  BY <1>3, <1>4, <1>5, <1>7, <1>8, <1>9, <1>10 DEF FlushedTo, Keeps
<1>13. Leaves(prog, Top, st, y)
  BY <1>12 DEF Leaves, Inner, Fused, p, k
<1>14. BlocksFlushed(prog, y)
  <2> SUFFICES ASSUME NEW q \in DOMAIN prog, NEW j \in 1..Len(prog[q]), Append(q, j) \in DOMAIN prog,
                      ~ Inner(y, q, j), NEW i \in 0..Len(prog[Append(q, j)])
               PROVE  y[Append(q, j)][i].buf = <<>>
    BY DEF BlocksFlushed
  <2>1. CASE Append(q, j) = b
    BY <1>12, <2>1
  <2>2. CASE Append(q, j) # b
    <3>1. ~ (q = p /\ j = k)
      BY <2>2 DEF b, p, k, Block
    <3>2. j \in 0..Len(prog[q])
      OBVIOUS
    <3>3. ~ Inner(st, q, j)
      BY <1>13, <3>1, <3>2 DEF Leaves, p, k
    <3>4. st[Append(q, j)][i].buf = <<>>
      BY <3>3 DEF IInv, BlocksFlushed
    <3> QED
      BY <1>12, <3>4
  <2> QED
    BY <2>1, <2>2
<1>15. Machine(prog, Front(stack), y)
  BY <1>2, <1>3, <1>13, LeaveBlock DEF IInv, MachineInv, b
<1>16. CASE Cmd.op # "/"
  <2>1. Again
    BY <1>1, <1>16
  <2>2. MachineInv'
    BY <1>1, <1>2, <1>15, <2>1, AgainStep DEF y
  <2>3. reg' \in Regs(doc)
    BY <2>1, RegsAre DEF Again
  <2> QED
    BY <1>1, <1>11, <1>14, <2>2, <2>3, RestIs, StepInv DEF y
<1>17. CASE Cmd.op = "/"
  <2>1. stack' = Front(stack) /\ reg' = Some(v)
    BY <1>1, <1>17 DEF Reply
  <2>2. v \in GoodViews(doc)
    <3>1. St.held # <<>>
      BY <1>2, <1>3, <1>6, <1>17 DEF IsStage, Inner, p, k
    <3>2. St.held \in Seq(GoodViews(doc))
      BY <1>6, StageIs
    <3>3. 1 \in 1..Len(St.held)
      BY <3>1, <3>2, EmptySeq
    <3> QED
      BY <3>2, <3>3
  <2>3. Some(v) \in Regs(doc) /\ Some(v) # Poll /\ Some(v) # End
    BY <2>2, RegsAre
  <2> HIDE DEF v
  <2>4. Front(stack) = <<>> \/ Last(Front(stack)).wait # ""
    BY <1>2, FrontCalls DEF IInv, MachineInv, Machine
  <2>5. MachineInv'
    BY <1>1, <1>15, <2>1, <2>3, <2>4 DEF MachineInv, y
  <2> QED
    BY <1>1, <1>11, <1>14, <2>1, <2>3, <2>5, RestIs, StepInv DEF y
<1> QED
  BY <1>16, <1>17

(* A block begins on a view, with a fresh chain.                           *)
LEMMA EnterInv ==
  ASSUME IInv, stack # <<>>, Top.wait # "collect", Top.k > 0, Cmd.op \in BlockOps,
         ~ Inner(st, Top.p, Top.k), UNCHANGED <<prog, doc>>, Rest', NEW v \in GoodViews(doc),
         NEW s, Keeps(prog, doc, Top.p, Top.k, St, s), Cmd.op = "/" => s.held # <<>>, Enter(v, s)
  PROVE  IInv'
<1> DEFINE p == Top.p
           k == Top.k
           b == Block(Top)
           c == Chain(b, v)
           u == [s EXCEPT !.inner = TRUE]
           y == st'
           t == Rewait(stack, "block")
<1>1. /\ y = [st EXCEPT ![p][k] = u, ![b] = c] /\ reg' = Poll
      /\ stack' = Waiting("block") \o BuildAbove(b, 0)
  BY DEF Enter
<1>2. /\ IsProgram(prog) /\ AreStages(prog, doc, st) /\ p \in DOMAIN prog /\ k \in 0..Len(prog[p])
      /\ k \in Nat /\ k > 0 /\ Top = Last(stack) /\ Top \in Frames(prog) /\ Cmd = prog[p][k]
      /\ Cmd.op = Op(prog, Top) /\ St = st[p][k]
  BY Running DEF IInv, TypeInv
<1>3. b \in DOMAIN prog /\ b # p /\ Len(prog[b]) \in Nat
  <2>1. b \in DOMAIN prog
    BY <1>2, BlockIs
  <2>2. Len(p) <= Len(p)
    BY <1>2 DEF IsProgram
  <2>3. p # b
    BY <1>2, <2>2, BlockIs
  <2> QED
    BY <1>2, <2>1, <2>3 DEF IsProgram
<1>4. IsStage(prog, doc, p, k, s) /\ s.fused = St.fused
  BY DEF Keeps
<1>5. IsStage(prog, doc, p, k, u) /\ u.buf = s.buf /\ u.inner
  <2>1. u \in StageStates(doc) /\ u.buf = s.buf /\ u.held = s.held
    BY <1>4 DEF IsStage, StageStates
  <2>2. u.inner
    BY <1>4, Zenon DEF IsStage, StageStates
  <2> HIDE DEF u
  <2> QED
    BY <1>2, <1>4, <2>1, <2>2 DEF IsStage
<1>6. u.fused = St.fused
  <2>1. u.fused = s.fused
    BY <1>4, Zenon DEF IsStage, StageStates
  <2> QED
    BY <1>4, <2>1
<1>7. /\ DOMAIN c = 0..Len(prog[b])
      /\ \A j \in 0..Len(prog[b]) :
           c[j] \in StageStates(doc) /\ c[j].buf = <<>> /\ ~ c[j].inner /\ ~ c[j].fused
  <2> DEFINE first == [Fresh EXCEPT !.queue = <<v>>]
             good(x) == x \in StageStates(doc) /\ x.buf = <<>> /\ ~ x.inner /\ ~ x.fused
  <2>1. DOMAIN c = 0..Len(prog[b]) /\ \A j \in 0..Len(prog[b]) : c[j] = IF j = 0 THEN first ELSE Fresh
    BY DEF Chain
  <2>2. good(first) /\ good(Fresh)
    BY FreshIs
  <2> HIDE DEF c, first, good
  <2>3. \A j \in 0..Len(prog[b]) : good(c[j])
    BY <2>1, <2>2
  <2> QED
    BY <2>1, <2>3 DEF good
<1> HIDE DEF u, c, y, b
<1>8. DOMAIN y = DOMAIN prog
      /\ \A q \in DOMAIN prog :
           /\ DOMAIN y[q] = 0..Len(prog[q])
           /\ \A j \in 0..Len(prog[q]) :
                y[q][j] = IF q = b THEN c[j] ELSE IF q = p /\ j = k THEN u ELSE st[q][j]
  BY <1>1, <1>2, <1>3, <1>7 DEF AreStages
<1> HIDE DEF p, k
<1>9. AreStages(prog, doc, y)
  <2>1. \A j \in 0..Len(prog[b]) : IsStage(prog, doc, b, j, c[j])
    BY <1>7 DEF IsStage
  <2> QED
    BY <1>2, <1>5, <1>8, <2>1 DEF AreStages
<1>10. \A q \in DOMAIN prog : \A j \in 0..Len(prog[q]) :
         /\ q = b => y[q][j].buf = <<>> /\ ~ y[q][j].inner /\ ~ y[q][j].fused
         /\ q = p /\ j = k => y[q][j].inner /\ y[q][j].fused = st[q][j].fused
         /\ q # b /\ ~ (q = p /\ j = k) => y[q][j] = st[q][j]
  BY <1>2, <1>3, <1>5, <1>6, <1>7, <1>8
<1>11. Begins(prog, Top, st, y)
  BY <1>3, <1>10 DEF Begins, Inner, Fused, p, k, b
<1>12. BlocksFlushed(prog, y)
  <2> SUFFICES ASSUME NEW q \in DOMAIN prog, NEW j \in 1..Len(prog[q]), Append(q, j) \in DOMAIN prog,
                      ~ Inner(y, q, j), NEW i \in 0..Len(prog[Append(q, j)])
               PROVE  y[Append(q, j)][i].buf = <<>>
    BY DEF BlocksFlushed
  <2>1. j \in 0..Len(prog[q]) /\ j \in 1..Len(prog[q])
    OBVIOUS
  <2>2. CASE Append(q, j) = b
    BY <1>10, <2>2
  <2>3. CASE Append(q, j) # b
    <3>1. ~ Inner(st, q, j)
      <4>1. CASE q = b
        <5>1. ~ Inner(st, Top.p, Top.k) /\ Flags(prog, stack, st) /\ Top.k \in 1..Len(prog[Top.p])
          BY <1>2, FrameOf DEF IInv, MachineInv, Machine
        <5>2. Quiet(st, b, Len(prog[b]))
          BY <1>2, <1>3, <5>1 DEF Flags, OuterQuiet, b, p, Block
        <5> QED
          BY <2>1, <4>1, <5>2 DEF Quiet
      <4>2. CASE q # b
        BY <1>11, <2>1, <4>2 DEF Begins, b
      <4> QED
        BY <4>1, <4>2
    <3>2. Append(q, j) # p
      BY <3>1, Running DEF p
    <3>3. st[Append(q, j)][i].buf = <<>>
      BY <3>1 DEF IInv, BlocksFlushed
    <3> QED
      BY <1>10, <2>3, <3>2, <3>3
  <2> QED
    BY <2>2, <2>3
<1>13. Machine(prog, Front(stack), y) /\ Inner(y, Top.p, Top.k)
  BY <1>2, <1>11, BeginBlock DEF IInv, MachineInv, p, k
<1>14. MayWait(prog, Last(stack), "block", y)
  BY <1>2, <1>13 DEF MayWait
<1>15. Rewaited(prog, stack, "block", y)
  BY <1>2, <1>13, <1>14, Rewaits DEF IInv, MachineInv, Machine
<1>16. /\ Machine(prog, t, y) /\ t # <<>> /\ Last(t).p = p /\ Last(t).k = k /\ Last(t).wait = "block"
  BY <1>2, <1>15 DEF Rewaited, p, k
<1>17. Waiting("block") = t
  BY <1>2 DEF Waiting, Rewait, Now
<1> HIDE DEF t
<1>18. Above(prog, t, b)
  BY <1>16 DEF Above, b, Block, p, k
<1>19. OpenOver(prog, b, 0, y)
  BY <1>3, <1>10 DEF OpenOver, Fused
<1>20. Drained(prog, t, b, 0, y)
  BY <1>16 DEF Machine, Reduced, Drained
<1>21. IsStack(prog, t) /\ Flags(prog, t, y) /\ 0 \in 0..Len(prog[b])
  BY <1>3, <1>16 DEF Machine
<1>22. Polls(prog, t \o BuildAbove(b, 0), y)
  BY <1>2, <1>3, <1>18, <1>19, <1>20, <1>21, Built
<1>23. MachineInv' /\ reg' \in Regs(doc)
  BY <1>1, <1>17, <1>22, RegsAre DEF MachineInv, Polls, y
<1> QED
  BY <1>9, <1>12, <1>23, StepInv DEF y

(* The end for a reducer: what it drained is dropped, the rest is built.   *)
LEMMA CollectEndInv ==
  ASSUME IInv, CollectEnd
  PROVE  IInv'
<1> DEFINE p == Top.p
           k == Top.k
           t == Front(stack)
           q == IF St.held = <<>> THEN <<>> ELSE <<View(Foreign, Join(St.held))>>
           c == Flushed(p, k - 1)
           s == [c[k] EXCEPT !.queue = q, !.held = <<>>]
           y == st'
<1>1. /\ UNCHANGED <<prog, doc, flag, error, pc>> /\ Collecting("none") /\ reg' = Poll
      /\ y = [st EXCEPT ![p] = [c EXCEPT ![k] = s]]
      /\ stack' = t \o BuildAbove(p, k)
  BY DEF CollectEnd
<1>2. /\ stack # <<>> /\ Top.wait = "collect" /\ k > 0 /\ Cmd.op = "r" /\ Quiet(st, p, k - 1)
  BY <1>1, CollectingIs
<1>3. /\ IsProgram(prog) /\ AreStages(prog, doc, st) /\ p \in DOMAIN prog /\ k \in 0..Len(prog[p])
      /\ k \in Nat /\ Top = Last(stack) /\ Cmd = prog[p][k] /\ St = st[p][k]
      /\ IsStack(prog, stack) /\ Flags(prog, stack, st) /\ Reduced(prog, stack, st)
  BY <1>2, Running DEF IInv, TypeInv
<1>4. FlushedTo(p, k - 1, c)
  BY <1>3, FlushedIs
<1> HIDE DEF c, y
<1>5. c[k] = St /\ IsStage(prog, doc, p, k, St)
  BY <1>3, <1>4 DEF FlushedTo, AreStages
<1>6. q \in Seq(GoodViews(doc))
  <2>1. St.held \in Seq(GoodViews(doc))
    BY <1>5, StageIs
  <2>2. View(Foreign, Join(St.held)) \in GoodViews(doc)
    BY <2>1, JoinText, ForeignGood
  <2> QED
    BY <2>2
<1> HIDE DEF q
<1>7. Keeps(prog, doc, p, k, St, s) /\ s.buf = St.buf
  <2> DEFINE x == [St EXCEPT !.queue = q]
             z == [x EXCEPT !.held = <<>>]
  <2>1. s = z /\ s.buf = St.buf
    BY <1>5 DEF IsStage, StageStates
  <2>2. Keeps(prog, doc, p, k, St, x)
    BY <1>5, <1>6, Requeued
  <2> HIDE DEF x, s
  <2>3. IsStage(prog, doc, p, k, x)
    BY <2>2 DEF Keeps
  <2>4. <<>> \in Seq(GoodViews(doc)) /\ ~ prog[p][k].op = "/"
    BY <1>2, <1>3
  <2>5. Keeps(prog, doc, p, k, x, z)
    BY <2>3, <2>4, Reheld
  <2> HIDE DEF z
  <2>6. Keeps(prog, doc, p, k, St, z)
    BY <2>2, <2>5, Zenon DEF Keeps
  <2> QED
    BY <2>1, <2>6
<1> HIDE DEF s
<1>8. DOMAIN y = DOMAIN prog
      /\ \A r \in DOMAIN prog :
           /\ DOMAIN y[r] = 0..Len(prog[r])
           /\ \A j \in 0..Len(prog[r]) :
                y[r][j] = IF r = p THEN IF j = k THEN s ELSE c[j] ELSE st[r][j]
  BY <1>1, <1>3, <1>4 DEF AreStages, FlushedTo
<1> HIDE DEF p, k
<1>9. AreStages(prog, doc, y)
  BY <1>3, <1>4, <1>7, <1>8 DEF AreStages, FlushedTo, Keeps
<1>10. \A r \in DOMAIN prog : \A j \in 0..Len(prog[r]) :
         /\ y[r][j].inner = st[r][j].inner /\ y[r][j].fused = st[r][j].fused
         /\ y[r][j].buf = <<>> \/ y[r][j].buf = st[r][j].buf
  BY <1>3, <1>4, <1>7, <1>8 DEF FlushedTo, Keeps
<1>11. SameFlags(prog, st, y)
  BY <1>10 DEF SameFlags, Inner, Fused
<1>12. \A r \in DOMAIN prog : \A j \in 0..Len(prog[r]) :
         /\ Inner(y, r, j) <=> Inner(st, r, j)
         /\ y[r][j].buf = <<>> \/ y[r][j].buf = st[r][j].buf
  BY <1>10, <1>11 DEF SameFlags
<1>13. BlocksFlushed(prog, y)
  BY <1>12, KeepEmpty DEF IInv
<1>14. Machine(prog, stack, y)
  BY <1>3, <1>11, KeepFlags DEF IInv, MachineInv
<1>15. IsStack(prog, t) /\ Flags(prog, t, y)
  BY <1>2, <1>14, PopStack, PopFlags DEF Machine
<1>16. Above(prog, t, p)
  BY <1>2, <1>3, FrontCalls DEF Above, Calls, p
<1>17. OpenOver(prog, p, k, y)
  <2>1. Len(stack) \in 1..Len(stack) /\ Top = stack[Len(stack)]
    BY <1>2, <1>3, StackFrames
  <2> QED
    BY <1>14, <2>1 DEF Machine, Flags, OpenAbove, OpenOver, p, k
<1>18. Drained(prog, t, p, k, y)
  <2> DEFINE n == Len(stack)
  <2>1. /\ n \in Nat /\ n # 0 /\ Len(t) = n - 1 /\ Top = stack[n] /\ \A i \in 1..(n - 1) : t[i] = stack[i]
    BY <1>2, <1>3, FrontIs DEF IsStack
  <2> SUFFICES ASSUME NEW r \in DOMAIN prog, NEW j \in Nat, Reducer(prog, r, j), ~ Quiet(y, r, j - 1),
                      ~ (r = p /\ j > k)
               PROVE  CollectedBefore(t, r, j)
    BY DEF Drained
  <2>2. CollectedBefore(stack, r, j)
    BY <1>14 DEF Machine, Reduced
  <2> HIDE DEF t
  <2>3. PICK i \in 1..n : stack[i].p = r /\ stack[i].wait = "collect" /\ stack[i].k <= j
    BY <2>2 DEF CollectedBefore
  <2>4. CASE i = n
    <3>1. r = p /\ k <= j /\ j = k
      BY <1>3, <2>1, <2>3, <2>4 DEF p, k
    <3>2. k - 1 \in Int /\ k - 1 <= Len(prog[p]) /\ Len(prog[p]) \in Nat
      BY <1>3 DEF IsProgram
    <3>3. Quiet(y, p, k - 1)
      BY <1>2, <1>3, <1>11, <3>2, SameQuiet
    <3> QED
      BY <3>1, <3>3
  <2>5. CASE i # n
    <3>1. i \in 1..Len(t) /\ t[i] = stack[i]
      BY <2>1, <2>5
    <3> QED
      BY <2>3, <3>1 DEF CollectedBefore
  <2> QED
    BY <2>4, <2>5
<1> HIDE DEF t
<1>19. Polls(prog, t \o BuildAbove(p, k), y)
  BY <1>3, <1>15, <1>16, <1>17, <1>18, Built
<1>20. MachineInv' /\ reg' \in Regs(doc)
  BY <1>1, <1>19, RegsAre DEF MachineInv, Polls, y
<1> QED
  BY <1>1, <1>9, <1>13, <1>20, RestIs, StepInv DEF y

LEMMA GroupViewInv ==
  ASSUME IInv, GroupView
  PROVE  IInv'
<1> DEFINE v == reg.view
<1>1. /\ UNCHANGED <<prog, doc, flag, error, pc>> /\ Arrived("group", "some") /\ Enter(v, St)
  BY DEF GroupView, Effects
<1>2. /\ stack # <<>> /\ Top.wait # "collect" /\ Top.k > 0 /\ Cmd.op = "group"
      /\ ~ Inner(st, Top.p, Top.k) /\ v \in GoodViews(doc)
  BY <1>1, ArrivedIs
<1> HIDE DEF v
<1>3. Cmd.op \in BlockOps
  BY <1>2 DEF BlockOps
<1> QED
  BY <1>1, <1>2, <1>3, SelfKeeps, RestIs, EnterInv

LEMMA BinderViewInv ==
  ASSUME IInv, BinderView
  PROVE  IInv'
<1> DEFINE v == reg.view
           h == <<v>>
           s == [St EXCEPT !.held = h]
<1>1. /\ UNCHANGED <<prog, doc, flag, error, pc>> /\ Arrived("/", "some")
      /\ Enter(v, s) \/ (Reply(reg) /\ UNCHANGED st)
  BY DEF BinderView, Effects
<1>2. /\ stack # <<>> /\ Top.wait # "collect" /\ Top.k > 0 /\ Cmd.op \in BlockOps
      /\ ~ Inner(st, Top.p, Top.k) /\ v \in GoodViews(doc)
  BY <1>1, ArrivedIs DEF BlockOps
<1> HIDE DEF v
<1>3. h \in Seq(GoodViews(doc)) /\ h # <<>>
  BY <1>2
<1> HIDE DEF h
<1>4. IsStage(prog, doc, Top.p, Top.k, St)
  BY <1>2, Running
<1>5. Keeps(prog, doc, Top.p, Top.k, St, s)
  BY <1>3, <1>4, Reheld
<1>6. s.held # <<>>
  BY <1>3, <1>4 DEF IsStage, StageStates
<1> HIDE DEF s
<1>7. CASE Enter(v, s)
  BY <1>1, <1>2, <1>5, <1>6, <1>7, RestIs, EnterInv
<1>8. CASE Reply(reg) /\ UNCHANGED st
  BY <1>1, <1>8, SteadySame, RestIs, PassView
<1> QED
  BY <1>1, <1>7, <1>8

LEMMA TestViewInv ==
  ASSUME IInv, TestView
  PROVE  IInv'
<1> DEFINE v == reg.view
           q == <<v>>
           s == [St EXCEPT !.held = <<>>]
           t == [St EXCEPT !.queue = q]
<1>1. /\ UNCHANGED <<prog, doc, error, pc>> /\ flag' = FALSE /\ Arrived("t", "some")
      /\ Enter(v, s) \/ (SetStage(t) /\ Again)
  BY DEF TestView
<1>2. /\ stack # <<>> /\ Top.wait # "collect" /\ Top.k > 0 /\ Cmd.op = "t"
      /\ ~ Inner(st, Top.p, Top.k) /\ v \in GoodViews(doc)
  BY <1>1, ArrivedIs
<1> HIDE DEF v
<1>3. q \in Seq(GoodViews(doc)) /\ <<>> \in Seq(GoodViews(doc))
  BY <1>2
<1> HIDE DEF q
<1>4. IsStage(prog, doc, Top.p, Top.k, St) /\ ~ prog[Top.p][Top.k].op = "/"
  BY <1>2, Running
<1>5. Keeps(prog, doc, Top.p, Top.k, St, s)
  BY <1>3, <1>4, Reheld
<1>6. Keeps(prog, doc, Top.p, Top.k, St, t)
  BY <1>3, <1>4, Requeued
<1>7. Cmd.op \in BlockOps /\ ~ Cmd.op = "/"
  BY <1>2 DEF BlockOps
<1>8. Rest'
  BY <1>1, RestIs DEF Rest
<1> HIDE DEF s, t
<1>9. CASE Enter(v, s)
  BY <1>1, <1>2, <1>5, <1>7, <1>8, <1>9, EnterInv
<1>10. CASE SetStage(t) /\ Again
  <2>1. Steady(st')
    BY <1>2, <1>6, <1>10, SteadySet
  <2> QED
    BY <1>1, <1>2, <1>8, <1>10, <2>1, AgainInv
<1> QED
  BY <1>1, <1>9, <1>10

LEMMA PollFlatMapInv ==
  ASSUME IInv, PollFlatMap
  PROVE  IInv'
<1> DEFINE v == Head(St.queue)
           q == Tail(St.queue)
           s == [St EXCEPT !.queue = q]
<1>1. /\ UNCHANGED <<prog, doc, flag, error, pc>>
      /\ stack # <<>> /\ reg = Poll /\ Top.k > 0 /\ Cmd.op \in FlatMapOps
      /\ \/ Inner(st, Top.p, Top.k) /\ PollBlock /\ UNCHANGED st
         \/ St.queue # <<>> /\ Reply(Some(v)) /\ SetStage(s)
         \/ ~ Inner(st, Top.p, Top.k) /\ St.queue # <<>> /\ Cmd.op = "m" /\ Enter(v, s)
         \/ ~ Inner(st, Top.p, Top.k) /\ ~ Fused(st, Top.p, Top.k) /\ PollUp /\ UNCHANGED st
         \/ ~ Inner(st, Top.p, Top.k) /\ Fused(st, Top.p, Top.k) /\ Reply(End) /\ UNCHANGED st
  BY DEF PollFlatMap, Polled, Effects, St, Inner, Fused
<1>2. Top.wait # "collect" /\ Rest'
  BY <1>1, PolledIs, RestIs
<1>3. /\ IsStage(prog, doc, Top.p, Top.k, St) /\ Top.p \in DOMAIN prog /\ Top.k \in Nat
      /\ Top \in Frames(prog) /\ IsProgram(prog) /\ Flags(prog, stack, st)
  BY <1>1, Running
<1>4. St.queue # <<>> => v \in GoodViews(doc) /\ q \in Seq(GoodViews(doc))
  BY <1>3, StageIs, HeadTail
<1> HIDE DEF v, q
<1>5. St.queue # <<>> => Keeps(prog, doc, Top.p, Top.k, St, s)
  BY <1>3, <1>4, Requeued
<1> HIDE DEF s
<1>6. Cmd.op # "r" /\ (Cmd.op = "m" => Cmd.op \in BlockOps /\ ~ Cmd.op = "/")
  BY <1>1 DEF FlatMapOps, BlockOps
<1>7. CASE Inner(st, Top.p, Top.k) /\ PollBlock /\ UNCHANGED st
  <2>1. Cmd.op \in BlockOps
    BY <1>1, <1>7, PlainOp
  <2> QED
    BY <1>1, <1>2, <1>7, <2>1, SteadySame, PollBlockInv
<1>8. CASE St.queue # <<>> /\ Reply(Some(v)) /\ SetStage(s)
  BY <1>1, <1>2, <1>4, <1>5, <1>8, SteadySet, ReplyViewInv
<1>9. CASE ~ Inner(st, Top.p, Top.k) /\ St.queue # <<>> /\ Cmd.op = "m" /\ Enter(v, s)
  BY <1>1, <1>2, <1>4, <1>5, <1>6, <1>9, EnterInv
<1>10. CASE ~ Inner(st, Top.p, Top.k) /\ ~ Fused(st, Top.p, Top.k) /\ PollUp /\ UNCHANGED st
  BY <1>1, <1>2, <1>6, <1>10, SteadySame, PollUpInv
<1>11. CASE ~ Inner(st, Top.p, Top.k) /\ Fused(st, Top.p, Top.k) /\ Reply(End) /\ UNCHANGED st
  <2>1. Quiet(st, Top.p, Top.k - 1)
    BY <1>1, <1>3, <1>11, FrameOf DEF Flags, FusedQuiet
  <2>2. Quiet(st, Top.p, Top.k)
    BY <1>3, <1>11, <2>1, QuietAt
  <2> QED
    BY <1>1, <1>2, <1>11, <2>2, SteadySame, ReplyEndInv
<1> QED
  BY <1>1, <1>7, <1>8, <1>9, <1>10, <1>11

LEMMA NextInv ==
  ASSUME IInv, Next
  PROVE  IInv'
<1>1. CASE PollSource \/ PollThrough \/ PollBinder \/ PollFlatMap \/ PollReduce \/ PollAwk
  BY <1>1, PollSourceInv, PollThroughInv, PollBinderInv, PollFlatMapInv, PollReduceInv, PollAwkInv
<1>2. CASE PassEnd \/ FlatMapEnd \/ Split \/ Expand \/ Collapse \/ MapView \/ Filter
  BY <1>2, PassEndInv, FlatMapEndInv, SplitInv, ExpandInv, CollapseInv, MapViewInv, FilterInv
<1>3. CASE Substitute \/ Change \/ PrintView \/ NextFirst \/ NextSecond \/ NextEnd
  BY <1>3, SubstituteInv, ChangeInv, PrintViewInv, NextFirstInv, NextSecondInv, NextEndInv
<1>4. CASE GroupView \/ BinderView \/ TestView \/ AwkView \/ AwkEnd
  BY <1>4, GroupViewInv, BinderViewInv, TestViewInv, AwkViewInv, AwkEndInv
<1>5. CASE CollectView \/ CollectEnd \/ BlockView \/ BlockEnd \/ DrivePoll \/ DriveEnd
  BY <1>5, CollectViewInv, CollectEndInv, BlockViewInv, BlockEndInv, DrivePollInv, DriveEndInv
<1> QED
  BY <1>1, <1>2, <1>3, <1>4, <1>5 DEF Next

LEMMA StutterInv ==
  ASSUME IInv, UNCHANGED vars
  PROVE  IInv'
BY DEF vars, IInv, TypeInv, MachineInv

LEMMA InitInv ==
  ASSUME Init
  PROVE  IInv
<1> DEFINE v == View(0, doc)
           n == Len(prog[<<>>])
<1>1. /\ prog \in Programs /\ doc \in Docs /\ IsProgram(prog) /\ doc \in Texts
      /\ st = [p \in DOMAIN prog |-> Chain(p, v)]
      /\ stack = BuildAbove(<<>>, 0) /\ reg = Poll
      /\ flag = FALSE /\ error = <<>> /\ pc = "run"
  BY PipelineAssumption DEF Init, Texts
<1>2. <<>> \in DOMAIN prog /\ n \in Nat /\ \A p \in DOMAIN prog : Len(prog[p]) \in Nat
  BY <1>1 DEF IsProgram
<1>3. v \in GoodViews(doc)
  BY <1>1, WholeGood
<1> DEFINE first == [Fresh EXCEPT !.queue = <<v>>]
           good(x) == x \in StageStates(doc) /\ x.buf = <<>> /\ ~ x.inner /\ ~ x.fused
<1>4. good(first) /\ good(Fresh)
  BY <1>3, FreshIs
<1>5. /\ DOMAIN st = DOMAIN prog
      /\ \A p \in DOMAIN prog :
           /\ DOMAIN st[p] = 0..Len(prog[p])
           /\ \A k \in 0..Len(prog[p]) : st[p][k] = IF k = 0 THEN first ELSE Fresh
  BY <1>1 DEF Chain
<1> HIDE DEF first, good, n
<1>6. \A p \in DOMAIN prog : \A k \in 0..Len(prog[p]) : good(st[p][k])
  BY <1>4, <1>5
<1>7. AreStages(prog, doc, st)
  BY <1>5, <1>6 DEF AreStages, IsStage, good
<1>8. \A p \in DOMAIN prog : \A k \in 0..Len(prog[p]) : ~ Inner(st, p, k) /\ ~ Fused(st, p, k)
  BY <1>6 DEF Inner, Fused, good
<1>9. BlocksFlushed(prog, st)
  BY <1>6 DEF BlocksFlushed, good
<1>10. \A p \in DOMAIN prog : \A k \in Int : k <= Len(prog[p]) => Quiet(st, p, k)
  <2> SUFFICES ASSUME NEW p \in DOMAIN prog, NEW k \in Int, k <= Len(prog[p]), NEW j \in 1..k
               PROVE  ~ Inner(st, p, j)
    BY DEF Quiet
  <2>1. j \in 0..Len(prog[p])
    BY <1>2
  <2> QED
    BY <1>8, <2>1
<1>11. IsStack(prog, <<>>)
  <2>1. <<>> \in Seq(Frames(prog)) /\ Len(<<>>) = 0
    OBVIOUS
  <2> QED
    BY <2>1 DEF IsStack, Descends, CollectsFirst, Collected
<1>12. Flags(prog, <<>>, st)
  <2>1. Len(<<>>) = 0
    OBVIOUS
  <2>2. FlagOps(prog, st)
    BY <1>8 DEF FlagOps
  <2>3. Waiters(<<>>, st) /\ Entered(prog, <<>>, st) /\ OpenAbove(prog, <<>>, st)
    BY <2>1 DEF Waiters, Entered, OpenAbove
  <2>4. FusedQuiet(prog, st)
    <3>1. \A p \in DOMAIN prog : \A k \in 1..Len(prog[p]) : k \in 0..Len(prog[p])
      BY <1>2
    <3> QED
      BY <1>8, <3>1 DEF FusedQuiet
  <2>5. OuterQuiet(prog, st)
    <3>1. \A p \in DOMAIN prog : Len(prog[p]) \in Int /\ Len(prog[p]) <= Len(prog[p])
      BY <1>2
    <3> QED
      BY <1>10, <3>1 DEF OuterQuiet
  <2> QED
    BY <2>2, <2>3, <2>4, <2>5 DEF Flags
<1>13. Above(prog, <<>>, <<>>) /\ 0 \in 0..Len(prog[<<>>])
  BY <1>2 DEF Above, n
<1>14. OpenOver(prog, <<>>, 0, st)
  BY <1>2, <1>8 DEF OpenOver
<1>15. Drained(prog, <<>>, <<>>, 0, st)
  <2> SUFFICES ASSUME NEW q \in DOMAIN prog, NEW r \in Nat, Reducer(prog, q, r)
               PROVE  Quiet(st, q, r - 1)
    BY DEF Drained
  <2>1. r - 1 \in Int /\ r - 1 <= Len(prog[q])
    BY <1>2 DEF Reducer
  <2> QED
    BY <1>10, <2>1
<1>16. Polls(prog, <<>> \o BuildAbove(<<>>, 0), st)
  BY <1>1, <1>2, <1>11, <1>12, <1>13, <1>14, <1>15, Built
<1>17. <<>> \o BuildAbove(<<>>, 0) = BuildAbove(<<>>, 0)
  <2>1. \A a, b : <<>> \o <<a>> = <<a>> /\ <<>> \o <<a, b>> = <<a, b>>
    OBVIOUS
  <2> QED
    BY <2>1 DEF BuildAbove
<1>18. MachineInv
  BY <1>1, <1>16, <1>17, RegsAre DEF MachineInv, Polls
<1>19. TypeInv
  <2>1. Len(<<>>) = 0
    OBVIOUS
  <2>2. reg \in Regs(doc)
    BY <1>1, RegsAre
  <2> QED
    BY <1>1, <1>7, <2>1, <2>2 DEF TypeInv
<1> QED
  BY <1>9, <1>18, <1>19 DEF IInv

(* The invariant holds in every reachable state, of every program on every *)
(* input: what is passed and kept are views of the input or of foreign     *)
(* memory; the stack is a chain of stages that wait for one another, and   *)
(* a block that is not on it, or that a reducer has drained, is at rest    *)
(* with its writers empty.                                                 *)
THEOREM InvHolds == Spec => []IInv
<1>1. Init => IInv
  BY InitInv
<1>2. IInv /\ [Next]_vars => IInv'
  BY NextInv, StutterInv
<1> QED
  BY <1>1, <1>2, PTL DEF Spec

-----------------------------------------------------------------------------
(* What follows.                                                           *)

LEMMA StageOf ==
  ASSUME IInv, NEW s \in Stages
  PROVE  /\ s[1] \in DOMAIN prog /\ s[2] \in 1..Len(prog[s[1]]) /\ s[2] \in 0..Len(prog[s[1]])
         /\ State(s) = st[s[1]][s[2]]
         /\ IsStage(prog, doc, s[1], s[2], State(s))
<1>1. PICK p \in DOMAIN prog : \E k \in DOMAIN prog[p] : s = <<p, k>>
  BY DEF Stages
<1>2. PICK k \in DOMAIN prog[p] : s = <<p, k>>
  BY <1>1
<1>3. IsProgram(prog)
  BY PipelineAssumption DEF IInv, TypeInv
<1>4. DOMAIN prog[p] = 1..Len(prog[p]) /\ Len(prog[p]) \in Nat
  BY <1>3 DEF IsProgram
<1>5. s[1] = p /\ s[2] = k /\ k \in 1..Len(prog[p]) /\ k \in 0..Len(prog[p])
  BY <1>4, <1>2
<1> QED
  BY <1>5 DEF State, IInv, TypeInv, AreStages

LEMMA StackOK ==
  ASSUME IInv, NEW i \in DOMAIN stack
  PROVE  /\ stack[i].p \in DOMAIN prog
         /\ stack[i].k \in 0..Len(prog[stack[i].p])
         /\ stack[i].wait \in {"", "up", "block", "collect"}
         /\ stack[i].wait = "" => i = Len(stack) /\ reg = Poll
<1>1. IsProgram(prog) /\ IsStack(prog, stack) /\ stack \in Seq(Frames(prog))
  BY PipelineAssumption DEF IInv, TypeInv, MachineInv, Machine, IsStack
<1>2. Len(stack) \in Nat /\ i \in 1..Len(stack) /\ stack[i] \in Frames(prog)
  BY <1>1
<1>3. /\ stack[i].p \in DOMAIN prog /\ stack[i].k \in 0..Len(prog[stack[i].p])
      /\ stack[i].wait \in {"", "up", "block", "collect"}
  BY <1>1, <1>2, FrameOf DEF Waits
<1>4. ASSUME stack[i].wait = "" PROVE i = Len(stack) /\ reg = Poll
  <2>1. i = Len(stack)
    <3> SUFFICES ASSUME i # Len(stack) PROVE FALSE
      OBVIOUS
    <3>1. i \in 1..(Len(stack) - 1)
      BY <1>2
    <3>2. Calls(prog, stack[i], stack[i + 1])
      BY <1>1, <3>1 DEF IsStack
    <3> QED
      BY <1>4, <3>2 DEF Calls
  <2>2. stack # <<>> /\ Last(stack) = stack[i]
    BY <1>2, <2>1 DEF Last
  <2> QED
    BY <1>4, <2>1, <2>2 DEF IInv, MachineInv
<1> QED
  BY <1>3, <1>4

(* The type invariant: the stack is a chain of stages that wait for one    *)
(* another, only the last may have been polled, and the buffered writer of *)
(* a command never holds more than its capacity.                           *)
THEOREM TypeOKHolds == Spec => []TypeOK
<1>1. IInv => TypeOK
  <2> SUFFICES ASSUME IInv PROVE TypeOK
    OBVIOUS
  <2>1. reg.kind \in {"poll", "some", "none"}
    BY RegsAre DEF IInv, TypeInv
  <2>2. \A s \in Stages : Len(State(s).buf) <= BufCap
    BY StageOf, StageIs
  <2>3. \A n \in {0, 1} : n <= 1
    OBVIOUS
  <2>4. flag \in BOOLEAN /\ pc \in {"run", "done", "failed", "panicked"} /\ Len(error) <= 1
    BY <2>3, Zenon DEF IInv, TypeInv
  <2>5. \A i \in DOMAIN stack :
          /\ stack[i].p \in DOMAIN prog
          /\ stack[i].k \in 0..Len(prog[stack[i].p])
          /\ stack[i].wait \in {"", "up", "block", "collect"}
          /\ stack[i].wait = "" => i = Len(stack) /\ reg = Poll
    BY StackOK
  <2> QED
    BY <2>1, <2>2, <2>4, <2>5, Zenon DEF TypeOK
<1> QED
  BY <1>1, InvHolds, PTL

(* Between two executions of a block no writer of the block holds output:  *)
(* what a block printed reaches standard output before it runs again, so   *)
(* the executions print in the order of their views.                       *)
THEOREM BlockOutputInOrderHolds == Spec => []BlockOutputInOrder
<1>1. IInv => BlockOutputInOrder
  <2> SUFFICES ASSUME IInv, NEW s \in Stages, NEW b \in Stages, b[1] = Append(s[1], s[2]),
                      ~ State(s).inner
               PROVE  State(b).buf = <<>>
    BY DEF BlockOutputInOrder
  <2>1. /\ s[1] \in DOMAIN prog /\ s[2] \in 1..Len(prog[s[1]])
        /\ Append(s[1], s[2]) \in DOMAIN prog /\ b[2] \in 0..Len(prog[Append(s[1], s[2])])
        /\ State(s) = st[s[1]][s[2]] /\ State(b) = st[Append(s[1], s[2])][b[2]]
    BY StageOf
  <2>2. ~ Inner(st, s[1], s[2])
    BY <2>1 DEF Inner
  <2> QED
    BY <2>1, <2>2 DEF IInv, BlocksFlushed
<1> QED
  BY <1>1, InvHolds, PTL

-----------------------------------------------------------------------------
(* Where views of foreign memory may be: only after a c or an r.  Ahead is *)
(* the order of the places in a program, Before(a, b) that of the places   *)
(* of two stages.                                                          *)

Ahead(x, y) ==
  \E i \in DOMAIN x \cap DOMAIN y : x[i] < y[i] /\ \A j \in 1..(i - 1) : x[j] = y[j]

(* Some stage whose place is ahead of y makes views of foreign memory.     *)
Strays(pr, y) ==
  \E q \in DOMAIN pr : \E j \in 1..Len(pr[q]) :
    pr[q][j].op \in {"c", "r"} /\ Ahead(Append(q, j), y)

(* The views that may arrive at stage k of pipeline p.                     *)
OwnViews(d) == {v \in GoodViews(d) : v.at < Foreign}
Reach(pr, d, p, k) == IF Strays(pr, Append(p, k)) THEN GoodViews(d) ELSE OwnViews(d)

LEMMA PlaceIs ==
  ASSUME NEW p \in Seq(Nat), NEW k \in Nat
  PROVE  /\ Append(p, k) \in Seq(Nat) /\ Len(p) \in Nat
         /\ DOMAIN Append(p, k) = 1..(Len(p) + 1)
         /\ Append(p, k)[Len(p) + 1] = k
         /\ \A i \in 1..Len(p) : Append(p, k)[i] = p[i]
BY AppendProperties

(* What comes later in the same chain.                                     *)
LEMMA AheadLater ==
  ASSUME NEW x \in Seq(Nat), NEW p \in Seq(Nat), NEW k \in Nat, NEW l \in Nat, k <= l,
         Ahead(x, Append(p, k))
  PROVE  Ahead(x, Append(p, l))
<1> DEFINE y == Append(p, k)
           z == Append(p, l)
           n == Len(p)
<1>1. n \in Nat /\ DOMAIN y = 1..(n + 1) /\ y[n + 1] = k /\ \A i \in 1..n : y[i] = p[i]
  BY PlaceIs
<1>2. DOMAIN z = 1..(n + 1) /\ z[n + 1] = l /\ \A i \in 1..n : z[i] = p[i]
  BY PlaceIs
<1>3. PICK i \in DOMAIN x \cap DOMAIN y : x[i] < y[i] /\ \A j \in 1..(i - 1) : x[j] = y[j]
  BY DEF Ahead
<1> HIDE DEF y, z, n
<1>4. x[i] \in Nat /\ i \in 1..(n + 1)
  BY <1>1, <1>3
<1>5. x[i] < z[i]
  <2>1. CASE i = n + 1
    BY <1>1, <1>2, <1>3, <1>4, <2>1
  <2>2. CASE i # n + 1
    <3>1. i \in 1..n
      BY <1>1, <1>4, <2>2
    <3> QED
      BY <1>1, <1>2, <1>3, <3>1
  <2> QED
    BY <2>1, <2>2
<1>6. \A j \in 1..(i - 1) : x[j] = z[j]
  <2>1. \A j \in 1..(i - 1) : j \in 1..n
    BY <1>1, <1>4
  <2> QED
    BY <1>1, <1>2, <1>3, <2>1
<1> QED
  BY <1>1, <1>2, <1>3, <1>5, <1>6 DEF Ahead, z

(* What is in the block of a stage.                                        *)
LEMMA AheadInto ==
  ASSUME NEW x \in Seq(Nat), NEW y \in Seq(Nat), NEW j \in Nat, Ahead(x, y)
  PROVE  Ahead(x, Append(y, j))
<1> DEFINE z == Append(y, j)
<1>1. Len(y) \in Nat /\ DOMAIN z = 1..(Len(y) + 1) /\ \A i \in 1..Len(y) : z[i] = y[i]
  BY PlaceIs
<1>2. PICK i \in DOMAIN x \cap DOMAIN y : x[i] < y[i] /\ \A l \in 1..(i - 1) : x[l] = y[l]
  BY DEF Ahead
<1> HIDE DEF z
<1>3. i \in 1..Len(y) /\ i \in DOMAIN z /\ \A l \in 1..(i - 1) : l \in 1..Len(y)
  BY <1>1, <1>2
<1>4. i \in DOMAIN x \cap DOMAIN z /\ x[i] < z[i] /\ \A l \in 1..(i - 1) : x[l] = z[l]
  BY <1>1, <1>2, <1>3
<1> QED
  BY <1>4 DEF Ahead, z

(* What comes after a stage with a block comes after what is in the block. *)
LEMMA AheadOut ==
  ASSUME NEW x \in Seq(Nat), NEW p \in Seq(Nat), NEW k \in Nat, NEW j \in Nat,
         Ahead(x, Append(Append(p, k), j))
  PROVE  Ahead(x, Append(p, k + 1))
<1> DEFINE y == Append(p, k)
           w == Append(y, j)
           z == Append(p, k + 1)
           n == Len(p)
<1>1. y \in Seq(Nat) /\ n \in Nat /\ DOMAIN y = 1..(n + 1) /\ y[n + 1] = k /\ \A i \in 1..n : y[i] = p[i]
  BY PlaceIs
<1>2. Len(y) = n + 1
  BY AppendProperties
<1>3. DOMAIN z = 1..(n + 1) /\ z[n + 1] = k + 1 /\ \A i \in 1..n : z[i] = p[i]
  BY PlaceIs
<1> HIDE DEF y
<1>4. DOMAIN w = 1..(n + 2) /\ \A i \in 1..(n + 1) : w[i] = y[i]
  BY <1>1, <1>2, PlaceIs
<1>5. PICK i \in DOMAIN x \cap DOMAIN w : x[i] < w[i] /\ \A l \in 1..(i - 1) : x[l] = w[l]
  BY DEF Ahead, y
<1> HIDE DEF w, z, n
<1>6. x[i] \in Nat /\ i \in 1..(n + 2) /\ i \in DOMAIN x /\ DOMAIN x = 1..Len(x) /\ Len(x) \in Nat
  BY <1>4, <1>5
<1>7. CASE i \in 1..n
  <2>1. i \in 1..(n + 1) /\ \A l \in 1..(i - 1) : l \in 1..n /\ l \in 1..(n + 1)
    BY <1>1, <1>7
  <2>2. x[i] < z[i] /\ \A l \in 1..(i - 1) : x[l] = z[l]
    BY <1>1, <1>3, <1>4, <1>5, <1>7, <2>1
  <2> QED
    BY <1>3, <1>6, <2>1, <2>2 DEF Ahead, z
<1>8. CASE i \in {n + 1, n + 2}
  <2>1. n + 1 \in DOMAIN x /\ n + 1 \in 1..(n + 1) /\ x[n + 1] \in Nat
    BY <1>1, <1>6, <1>8
  <2>2. \A l \in 1..n : l \in 1..(n + 1) /\ l \in 1..(i - 1)
    BY <1>1, <1>8
  <2>3. \A l \in 1..n : x[l] = z[l]
    BY <1>1, <1>3, <1>4, <1>5, <2>2
  <2>4. x[n + 1] <= k
    <3>1. CASE i = n + 1
      BY <1>1, <1>4, <1>5, <2>1, <3>1
    <3>2. CASE i = n + 2
      <4>1. n + 1 \in 1..(i - 1)
        BY <1>1, <3>2
      <4> QED
        BY <1>1, <1>4, <1>5, <2>1, <4>1
    <3> QED
      BY <1>8, <3>1, <3>2
  <2> DEFINE m == n + 1
  <2>5. x[m] < z[m] /\ m - 1 = n /\ m \in DOMAIN x \cap DOMAIN z
    BY <1>1, <1>3, <2>1, <2>4
  <2>6. \A l \in 1..(m - 1) : x[l] = z[l]
    BY <2>3, <2>5
  <2> HIDE DEF m
  <2>7. Ahead(x, z)
    BY <2>5, <2>6 DEF Ahead
  <2> QED
    BY <2>7 DEF z
<1>9. i \in 1..n \/ i \in {n + 1, n + 2}
  <2>1. n \in Nat /\ i \in 1..(n + 2)
    BY <1>1, <1>6
  <2> QED
    BY <2>1
<1> QED
  BY <1>7, <1>8, <1>9

LEMMA AheadNext ==
  ASSUME NEW p \in Seq(Nat), NEW k \in Nat
  PROVE  Ahead(Append(p, k), Append(p, k + 1))
<1> DEFINE y == Append(p, k)
           z == Append(p, k + 1)
           n == Len(p)
<1>1. n \in Nat /\ DOMAIN y = 1..(n + 1) /\ y[n + 1] = k /\ \A i \in 1..n : y[i] = p[i]
  BY PlaceIs
<1>2. DOMAIN z = 1..(n + 1) /\ z[n + 1] = k + 1 /\ \A i \in 1..n : z[i] = p[i]
  BY PlaceIs
<1> HIDE DEF y, z, n
<1> DEFINE m == n + 1
<1>3. m \in DOMAIN y \cap DOMAIN z /\ y[m] < z[m] /\ m - 1 = n
  BY <1>1, <1>2
<1>4. \A j \in 1..(m - 1) : y[j] = z[j]
  BY <1>1, <1>2, <1>3
<1> HIDE DEF m
<1>5. Ahead(y, z)
  BY <1>3, <1>4 DEF Ahead
<1> QED
  BY <1>5 DEF y, z

LEMMA ReachIs ==
  ASSUME NEW pr, IsProgram(pr), NEW d \in Texts, Len(d) < Foreign, NEW p \in DOMAIN pr, NEW k \in Nat
  PROVE  /\ Reach(pr, d, p, k) \subseteq GoodViews(d)
         /\ \A v \in GoodViews(d) : v.at <= Len(d) => v \in Reach(pr, d, p, k)
         /\ \A l \in Nat : k <= l => Reach(pr, d, p, k) \subseteq Reach(pr, d, p, l)
         /\ \A j \in Nat : Reach(pr, d, p, k) \subseteq Reach(pr, d, Append(p, k), j)
         /\ \A j \in Nat : Reach(pr, d, Append(p, k), j) \subseteq Reach(pr, d, p, k + 1)
         /\ k > 0 /\ k \in 1..Len(pr[p]) /\ pr[p][k].op \in {"c", "r"}
              => Reach(pr, d, p, k + 1) = GoodViews(d)
<1>1. OwnViews(d) \subseteq GoodViews(d)
  BY DEF OwnViews
<1>2. Reach(pr, d, p, k) \subseteq GoodViews(d)
  BY <1>1 DEF Reach
<1>3. \A y, z : (Strays(pr, y) => Strays(pr, z))
        => (IF Strays(pr, y) THEN GoodViews(d) ELSE OwnViews(d))
             \subseteq (IF Strays(pr, z) THEN GoodViews(d) ELSE OwnViews(d))
  BY <1>1
<1>4. p \in Seq(Nat) /\ \A q \in DOMAIN pr : \A j \in 1..Len(pr[q]) : q \in Seq(Nat) /\ j \in Nat
  BY DEF IsProgram
<1>5. \A q \in DOMAIN pr : \A j \in 1..Len(pr[q]) : Append(q, j) \in Seq(Nat)
  BY <1>4
<1>6. ASSUME NEW v \in GoodViews(d), v.at <= Len(d) PROVE v \in Reach(pr, d, p, k)
  <2>1. v.at < Foreign
    BY <1>6, ViewIs, PipelineAssumption DEF Texts
  <2> QED
    BY <1>6, <2>1 DEF Reach, OwnViews
<1>7. ASSUME NEW l \in Nat, k <= l PROVE Reach(pr, d, p, k) \subseteq Reach(pr, d, p, l)
  <2>1. Strays(pr, Append(p, k)) => Strays(pr, Append(p, l))
    BY <1>4, <1>5, <1>7, AheadLater DEF Strays
  <2> QED
    BY <1>3, <2>1 DEF Reach
<1>8. ASSUME NEW j \in Nat PROVE Reach(pr, d, p, k) \subseteq Reach(pr, d, Append(p, k), j)
  <2>1. Append(p, k) \in Seq(Nat)
    BY <1>4
  <2>2. Strays(pr, Append(p, k)) => Strays(pr, Append(Append(p, k), j))
    BY <1>5, <2>1, AheadInto DEF Strays
  <2> QED
    BY <1>3, <2>2 DEF Reach
<1>9. ASSUME NEW j \in Nat PROVE Reach(pr, d, Append(p, k), j) \subseteq Reach(pr, d, p, k + 1)
  <2>1. Strays(pr, Append(Append(p, k), j)) => Strays(pr, Append(p, k + 1))
    BY <1>4, <1>5, AheadOut DEF Strays
  <2> QED
    BY <1>3, <2>1 DEF Reach
<1>10. ASSUME k \in 1..Len(pr[p]), pr[p][k].op \in {"c", "r"}
       PROVE  Reach(pr, d, p, k + 1) = GoodViews(d)
  <2>1. Strays(pr, Append(p, k + 1))
    BY <1>4, <1>10, AheadNext DEF Strays
  <2> QED
    BY <2>1 DEF Reach
<1> QED
  BY <1>2, <1>6, <1>7, <1>8, <1>9, <1>10

(* A slice may be wherever its view may.                                   *)
LEMMA SliceReach ==
  ASSUME NEW pr, NEW d \in Texts, Len(d) < Foreign, NEW p, NEW k, NEW v \in Reach(pr, d, p, k),
         NEW s \in SpansIn(Len(v.text))
  PROVE  Slice(v, s) \in Reach(pr, d, p, k)
<1>1. v \in GoodViews(d)
  BY DEF Reach, OwnViews
<1>2. Slice(v, s) \in GoodViews(d)
  BY <1>1, SliceGood
<1>3. CASE Strays(pr, Append(p, k))
  BY <1>2, <1>3 DEF Reach
<1>4. CASE ~ Strays(pr, Append(p, k))
  <2>1. v.at < Foreign
    BY <1>4 DEF Reach, OwnViews
  <2>2. EndOf(v) <= Len(d) /\ v.at \in Nat /\ EndOf(v) = v.at + Len(v.text) /\ Len(v.text) \in Nat
    BY <1>1, <2>1, ViewIs, PipelineAssumption DEF GoodViews
  <2>3. s.start \in Nat /\ s.start <= Len(v.text) /\ Slice(v, s).at = v.at + s.start
    BY <2>2 DEF SpansIn, Slice, View
  <2>4. Slice(v, s).at < Foreign
    BY <2>2, <2>3, PipelineAssumption DEF Texts
  <2> QED
    BY <1>2, <1>4, <2>4 DEF Reach, OwnViews
<1> QED
  BY <1>3, <1>4

-----------------------------------------------------------------------------
(* Each iterator keeps only views that may be where it is: what m is to    *)
(* run its block on and what N holds back are views that arrived there,    *)
(* the others are to be passed on.                                         *)
QueuedAt(pr, p, k) == IF k > 0 /\ pr[p][k].op = "m" THEN k ELSE k + 1
HeldAt(pr, p, k)   == IF k > 0 /\ pr[p][k].op = "N" THEN k ELSE k + 1
Placed(pr, d, p, k, s) ==
  /\ s.queue \in Seq(Reach(pr, d, p, QueuedAt(pr, p, k)))
  /\ s.held \in Seq(Reach(pr, d, p, HeldAt(pr, p, k)))
AllPlaced(pr, d, x) ==
  \A p \in DOMAIN pr : \A k \in 0..Len(pr[p]) : Placed(pr, d, p, k, x[p][k])

(* And what is passed may be where it goes.                                *)
Brought(f) == IF f.wait = "block" THEN f.k + 1 ELSE f.k
RegPlaced(pr, d, s, r) ==
  s # <<>> /\ r.kind = "some" => r.view \in Reach(pr, d, Last(s).p, Brought(Last(s)))

PlacedInv == AllPlaced(prog, doc, st) /\ RegPlaced(prog, doc, stack, reg)

(* The views that may be before stage k of the chain that runs.            *)
Here(k) == Reach(prog, doc, Top.p, k)

LEMMA HereIs ==
  ASSUME IInv, stack # <<>>
  PROVE  /\ Here(Top.k) \subseteq Here(Top.k + 1)
         /\ Here(Top.k + 1) \subseteq GoodViews(doc)
         /\ \A v \in GoodViews(doc) : v.at <= Len(doc) => v \in Here(Top.k + 1)
         /\ Top.k > 0 /\ Cmd.op \in {"c", "r"} => Here(Top.k + 1) = GoodViews(doc)
<1>1. /\ IsProgram(prog) /\ doc \in Texts /\ Len(doc) < Foreign /\ Top.p \in DOMAIN prog
      /\ Top.k \in Nat /\ Top.k \in 0..Len(prog[Top.p]) /\ Cmd = prog[Top.p][Top.k]
  BY Running
<1> DEFINE p == Top.p
           k == Top.k
<1>2. p \in DOMAIN prog /\ k \in Nat /\ k <= k + 1 /\ k + 1 \in Nat /\ (k > 0 => k \in 1..Len(prog[p]))
  <2>1. Len(prog[p]) \in Nat
    BY <1>1 DEF IsProgram
  <2> QED
    BY <1>1, <2>1
<1> HIDE DEF p, k
<1> DEFINE l == k + 1
<1>3. l \in Nat /\ k <= l /\ l = k + 1
  BY <1>2
<1> HIDE DEF l
<1>4. Reach(prog, doc, p, k) \subseteq Reach(prog, doc, p, l)
  BY <1>1, <1>2, <1>3, ReachIs
<1>5. /\ Reach(prog, doc, p, l) \subseteq GoodViews(doc)
      /\ \A v \in GoodViews(doc) : v.at <= Len(doc) => v \in Reach(prog, doc, p, l)
  BY <1>1, <1>2, <1>3, ReachIs
<1>6. k > 0 /\ prog[p][k].op \in {"c", "r"} => Reach(prog, doc, p, l) = GoodViews(doc)
  BY <1>1, <1>2, <1>3, ReachIs
<1> QED
  BY <1>1, <1>3, <1>4, <1>5, <1>6 DEF Here, p, k

(* What arrived, and what the last stage keeps.                            *)
LEMMA HereArrived ==
  ASSUME IInv, PlacedInv, stack # <<>>
  PROVE  /\ reg.kind = "some" => reg.view \in Here(Brought(Top))
         /\ Placed(prog, doc, Top.p, Top.k, St)
         /\ Top.k > 0 /\ Cmd.op = "m" => St.queue \in Seq(Here(Top.k))
         /\ ~ (Top.k > 0 /\ Cmd.op = "m") => St.queue \in Seq(Here(Top.k + 1))
         /\ Top.k > 0 /\ Cmd.op = "N" => St.held \in Seq(Here(Top.k))
         /\ ~ (Top.k > 0 /\ Cmd.op = "N") => St.held \in Seq(Here(Top.k + 1))
<1>1. /\ Top.p \in DOMAIN prog /\ Top.k \in 0..Len(prog[Top.p]) /\ St = st[Top.p][Top.k]
      /\ Top = Last(stack) /\ Cmd = prog[Top.p][Top.k]
  BY Running
<1>2. Placed(prog, doc, Top.p, Top.k, St)
  BY <1>1 DEF PlacedInv, AllPlaced
<1>3. reg.kind = "some" => reg.view \in Here(Brought(Top))
  BY <1>1 DEF PlacedInv, RegPlaced, Here
<1> QED
  BY <1>1, <1>2, <1>3 DEF Placed, QueuedAt, HeldAt, Here

(* A step that sets the stage on top of the stack.                         *)
LEMMA PlaceHere ==
  ASSUME IInv, stack # <<>>, NEW s,
         IF Top.k > 0 /\ Cmd.op = "m" THEN s.queue \in Seq(Here(Top.k)) ELSE s.queue \in Seq(Here(Top.k + 1)),
         IF Top.k > 0 /\ Cmd.op = "N" THEN s.held \in Seq(Here(Top.k)) ELSE s.held \in Seq(Here(Top.k + 1))
  PROVE  Placed(prog, doc, Top.p, Top.k, s)
BY Running DEF Placed, QueuedAt, HeldAt, Here

LEMMA PlaceSet ==
  ASSUME IInv, PlacedInv, stack # <<>>, NEW s, SetStage(s), Placed(prog, doc, Top.p, Top.k, s)
  PROVE  AllPlaced(prog, doc, st')
<1> DEFINE p == Top.p
           k == Top.k
           y == st'
<1>1. AreStages(prog, doc, st) /\ p \in DOMAIN prog /\ k \in 0..Len(prog[p])
  BY Running DEF IInv, TypeInv
<1>2. y = [st EXCEPT ![p][k] = s] /\ Placed(prog, doc, p, k, s)
  BY DEF SetStage
<1> HIDE DEF p, k, y
<1>3. Replaces(prog, st, p, k, s, y)
  BY <1>1, <1>2, Put
<1>4. AllPlaced(prog, doc, y)
  BY <1>2, <1>3 DEF PlacedInv, AllPlaced, Replaces
<1> QED
  BY <1>4 DEF y

(* Writing and flushing leave the views alone.                             *)
SameViews(s, t) == t.queue = s.queue /\ t.held = s.held

LEMMA SamePlaced ==
  ASSUME NEW pr, NEW d, NEW p, NEW k, NEW s, NEW t, Placed(pr, d, p, k, s), SameViews(s, t)
  PROVE  Placed(pr, d, p, k, t)
BY DEF Placed, SameViews

LEMMA BufferViews ==
  ASSUME NEW pr, NEW d, NEW p, NEW k, NEW s, IsStage(pr, d, p, k, s), NEW b
  PROVE  SameViews(s, [s EXCEPT !.buf = b])
BY DEF IsStage, StageStates, SameViews

LEMMA PlaceWrite ==
  ASSUME IInv, PlacedInv, stack # <<>>, NEW s, IsStage(prog, doc, Top.p, Top.k, s),
         Placed(prog, doc, Top.p, Top.k, s), NEW r, Write(s, r)
  PROVE  AllPlaced(prog, doc, st')
<1> DEFINE short == [s EXCEPT !.buf = <<r>>]
           long  == [s EXCEPT !.buf = Append(@, r)]
<1>1. SetStage(short) \/ SetStage(long)
  BY DEF Write
<1>2. SameViews(s, short) /\ SameViews(s, long)
  BY BufferViews
<1> HIDE DEF short, long
<1>3. Placed(prog, doc, Top.p, Top.k, short) /\ Placed(prog, doc, Top.p, Top.k, long)
  BY <1>2, SamePlaced
<1> QED
  BY <1>1, <1>3, PlaceSet

(* The view that the last stage replies goes to the stage that waits.      *)
LEMMA PlaceReply ==
  ASSUME IInv, stack # <<>>, NEW v \in Here(Top.k + 1), Reply(Some(v))
  PROVE  RegPlaced(prog, doc, stack', reg')
<1> DEFINE t == Front(stack)
           f == Last(t)
           e == Top
<1>1. /\ IsProgram(prog) /\ doc \in Texts /\ Len(doc) < Foreign /\ Top.p \in DOMAIN prog
      /\ Top.k \in Nat /\ Top = Last(stack) /\ IsStack(prog, stack)
  BY Running
<1>2. stack' = t /\ reg' = Some(v) /\ Some(v).view = v
  BY RegsAre DEF Reply
<1> SUFFICES ASSUME t # <<>> PROVE v \in Reach(prog, doc, f.p, Brought(f))
  BY <1>2 DEF RegPlaced
<1>3. Calls(prog, f, e)
  BY <1>1, FrontCalls
<1>4. f \in Frames(prog) /\ f.p \in DOMAIN prog /\ f.k \in Nat
  <2>1. t \in Seq(Frames(prog))
    BY <1>1, FrontIs DEF IsStack
  <2>2. Len(t) \in 1..Len(t)
    BY <2>1, EmptySeq
  <2>3. f \in Frames(prog)
    BY <2>1, <2>2 DEF Last
  <2> QED
    BY <1>1, <2>3, FrameOf
<1>5. v \in Reach(prog, doc, e.p, e.k + 1) /\ e.k \in Nat /\ e.k + 1 \in Nat
  BY <1>1 DEF Here
<1> HIDE DEF f, e, t
<1>6. CASE f.wait = "block"
  <2>1. e.p = Append(f.p, f.k)
    BY <1>3, <1>6 DEF Calls, Block
  <2>2. Reach(prog, doc, Append(f.p, f.k), e.k + 1) \subseteq Reach(prog, doc, f.p, f.k + 1)
    BY <1>1, <1>4, <1>5, ReachIs
  <2> QED
    BY <1>5, <1>6, <2>1, <2>2 DEF Brought
<1>7. CASE f.wait # "block"
  <2>1. e.p = f.p /\ e.k + 1 = f.k
    BY <1>3, <1>4, <1>7 DEF Calls
  <2> QED
    BY <1>5, <1>7, <2>1 DEF Brought
<1> QED
  BY <1>6, <1>7

LEMMA NothingPlaced ==
  ASSUME NEW pr, NEW d, NEW s
  PROVE  RegPlaced(pr, d, s, Poll) /\ RegPlaced(pr, d, s, End)
BY RegsAre DEF RegPlaced

(* A new chain holds the view it is started on, and no other.              *)
LEMMA ChainPlaced ==
  ASSUME NEW d, NEW p, NEW v, v \in Reach(prog, d, p, 1)
  PROVE  \A j \in 0..Len(prog[p]) : Placed(prog, d, p, j, Chain(p, v)[j])
<1> DEFINE c == Chain(p, v)
           first == [Fresh EXCEPT !.queue = <<v>>]
<1>1. \A j \in 0..Len(prog[p]) : c[j] = IF j = 0 THEN first ELSE Fresh
  BY DEF Chain
<1>2. first.queue = <<v>> /\ first.held = <<>> /\ Fresh.queue = <<>> /\ Fresh.held = <<>>
  BY DEF Fresh
<1> HIDE DEF c, first
<1>3. \A S : <<>> \in Seq(S)
  OBVIOUS
<1>4. \A j : Placed(prog, d, p, j, Fresh)
  BY <1>2, <1>3 DEF Placed
<1>5. Placed(prog, d, p, 0, first)
  <2>1. QueuedAt(prog, p, 0) = 1
    BY DEF QueuedAt
  <2>2. <<v>> \in Seq(Reach(prog, d, p, 1))
    BY OneElement
  <2> QED
    BY <1>2, <1>3, <2>1, <2>2 DEF Placed
<1>6. \A j \in 0..Len(prog[p]) : Placed(prog, d, p, j, c[j])
  BY <1>1, <1>4, <1>5
<1> QED
  BY <1>6 DEF c

LEMMA PlaceEnter ==
  ASSUME IInv, PlacedInv, stack # <<>>, Top.k > 0, Cmd.op \in BlockOps, NEW v \in Here(Top.k), NEW s,
         IsStage(prog, doc, Top.p, Top.k, s), Placed(prog, doc, Top.p, Top.k, s), Enter(v, s)
  PROVE  AllPlaced(prog, doc, st') /\ reg' = Poll
<1> DEFINE p == Top.p
           k == Top.k
           b == Block(Top)
           c == Chain(b, v)
           u == [s EXCEPT !.inner = TRUE]
           y == st'
<1>1. /\ IsProgram(prog) /\ AreStages(prog, doc, st) /\ p \in DOMAIN prog /\ k \in 0..Len(prog[p])
      /\ k \in Nat /\ Top \in Frames(prog) /\ Cmd.op = Op(prog, Top) /\ doc \in Texts /\ Len(doc) < Foreign
  BY Running DEF IInv, TypeInv
<1>2. y = [st EXCEPT ![p][k] = u, ![b] = c] /\ reg' = Poll
  BY DEF Enter
<1>3. b \in DOMAIN prog /\ b # p /\ b = Append(p, k)
  <2>1. b \in DOMAIN prog
    BY <1>1, BlockIs
  <2>2. Len(p) <= Len(p)
    BY <1>1 DEF IsProgram
  <2>3. p # b
    BY <1>1, <2>2, BlockIs
  <2> QED
    BY <2>1, <2>3 DEF Block
<1>4. Placed(prog, doc, p, k, u)
  <2>1. SameViews(s, u)
    BY DEF IsStage, StageStates, SameViews
  <2> HIDE DEF u
  <2> QED
    BY <2>1, SamePlaced
<1>5. DOMAIN c = 0..Len(prog[b]) /\ \A j \in 0..Len(prog[b]) : Placed(prog, doc, b, j, c[j])
  <2>1. v \in Reach(prog, doc, b, 1)
    <3>1. v \in Reach(prog, doc, p, k)
      BY DEF Here
    <3> HIDE DEF p, k, b
    <3> QED
      BY <1>1, <1>3, <3>1, ReachIs
  <2> HIDE DEF b
  <2> QED
    BY <2>1, ChainPlaced DEF Chain
<1> HIDE DEF p, k, b, c, u, y
<1>6. \A q \in DOMAIN prog : \A j \in 0..Len(prog[q]) :
        y[q][j] = IF q = b THEN c[j] ELSE IF q = p /\ j = k THEN u ELSE st[q][j]
  BY <1>1, <1>2, <1>3, <1>5 DEF AreStages
<1>7. AllPlaced(prog, doc, y)
  BY <1>4, <1>5, <1>6 DEF PlacedInv, AllPlaced
<1> QED
  BY <1>2, <1>7 DEF y

(* Dropping stages leaves the views of the others, and its own, alone.     *)
LEMMA FlushedViews ==
  ASSUME IInv, NEW p \in DOMAIN prog, NEW n \in Int
  PROVE  \A k \in 0..Len(prog[p]) : SameViews(st[p][k], Flushed(p, n)[k])
<1> SUFFICES ASSUME NEW k \in 0..Len(prog[p]) PROVE SameViews(st[p][k], Flushed(p, n)[k])
  OBVIOUS
<1> DEFINE s == st[p][k]
           t == [s EXCEPT !.buf = <<>>]
<1>1. DOMAIN st[p] = 0..Len(prog[p]) /\ IsStage(prog, doc, p, k, s)
  BY DEF IInv, TypeInv, AreStages
<1>2. Flushed(p, n)[k] = IF k <= n THEN t ELSE s
  BY <1>1 DEF Flushed
<1> HIDE DEF s
<1>3. SameViews(s, t)
  BY <1>1, BufferViews
<1> HIDE DEF t
<1> QED
  BY <1>2, <1>3 DEF SameViews, s

(* A step after which the stages keep what they kept.                      *)
LEMMA PlaceSame ==
  ASSUME PlacedInv, NEW y,
         \A p \in DOMAIN prog : \A k \in 0..Len(prog[p]) : SameViews(st[p][k], y[p][k])
  PROVE  AllPlaced(prog, doc, y)
BY SamePlaced DEF PlacedInv, AllPlaced

(* What is left to show of a step.                                         *)
LEMMA PlaceStep ==
  ASSUME UNCHANGED <<prog, doc>>, AllPlaced(prog, doc, st'), RegPlaced(prog, doc, stack', reg')
  PROVE  PlacedInv'
BY DEF PlacedInv

LEMMA PlaceQuiet ==
  ASSUME UNCHANGED <<prog, doc>>, AllPlaced(prog, doc, st'), reg' \in {Poll, End}
  PROVE  PlacedInv'
BY NothingPlaced, PlaceStep

LEMMA PlaceAnswer ==
  ASSUME IInv, UNCHANGED <<prog, doc>>, AllPlaced(prog, doc, st'), stack # <<>>,
         NEW v \in Here(Top.k + 1), Reply(Some(v))
  PROVE  PlacedInv'
BY PlaceReply, PlaceStep

LEMMA PlacedStages ==
  ASSUME PlacedInv, st' = st
  PROVE  AllPlaced(prog, doc, st')
BY DEF PlacedInv

LEMMA HeadTailAt ==
  ASSUME NEW k, NEW q \in Seq(Here(k)), q # <<>>
  PROVE  Head(q) \in Here(k) /\ Tail(q) \in Seq(Here(k)) /\ q[1] \in Here(k)
<1>1. 1 \in 1..Len(q)
  BY EmptySeq
<1> QED
  BY <1>1, HeadTail

(* A stage with other views in its queue, or other views held back.        *)
LEMMA QueueViews ==
  ASSUME NEW pr, NEW d, NEW p, NEW k, NEW s, IsStage(pr, d, p, k, s), NEW q
  PROVE  [s EXCEPT !.queue = q].queue = q /\ [s EXCEPT !.queue = q].held = s.held
BY DEF IsStage, StageStates

LEMMA HoldViews ==
  ASSUME NEW pr, NEW d, NEW p, NEW k, NEW s, IsStage(pr, d, p, k, s), NEW q
  PROVE  [s EXCEPT !.held = q].held = q /\ [s EXCEPT !.held = q].queue = s.queue
BY DEF IsStage, StageStates

LEMMA PlaceQueue ==
  ASSUME IInv, PlacedInv, stack # <<>>, NEW q,
         IF Top.k > 0 /\ Cmd.op = "m" THEN q \in Seq(Here(Top.k)) ELSE q \in Seq(Here(Top.k + 1))
  PROVE  Placed(prog, doc, Top.p, Top.k, [St EXCEPT !.queue = q])
<1> DEFINE s == [St EXCEPT !.queue = q]
<1>1. IsStage(prog, doc, Top.p, Top.k, St)
  BY Running
<1>2. s.queue = q /\ s.held = St.held
  BY <1>1, QueueViews
<1> HIDE DEF s
<1>3. Placed(prog, doc, Top.p, Top.k, s)
  BY <1>2, HereArrived, PlaceHere
<1> QED
  BY <1>3 DEF s

LEMMA PlaceHold ==
  ASSUME IInv, PlacedInv, stack # <<>>, NEW q,
         IF Top.k > 0 /\ Cmd.op = "N" THEN q \in Seq(Here(Top.k)) ELSE q \in Seq(Here(Top.k + 1))
  PROVE  Placed(prog, doc, Top.p, Top.k, [St EXCEPT !.held = q])
<1> DEFINE s == [St EXCEPT !.held = q]
<1>1. IsStage(prog, doc, Top.p, Top.k, St)
  BY Running
<1>2. s.held = q /\ s.queue = St.queue
  BY <1>1, HoldViews
<1> HIDE DEF s
<1>3. Placed(prog, doc, Top.p, Top.k, s)
  BY <1>2, HereArrived, PlaceHere
<1> QED
  BY <1>3 DEF s

LEMMA ArrivedHere ==
  ASSUME IInv, PlacedInv, NEW op, Arrived(op, "some")
  PROVE  reg.view \in Here(Top.k) /\ reg.view \in Here(Top.k + 1) /\ reg = Some(reg.view)
         /\ reg.view \in GoodViews(doc) /\ stack # <<>> /\ Top.k > 0 /\ Cmd.op = op
<1>1. /\ stack # <<>> /\ reg = Some(reg.view) /\ reg.view \in GoodViews(doc) /\ Top.k > 0 /\ Cmd.op = op
      /\ Top.wait = "up" /\ reg.kind = "some"
  BY ArrivedIs DEF Arrived
<1>2. Brought(Top) = Top.k
  BY <1>1 DEF Brought
<1>3. reg.view \in Here(Top.k)
  BY <1>1, <1>2, HereArrived
<1> QED
  BY <1>1, <1>3, HereIs

-----------------------------------------------------------------------------
(* Every action keeps the views where they may be.                         *)

LEMMA PlacedPollSource ==
  ASSUME IInv, PlacedInv, PollSource \/ PollReduce
  PROVE  PlacedInv'
<1>1. /\ stack # <<>> /\ SetStage([St EXCEPT !.queue = <<>>]) /\ UNCHANGED <<prog, doc>>
      /\ IF St.queue = <<>> THEN Reply(End) ELSE Reply(Some(Head(St.queue)))
      /\ ~ (Top.k > 0 /\ Cmd.op = "m")
  <2>1. CASE PollSource
    BY <2>1 DEF PollSource
  <2>2. CASE PollReduce
    BY <2>2 DEF PollReduce, Polled
  <2> QED
    BY <2>1, <2>2
<1>2. <<>> \in Seq(Here(Top.k + 1))
  OBVIOUS
<1>3. AllPlaced(prog, doc, st')
  BY <1>1, <1>2, PlaceQueue, PlaceSet
<1>4. St.queue \in Seq(Here(Top.k + 1))
  BY <1>1, HereArrived
<1>5. CASE St.queue = <<>>
  BY <1>1, <1>3, <1>5, PlaceQuiet DEF Reply
<1>6. CASE St.queue # <<>>
  <2>1. Head(St.queue) \in Here(Top.k + 1)
    BY <1>4, <1>6, HeadTailAt
  <2> QED
    BY <1>1, <1>3, <1>6, <2>1, PlaceAnswer
<1> QED
  BY <1>5, <1>6

LEMMA PlacedPollFlatMap ==
  ASSUME IInv, PlacedInv, PollFlatMap
  PROVE  PlacedInv'
<1> DEFINE v == Head(St.queue)
           q == Tail(St.queue)
           s == [St EXCEPT !.queue = q]
<1>1. /\ UNCHANGED <<prog, doc>> /\ stack # <<>> /\ Top.k > 0
      /\ \/ reg' = Poll /\ UNCHANGED st
         \/ St.queue # <<>> /\ Cmd.op # "m" /\ Reply(Some(v)) /\ SetStage(s)
         \/ St.queue # <<>> /\ Cmd.op = "m" /\ Enter(v, s)
         \/ reg' = End /\ UNCHANGED st
  BY DEF PollFlatMap, Polled, PollBlock, PollUp, Reply
<1>2. IsStage(prog, doc, Top.p, Top.k, St)
  BY <1>1, Running
<1>3. CASE reg' \in {Poll, End} /\ UNCHANGED st
  BY <1>1, <1>3, PlacedStages, PlaceQuiet
<1>4. CASE St.queue # <<>> /\ Cmd.op # "m" /\ Reply(Some(v)) /\ SetStage(s)
  <2>1. St.queue \in Seq(Here(Top.k + 1))
    BY <1>1, <1>4, HereArrived
  <2>2. v \in Here(Top.k + 1) /\ q \in Seq(Here(Top.k + 1))
    BY <1>4, <2>1, HeadTailAt
  <2> HIDE DEF v, q
  <2>3. AllPlaced(prog, doc, st')
    BY <1>1, <1>4, <2>2, PlaceQueue, PlaceSet
  <2> QED
    BY <1>1, <1>4, <2>2, <2>3, PlaceAnswer
<1>5. CASE St.queue # <<>> /\ Cmd.op = "m" /\ Enter(v, s)
  <2>1. St.queue \in Seq(Here(Top.k))
    BY <1>1, <1>5, HereArrived
  <2>2. v \in Here(Top.k) /\ q \in Seq(Here(Top.k))
    BY <1>5, <2>1, HeadTailAt
  <2>3. q \in Seq(GoodViews(doc))
    BY <1>2, <1>5, StageIs, HeadTail
  <2> HIDE DEF v, q
  <2>4. Placed(prog, doc, Top.p, Top.k, s)
    BY <1>1, <1>5, <2>2, PlaceQueue
  <2>5. IsStage(prog, doc, Top.p, Top.k, s)
    BY <1>2, <2>3, Requeued DEF Keeps
  <2> HIDE DEF s
  <2>6. AllPlaced(prog, doc, st') /\ reg' = Poll
    BY <1>1, <1>5, <2>2, <2>4, <2>5, PlaceEnter DEF BlockOps
  <2> QED
    BY <1>1, <2>6, PlaceQuiet
<1> QED
  BY <1>1, <1>3, <1>4, <1>5

(* The steps that touch no view.                                           *)
LEMMA PlacedIdle ==
  ASSUME PlacedInv, PollThrough \/ PollBinder \/ PassEnd \/ DrivePoll
  PROVE  PlacedInv'
<1>1. UNCHANGED <<prog, doc, st>> /\ reg' \in {Poll, End}
  BY DEF PollThrough, PollBinder, PassEnd, DrivePoll, PollUp, PollBlock, Reply
<1> QED
  BY <1>1, PlacedStages, PlaceQuiet

LEMMA PlacedSplit ==
  ASSUME IInv, PlacedInv, Split \/ MapView
  PROVE  PlacedInv'
<1> DEFINE v == reg.view
<1>1. PICK q \in {Extracted(Cmd.re, v), Yanked(Cmd.re, v)} : SetStage([St EXCEPT !.queue = q])
  <2>1. CASE Split
    BY <2>1 DEF Split
  <2>2. CASE MapView
    BY <2>2 DEF MapView
  <2> QED
    BY <2>1, <2>2
<1>2. /\ UNCHANGED <<prog, doc>> /\ reg' = Poll
      /\ \E op : Arrived(op, "some")
  BY DEF Split, MapView, Again
<1>3. v \in Here(Top.k) /\ v \in GoodViews(doc) /\ stack # <<>> /\ Here(Top.k) \subseteq Here(Top.k + 1)
  BY <1>2, ArrivedHere, HereIs
<1>4. doc \in Texts /\ Len(doc) < Foreign
  BY <1>3, Running
<1>5. \A s \in SpansIn(Len(v.text)) : Slice(v, s) \in Here(Top.k)
  BY <1>3, <1>4, SliceReach DEF Here
<1>6. v \in Views
  BY <1>3, <1>4, ViewIs
<1> HIDE DEF v
<1>7. q \in Seq(Here(Top.k))
  BY <1>1, <1>5, <1>6, ExtractedIn, YankedIn
<1>8. q \in Seq(Here(Top.k + 1))
  BY <1>3, <1>7
<1> HIDE <1>1
<1>9. Placed(prog, doc, Top.p, Top.k, [St EXCEPT !.queue = q])
  BY <1>3, <1>7, <1>8, PlaceQueue
<1>10. AllPlaced(prog, doc, st')
  BY <1>1, <1>3, <1>9, PlaceSet
<1> QED
  BY <1>2, <1>10, PlaceQuiet

LEMMA PlacedExpand ==
  ASSUME IInv, PlacedInv, Expand
  PROVE  PlacedInv'
<1> DEFINE whole == View(0, doc)
           span == Expanded(doc, reg.view.at, EndOf(reg.view))
           v == Slice(whole, span)
<1>1. /\ UNCHANGED <<prog, doc, st>> /\ Arrived("+", "some")
      /\ IF reg.view.at > Len(doc) THEN UNCHANGED <<stack, reg>> ELSE Reply(Some(v))
  BY DEF Expand
<1>2. stack # <<>> /\ reg.view \in GoodViews(doc)
  BY <1>1, ArrivedHere
<1>3. doc \in Texts /\ Len(doc) < Foreign /\ Len(doc) \in Nat
  BY <1>2, Running
<1>4. AllPlaced(prog, doc, st')
  BY <1>1, PlacedStages
<1>5. CASE reg.view.at > Len(doc)
  BY <1>1, <1>4, <1>5 DEF PlacedInv
<1>6. CASE ~ reg.view.at > Len(doc)
  <2>1. /\ reg.view.at \in Nat /\ EndOf(reg.view) \in Nat /\ reg.view.at <= EndOf(reg.view)
        /\ EndOf(reg.view) <= Len(doc)
    BY <1>2, <1>3, <1>6, ViewIs
  <2>2. span \in SpansIn(Len(doc))
    BY <1>3, <2>1, ExpandedSpan
  <2>3. whole \in GoodViews(doc) /\ whole.text = doc /\ whole.at = 0
    BY <1>3, WholeGood DEF View
  <2>4. Reply(Some(v))
    BY <1>1, <1>6
  <2> HIDE DEF whole, span
  <2>5. v \in GoodViews(doc) /\ v.at <= Len(doc)
    <3>1. v \in GoodViews(doc)
      BY <1>3, <2>2, <2>3, SliceGood
    <3>2. span.start \in Nat /\ span.start <= Len(doc)
      BY <1>3, <2>2 DEF SpansIn
    <3>3. v.at = 0 + span.start
      BY <2>3 DEF Slice, View
    <3> QED
      BY <3>1, <3>2, <3>3
  <2> HIDE DEF v
  <2>6. v \in Here(Top.k + 1)
    BY <1>2, <2>5, HereIs
  <2> QED
    BY <1>1, <1>2, <1>4, <2>4, <2>6, PlaceAnswer
<1> QED
  BY <1>5, <1>6

LEMMA PlacedCollapse ==
  ASSUME IInv, PlacedInv, Collapse
  PROVE  PlacedInv'
<1> DEFINE inner == Collapsed(reg.view.text)
           v == Slice(reg.view, inner[1])
<1>1. /\ UNCHANGED <<prog, doc, st>> /\ Arrived("-", "some")
      /\ IF inner = <<>> THEN Again ELSE Reply(Some(v))
  BY DEF Collapse
<1>2. /\ reg.view \in Here(Top.k) /\ reg.view \in GoodViews(doc) /\ stack # <<>>
      /\ Here(Top.k) \subseteq Here(Top.k + 1)
  BY <1>1, ArrivedHere, HereIs
<1>3. doc \in Texts /\ reg.view.text \in Texts /\ Len(doc) < Foreign
  BY <1>2, Running, ViewIs
<1>4. AllPlaced(prog, doc, st')
  BY <1>1, PlacedStages
<1>5. inner # <<>> => v \in Here(Top.k + 1)
  <2>1. inner # <<>> => inner[1] \in SpansIn(Len(reg.view.text))
    BY <1>3, CollapsedSpan
  <2> HIDE DEF inner
  <2>2. inner # <<>> => v \in Here(Top.k)
    BY <1>2, <1>3, <2>1, SliceReach DEF Here
  <2> QED
    BY <1>2, <2>2
<1> HIDE DEF inner, v
<1>6. CASE inner = <<>>
  BY <1>1, <1>4, <1>6, PlaceQuiet DEF Again
<1>7. CASE inner # <<>>
  BY <1>1, <1>2, <1>4, <1>5, <1>7, PlaceAnswer
<1> QED
  BY <1>6, <1>7

(* A view that passes as it is.                                            *)
LEMMA PlacePass ==
  ASSUME IInv, PlacedInv, UNCHANGED <<prog, doc>>, AllPlaced(prog, doc, st'),
         NEW op, Arrived(op, "some"), Reply(reg)
  PROVE  PlacedInv'
<1> DEFINE v == reg.view
<1>1. v \in Here(Top.k + 1) /\ reg = Some(v) /\ stack # <<>>
  BY ArrivedHere
<1>2. Reply(Some(v))
  BY <1>1
<1> HIDE DEF v
<1> QED
  BY <1>1, <1>2, PlaceAnswer

LEMMA PlacedFilter ==
  ASSUME IInv, PlacedInv, Filter \/ Substitute
  PROVE  PlacedInv'
<1>1. UNCHANGED <<prog, doc, st>> /\ (Reply(reg) \/ reg' = Poll) /\ \E op : Arrived(op, "some")
  BY DEF Filter, Substitute, Again
<1>2. AllPlaced(prog, doc, st')
  BY <1>1, PlacedStages
<1> QED
  BY <1>1, <1>2, PlacePass, PlaceQuiet

LEMMA PlacedChange ==
  ASSUME IInv, PlacedInv, Change
  PROVE  PlacedInv'
<1> DEFINE v == View(Foreign, ChangeText)
<1>1. UNCHANGED <<prog, doc, st>> /\ Arrived("c", "some") /\ Reply(Some(v))
  BY DEF Change
<1>2. ChangeText \in Texts
  BY PipelineAssumption DEF ChangeText, Texts
<1>3. v \in GoodViews(doc)
  BY <1>2, ForeignGood
<1> HIDE DEF v
<1>4. stack # <<>> /\ v \in Here(Top.k + 1)
  BY <1>1, <1>3, ArrivedHere, HereIs
<1> QED
  BY <1>1, <1>4, PlacedStages, PlaceAnswer

LEMMA PlacedPrint ==
  ASSUME IInv, PlacedInv, PrintView
  PROVE  PlacedInv'
<1>1. /\ UNCHANGED <<prog, doc>> /\ Reply(reg) /\ Write(St, Record(Cmd.op, reg.view))
      /\ \E op : Arrived(op, "some")
  BY DEF PrintView
<1>2. stack # <<>>
  BY <1>1, ArrivedHere
<1>3. IsStage(prog, doc, Top.p, Top.k, St) /\ Placed(prog, doc, Top.p, Top.k, St)
  BY <1>2, Running, HereArrived
<1>4. AllPlaced(prog, doc, st')
  BY <1>1, <1>2, <1>3, PlaceWrite
<1> QED
  BY <1>1, <1>4, PlacePass

LEMMA PlacedNextFirst ==
  ASSUME IInv, PlacedInv, NextFirst
  PROVE  PlacedInv'
<1> DEFINE h == <<reg.view>>
<1>1. UNCHANGED <<prog, doc>> /\ Arrived("N", "some") /\ reg' = Poll /\ SetStage([St EXCEPT !.held = h])
  BY DEF NextFirst, PollUp
<1>2. stack # <<>> /\ Top.k > 0 /\ Cmd.op = "N" /\ reg.view \in Here(Top.k)
  BY <1>1, ArrivedHere
<1>3. h \in Seq(Here(Top.k))
  BY <1>2
<1> HIDE DEF h
<1>4. AllPlaced(prog, doc, st')
  BY <1>1, <1>2, <1>3, PlaceHold, PlaceSet
<1> QED
  BY <1>1, <1>4, PlaceQuiet

(* N lets go of the view it holds.                                         *)
LEMMA PlaceNoHeld ==
  ASSUME IInv, PlacedInv, stack # <<>>, SetStage([St EXCEPT !.held = <<>>])
  PROVE  AllPlaced(prog, doc, st')
<1>1. \A S : <<>> \in Seq(S)
  OBVIOUS
<1> QED
  BY <1>1, PlaceHold, PlaceSet

LEMMA PlacedNextSecond ==
  ASSUME IInv, PlacedInv, NextSecond
  PROVE  PlacedInv'
<1> DEFINE h == St.held[1]
           v == Merged(h, reg.view)
           off == EndOf(reg.view) > Len(doc) \/ EndOf(h) > Len(doc)
<1>1. /\ UNCHANGED <<prog, doc>> /\ Arrived("N", "some") /\ St.held # <<>>
      /\ IF off THEN UNCHANGED <<st, stack, reg>>
         ELSE Reply(Some(v)) /\ SetStage([St EXCEPT !.held = <<>>])
  BY DEF NextSecond
<1>2. stack # <<>> /\ reg.view \in GoodViews(doc)
  BY <1>1, ArrivedHere
<1>3. doc \in Texts /\ Len(doc) \in Nat /\ h \in GoodViews(doc)
  <2>1. doc \in Texts /\ Len(doc) \in Nat /\ St.held \in Seq(GoodViews(doc))
    BY <1>2, Running, StageIs
  <2>2. 1 \in 1..Len(St.held)
    BY <1>1, <2>1, EmptySeq
  <2> QED
    BY <2>1, <2>2
<1>4. CASE off
  BY <1>1, <1>4 DEF PlacedInv
<1>5. CASE ~ off
  <2>1. Reply(Some(v)) /\ AllPlaced(prog, doc, st')
    BY <1>1, <1>2, <1>5, PlaceNoHeld
  <2>2. /\ EndOf(h) \in Nat /\ EndOf(reg.view) \in Nat /\ h.at \in Nat /\ h.at <= EndOf(h)
        /\ reg.view.at \in Nat
    BY <1>2, <1>3, ViewIs
  <2>3. EndOf(h) <= Len(doc) /\ EndOf(reg.view) <= Len(doc)
    BY <1>3, <1>5, <2>2
  <2>4. v \in GoodViews(doc)
    BY <1>2, <1>3, <2>3, MergedGood
  <2>5. v.at <= h.at
    BY <2>2 DEF Merged, View
  <2>6. v.at \in Nat
    BY <1>3, <2>4, ViewIs
  <2> HIDE DEF v, h
  <2>7. v.at <= Len(doc)
    BY <1>3, <2>2, <2>3, <2>5, <2>6
  <2>8. v \in Here(Top.k + 1)
    BY <1>2, <2>4, <2>7, HereIs
  <2> QED
    BY <1>1, <1>2, <2>1, <2>8, PlaceAnswer
<1> QED
  BY <1>4, <1>5

LEMMA PlacedNextEnd ==
  ASSUME IInv, PlacedInv, NextEnd
  PROVE  PlacedInv'
<1> DEFINE h == St.held[1]
<1>1. /\ UNCHANGED <<prog, doc>> /\ Arrived("N", "none")
      /\ IF St.held = <<>> THEN Reply(End) ELSE Reply(Some(h))
      /\ SetStage([St EXCEPT !.held = <<>>])
  BY DEF NextEnd, Reply
<1>2. stack # <<>> /\ Top.k > 0 /\ Cmd.op = "N"
  BY <1>1, ArrivedIs
<1>3. AllPlaced(prog, doc, st') /\ Here(Top.k) \subseteq Here(Top.k + 1) /\ St.held \in Seq(Here(Top.k))
  BY <1>1, <1>2, PlaceNoHeld, HereIs, HereArrived
<1>4. St.held # <<>> => h \in Here(Top.k + 1)
  BY <1>3, HeadTailAt
<1> HIDE DEF h
<1>5. CASE St.held = <<>>
  BY <1>1, <1>3, <1>5, PlaceQuiet DEF Reply
<1>6. CASE St.held # <<>>
  BY <1>1, <1>2, <1>3, <1>4, <1>6, PlaceAnswer
<1> QED
  BY <1>5, <1>6

LEMMA PlacedGroup ==
  ASSUME IInv, PlacedInv, GroupView
  PROVE  PlacedInv'
<1> DEFINE v == reg.view
<1>1. UNCHANGED <<prog, doc>> /\ Arrived("group", "some") /\ Enter(v, St)
  BY DEF GroupView
<1>2. stack # <<>> /\ Top.k > 0 /\ Cmd.op \in BlockOps /\ v \in Here(Top.k)
  BY <1>1, ArrivedHere DEF BlockOps
<1> HIDE DEF v
<1>3. AllPlaced(prog, doc, st') /\ reg' = Poll
  BY <1>1, <1>2, Running, HereArrived, PlaceEnter
<1> QED
  BY <1>1, <1>3, PlaceQuiet

LEMMA PlacedBinder ==
  ASSUME IInv, PlacedInv, BinderView
  PROVE  PlacedInv'
<1> DEFINE v == reg.view
           h == <<v>>
           s == [St EXCEPT !.held = h]
<1>1. /\ UNCHANGED <<prog, doc>> /\ Arrived("/", "some")
      /\ Enter(v, s) \/ (Reply(reg) /\ UNCHANGED st)
  BY DEF BinderView
<1>2. /\ stack # <<>> /\ Top.k > 0 /\ Cmd.op = "/" /\ v \in Here(Top.k) /\ v \in Here(Top.k + 1)
      /\ v \in GoodViews(doc)
  BY <1>1, ArrivedHere
<1>3. CASE Reply(reg) /\ UNCHANGED st
  BY <1>1, <1>3, PlacedStages, PlacePass
<1>4. CASE Enter(v, s)
  <2>1. h \in Seq(Here(Top.k + 1)) /\ h \in Seq(GoodViews(doc)) /\ h # <<>>
    BY <1>2
  <2> HIDE DEF v, h
  <2>2. Placed(prog, doc, Top.p, Top.k, s)
    BY <1>2, <2>1, PlaceHold
  <2>3. IsStage(prog, doc, Top.p, Top.k, s)
    BY <1>2, <2>1, Running, Reheld DEF Keeps
  <2> HIDE DEF s
  <2>4. AllPlaced(prog, doc, st') /\ reg' = Poll
    BY <1>2, <1>4, <2>2, <2>3, PlaceEnter DEF BlockOps
  <2> QED
    BY <1>1, <2>4, PlaceQuiet
<1> QED
  BY <1>1, <1>3, <1>4

LEMMA PlacedTest ==
  ASSUME IInv, PlacedInv, TestView
  PROVE  PlacedInv'
<1> DEFINE v == reg.view
           q == <<v>>
           s == [St EXCEPT !.held = <<>>]
<1>1. /\ UNCHANGED <<prog, doc>> /\ Arrived("t", "some")
      /\ Enter(v, s) \/ (SetStage([St EXCEPT !.queue = q]) /\ reg' = Poll)
  BY DEF TestView, Again
<1>2. /\ stack # <<>> /\ Top.k > 0 /\ Cmd.op = "t" /\ v \in Here(Top.k) /\ v \in Here(Top.k + 1)
      /\ v \in GoodViews(doc)
  BY <1>1, ArrivedHere
<1>3. CASE SetStage([St EXCEPT !.queue = q]) /\ reg' = Poll
  <2>1. q \in Seq(Here(Top.k + 1))
    BY <1>2
  <2> HIDE DEF q
  <2>2. AllPlaced(prog, doc, st')
    BY <1>2, <1>3, <2>1, PlaceQueue, PlaceSet
  <2> QED
    BY <1>1, <1>3, <2>2, PlaceQuiet
<1>4. CASE Enter(v, s)
  <2>1. \A S : <<>> \in Seq(S)
    OBVIOUS
  <2>2. Placed(prog, doc, Top.p, Top.k, s)
    BY <1>2, <2>1, PlaceHold
  <2>3. /\ IsStage(prog, doc, Top.p, Top.k, St) /\ <<>> \in Seq(GoodViews(doc))
        /\ ~ prog[Top.p][Top.k].op = "/"
    BY <1>2, <2>1, Running
  <2>4. IsStage(prog, doc, Top.p, Top.k, s)
    BY <2>3, Reheld DEF Keeps
  <2> HIDE DEF s, v
  <2>5. AllPlaced(prog, doc, st') /\ reg' = Poll
    BY <1>2, <1>4, <2>2, <2>4, PlaceEnter DEF BlockOps
  <2> QED
    BY <1>1, <2>5, PlaceQuiet
<1> QED
  BY <1>1, <1>3, <1>4

(* The flags of an AwkRun have nothing to do with the views.               *)
LEMMA AwkViews ==
  ASSUME NEW pr, NEW d, NEW p, NEW k, NEW s, IsStage(pr, d, p, k, s), NEW e, NEW c
  PROVE  /\ SameViews(s, [s EXCEPT !.errored = e])
         /\ SameViews(s, [s EXCEPT !.began = TRUE, !.errored = e])
         /\ SameViews(s, [s EXCEPT !.ended = TRUE, !.errored = e, !.buf = c])
BY DEF IsStage, StageStates, SameViews

LEMMA PlacedPollAwk ==
  ASSUME IInv, PlacedInv, PollAwk
  PROVE  PlacedInv'
<1> DEFINE fails == Cmd.re = "begin"
           s == [St EXCEPT !.began = TRUE, !.errored = fails]
<1>1. /\ UNCHANGED <<prog, doc>> /\ stack # <<>>
      /\ \/ reg' = Poll /\ UNCHANGED st
         \/ Write(s, Record("BEGIN", NoView)) /\ UNCHANGED <<stack, reg>>
  BY DEF PollAwk, Polled, PollUp
<1>2. CASE reg' = Poll /\ UNCHANGED st
  BY <1>1, <1>2, PlacedStages, PlaceQuiet
<1>3. CASE Write(s, Record("BEGIN", NoView)) /\ UNCHANGED <<stack, reg>>
  <2>1. /\ IsStage(prog, doc, Top.p, Top.k, St) /\ Placed(prog, doc, Top.p, Top.k, St)
        /\ fails \in BOOLEAN
    BY <1>1, Running, HereArrived
  <2>2. IsStage(prog, doc, Top.p, Top.k, s) /\ Placed(prog, doc, Top.p, Top.k, s)
    BY <2>1, AwkFlags, AwkViews, SamePlaced DEF Keeps
  <2> HIDE DEF s
  <2>3. AllPlaced(prog, doc, st')
    BY <1>1, <1>3, <2>2, PlaceWrite
  <2> QED
    BY <1>1, <1>3, <2>3 DEF PlacedInv
<1> QED
  BY <1>1, <1>2, <1>3

LEMMA PlacedAwkView ==
  ASSUME IInv, PlacedInv, AwkView
  PROVE  PlacedInv'
<1> DEFINE fails == Cmd.re = "record" /\ Contains(reg.view.text, "b")
           s == [St EXCEPT !.errored = fails]
<1>1. /\ UNCHANGED <<prog, doc>> /\ Arrived("@", "some") /\ Reply(reg)
      /\ UNCHANGED st \/ Write(s, Record("record", reg.view))
  BY DEF AwkView
<1>2. stack # <<>>
  BY <1>1, ArrivedHere
<1>3. CASE UNCHANGED st
  BY <1>1, <1>3, PlacedStages, PlacePass
<1>4. CASE Write(s, Record("record", reg.view))
  <2>1. /\ IsStage(prog, doc, Top.p, Top.k, St) /\ Placed(prog, doc, Top.p, Top.k, St)
        /\ fails \in BOOLEAN
    BY <1>2, Running, HereArrived
  <2> HIDE DEF fails
  <2>2. IsStage(prog, doc, Top.p, Top.k, s) /\ Placed(prog, doc, Top.p, Top.k, s)
    BY <2>1, AwkFlags, AwkViews, SamePlaced DEF Keeps
  <2> HIDE DEF s
  <2>3. AllPlaced(prog, doc, st')
    BY <1>2, <1>4, <2>2, PlaceWrite
  <2> QED
    BY <1>1, <2>3, PlacePass
<1> QED
  BY <1>1, <1>3, <1>4

LEMMA PlacedAwkEnd ==
  ASSUME IInv, PlacedInv, AwkEnd
  PROVE  PlacedInv'
<1>1. PICK e, c : SetStage([St EXCEPT !.ended = TRUE, !.errored = e, !.buf = c])
  BY DEF AwkEnd
<1>2. UNCHANGED <<prog, doc>> /\ Arrived("@", "none") /\ reg' = End
  BY DEF AwkEnd, Reply
<1>3. stack # <<>>
  BY <1>2, ArrivedIs
<1> DEFINE s == [St EXCEPT !.ended = TRUE, !.errored = e, !.buf = c]
<1>4. Placed(prog, doc, Top.p, Top.k, s)
  BY <1>3, Running, HereArrived, AwkViews, SamePlaced
<1> HIDE DEF s
<1>5. AllPlaced(prog, doc, st')
  BY <1>1, <1>3, <1>4, PlaceSet DEF s
<1> QED
  BY <1>2, <1>5, PlaceQuiet

(* The stages before the last one are dropped, and it becomes s.           *)
LEMMA PlaceDrop ==
  ASSUME IInv, PlacedInv, stack # <<>>, NEW s, Placed(prog, doc, Top.p, Top.k, s),
         st' = [st EXCEPT ![Top.p] = [Flushed(Top.p, Top.k - 1) EXCEPT ![Top.k] = s]]
  PROVE  AllPlaced(prog, doc, st')
<1> DEFINE p == Top.p
           k == Top.k
           c == Flushed(p, k - 1)
           y == st'
<1>1. /\ AreStages(prog, doc, st) /\ p \in DOMAIN prog /\ k \in 0..Len(prog[p]) /\ k \in Nat
      /\ Placed(prog, doc, p, k, s)
  BY Running DEF IInv, TypeInv
<1>2. FlushedTo(p, k - 1, c) /\ \A j \in 0..Len(prog[p]) : SameViews(st[p][j], c[j])
  BY <1>1, FlushedIs, FlushedViews
<1>3. y = [st EXCEPT ![p] = [c EXCEPT ![k] = s]]
  OBVIOUS
<1> HIDE DEF p, k, c, y
<1>4. \A q \in DOMAIN prog : \A j \in 0..Len(prog[q]) :
        y[q][j] = IF q = p THEN IF j = k THEN s ELSE c[j] ELSE st[q][j]
  BY <1>1, <1>2, <1>3 DEF AreStages, FlushedTo
<1>5. \A j \in 0..Len(prog[p]) : Placed(prog, doc, p, j, c[j])
  BY <1>1, <1>2, SamePlaced DEF PlacedInv, AllPlaced
<1>6. AllPlaced(prog, doc, y)
  BY <1>1, <1>4, <1>5 DEF PlacedInv, AllPlaced
<1> QED
  BY <1>6 DEF y

LEMMA PlacedFlatMapEnd ==
  ASSUME IInv, PlacedInv, FlatMapEnd
  PROVE  PlacedInv'
<1> DEFINE x == Flushed(Top.p, Top.k - 1)[Top.k]
           s == [x EXCEPT !.fused = TRUE]
<1>1. /\ UNCHANGED <<prog, doc>> /\ reg' = Poll /\ \E op : Arrived(op, "none")
      /\ st' = [st EXCEPT ![Top.p] = [Flushed(Top.p, Top.k - 1) EXCEPT ![Top.k] = s]]
  BY DEF FlatMapEnd, Again
<1>2. stack # <<>>
  BY <1>1, ArrivedIs
<1>3. Top.p \in DOMAIN prog /\ Top.k \in 0..Len(prog[Top.p]) /\ Top.k - 1 \in Int /\ St = st[Top.p][Top.k]
  BY <1>2, Running
<1>4. SameViews(St, x) /\ IsStage(prog, doc, Top.p, Top.k, x)
  BY <1>3, FlushedViews, FlushedIs DEF FlushedTo, Keeps
<1> HIDE DEF x
<1>5. SameViews(x, s)
  BY <1>4 DEF IsStage, StageStates, SameViews
<1> HIDE DEF s
<1>6. Placed(prog, doc, Top.p, Top.k, s)
  BY <1>2, <1>4, <1>5, HereArrived, SamePlaced
<1>7. AllPlaced(prog, doc, st')
  BY <1>1, <1>2, <1>6, PlaceDrop DEF s, x
<1> QED
  BY <1>1, <1>7, PlaceQuiet

LEMMA PlacedCollectEnd ==
  ASSUME IInv, PlacedInv, CollectEnd
  PROVE  PlacedInv'
<1> DEFINE q == IF St.held = <<>> THEN <<>> ELSE <<View(Foreign, Join(St.held))>>
           x == Flushed(Top.p, Top.k - 1)[Top.k]
           s == [x EXCEPT !.queue = q, !.held = <<>>]
<1>1. /\ UNCHANGED <<prog, doc>> /\ reg' = Poll /\ Collecting("none")
      /\ st' = [st EXCEPT ![Top.p] = [Flushed(Top.p, Top.k - 1) EXCEPT ![Top.k] = s]]
  BY DEF CollectEnd
<1>2. stack # <<>> /\ Top.k > 0 /\ Cmd.op = "r"
  BY <1>1, CollectingIs
<1>3. Top.p \in DOMAIN prog /\ Top.k \in 0..Len(prog[Top.p]) /\ Top.k - 1 \in Int
      /\ IsStage(prog, doc, Top.p, Top.k, St)
  BY <1>2, Running
<1>4. IsStage(prog, doc, Top.p, Top.k, x)
  BY <1>3, FlushedIs DEF FlushedTo, Keeps
<1>5. q \in Seq(Here(Top.k + 1))
  <2>1. St.held \in Seq(GoodViews(doc))
    BY <1>3, StageIs
  <2>2. View(Foreign, Join(St.held)) \in GoodViews(doc)
    BY <2>1, JoinText, ForeignGood
  <2>3. Here(Top.k + 1) = GoodViews(doc)
    BY <1>2, HereIs
  <2>4. View(Foreign, Join(St.held)) \in Here(Top.k + 1)
    BY <2>2, <2>3
  <2>5. <<View(Foreign, Join(St.held))>> \in Seq(Here(Top.k + 1))
    BY <2>4, OneElement, Zenon
  <2>6. \A S : <<>> \in Seq(S)
    OBVIOUS
  <2> QED
    BY <2>5, <2>6, Zenon
<1> HIDE DEF q, x
<1>6. s.queue = q /\ s.held = <<>>
  BY <1>4 DEF IsStage, StageStates
<1> HIDE DEF s
<1>7. \A S : <<>> \in Seq(S)
  OBVIOUS
<1>8. Placed(prog, doc, Top.p, Top.k, s)
  BY <1>2, <1>5, <1>6, <1>7, PlaceHere
<1>9. AllPlaced(prog, doc, st')
  BY <1>1, <1>2, <1>8, PlaceDrop DEF s, x
<1> QED
  BY <1>1, <1>9, PlaceQuiet

LEMMA PlacedCollectView ==
  ASSUME IInv, PlacedInv, CollectView
  PROVE  PlacedInv'
<1> DEFINE h == Append(St.held, reg.view)
<1>1. /\ UNCHANGED <<prog, doc>> /\ Collecting("some") /\ reg' = Poll
      /\ SetStage([St EXCEPT !.held = h])
  BY DEF CollectView
<1>2. stack # <<>> /\ Top.k > 0 /\ Cmd.op = "r" /\ reg.view \in GoodViews(doc)
  BY <1>1, CollectingIs
<1>3. St.held \in Seq(GoodViews(doc)) /\ Here(Top.k + 1) = GoodViews(doc)
  BY <1>2, Running, StageIs, HereIs
<1>4. h \in Seq(Here(Top.k + 1))
  BY <1>2, <1>3
<1> HIDE DEF h
<1>5. AllPlaced(prog, doc, st')
  BY <1>1, <1>2, <1>4, PlaceHold, PlaceSet
<1> QED
  BY <1>1, <1>5, PlaceQuiet

LEMMA PlacedBlockView ==
  ASSUME IInv, PlacedInv, BlockView
  PROVE  PlacedInv'
<1> DEFINE v == reg.view
           h == Append(St.held, v)
<1>1. /\ UNCHANGED <<prog, doc>> /\ FromBlock("some")
      /\ Cmd.op \in {"group", "m"} => Reply(reg) /\ UNCHANGED st
      /\ Cmd.op = "/" => reg' = Poll /\ UNCHANGED st
      /\ Cmd.op = "t" => reg' = Poll /\ SetStage([St EXCEPT !.held = h])
  BY DEF BlockView, PollBlock
<1>2. /\ stack # <<>> /\ Top.k > 0 /\ Cmd.op \in BlockOps /\ reg = Some(v)
      /\ Top.wait = "block" /\ reg.kind = "some"
  BY <1>1, FromBlockIs DEF FromBlock
<1>3. v \in Here(Top.k + 1)
  <2>1. Brought(Top) = Top.k + 1
    BY <1>2 DEF Brought
  <2> QED
    BY <1>2, <2>1, HereArrived
<1>4. CASE Cmd.op \in {"group", "m"}
  <2>1. Reply(Some(v)) /\ AllPlaced(prog, doc, st')
    BY <1>1, <1>2, <1>4, PlacedStages
  <2> HIDE DEF v
  <2> QED
    BY <1>1, <1>2, <1>3, <2>1, PlaceAnswer
<1>5. CASE Cmd.op = "/"
  BY <1>1, <1>5, PlacedStages, PlaceQuiet
<1>6. CASE Cmd.op = "t"
  <2>1. St.held \in Seq(Here(Top.k + 1))
    BY <1>2, <1>6, HereArrived
  <2>2. h \in Seq(Here(Top.k + 1))
    BY <1>3, <2>1
  <2> HIDE DEF h
  <2>3. AllPlaced(prog, doc, st')
    BY <1>1, <1>2, <1>6, <2>2, PlaceHold, PlaceSet
  <2> QED
    BY <1>1, <1>6, <2>3, PlaceQuiet
<1> QED
  BY <1>2, <1>4, <1>5, <1>6 DEF BlockOps

LEMMA PlacedDriveEnd ==
  ASSUME IInv, PlacedInv, DriveEnd
  PROVE  PlacedInv'
<1> DEFINE n == Len(prog[<<>>])
           c == Flushed(<<>>, n)
           y == st'
<1>1. UNCHANGED <<prog, doc, stack, reg>> /\ y = [st EXCEPT ![<<>>] = c]
  BY DEF DriveEnd, Top0
<1>2. IsProgram(prog) /\ AreStages(prog, doc, st)
  BY PipelineAssumption DEF IInv, TypeInv
<1>3. <<>> \in DOMAIN prog /\ n \in Int
  BY <1>2 DEF IsProgram
<1>4. \A k \in 0..Len(prog[<<>>]) : SameViews(st[<<>>][k], c[k])
  BY <1>3, FlushedViews
<1> HIDE DEF c, y, n
<1>5. \A p \in DOMAIN prog : \A k \in 0..Len(prog[p]) : SameViews(st[p][k], y[p][k])
  BY <1>1, <1>2, <1>4 DEF AreStages, SameViews
<1>6. AllPlaced(prog, doc, y)
  BY <1>5, PlaceSame
<1> QED
  BY <1>1, <1>6 DEF PlacedInv, y

LEMMA PlacedBlockEnd ==
  ASSUME IInv, PlacedInv, BlockEnd
  PROVE  PlacedInv'
<1> DEFINE p == Top.p
           k == Top.k
           b == Block(Top)
           c == Flushed(b, Len(prog[b]))
           q == IF Cmd.op = "t" THEN St.held ELSE St.queue
           s == [St EXCEPT !.inner = FALSE, !.held = <<>>, !.queue = q]
           y == st'
           v == St.held[1]
<1>1. /\ UNCHANGED <<prog, doc>> /\ FromBlock("none")
      /\ y = [st EXCEPT ![p][k] = s, ![b] = c]
      /\ IF Cmd.op = "/" THEN Reply(Some(v)) ELSE reg' = Poll
  BY DEF BlockEnd, Again
<1>2. stack # <<>> /\ k > 0 /\ Cmd.op \in BlockOps /\ Inner(st, p, k)
  BY <1>1, FromBlockIs
<1>3. /\ IsProgram(prog) /\ AreStages(prog, doc, st) /\ p \in DOMAIN prog /\ k \in 0..Len(prog[p])
      /\ Top \in Frames(prog) /\ Cmd = prog[p][k] /\ Cmd.op = Op(prog, Top) /\ St = st[p][k]
      /\ IsStage(prog, doc, p, k, St)
  BY <1>2, Running DEF IInv, TypeInv
<1>4. b \in DOMAIN prog /\ b # p /\ Len(prog[b]) \in Int
  <2>1. b \in DOMAIN prog
    BY <1>2, <1>3, BlockIs
  <2>2. Len(p) <= Len(p)
    BY <1>3 DEF IsProgram
  <2>3. p # b
    BY <1>3, <2>2, BlockIs
  <2> QED
    BY <1>3, <2>1, <2>3 DEF IsProgram
<1>5. \A j \in 0..Len(prog[b]) : SameViews(st[b][j], c[j]) /\ DOMAIN c = 0..Len(prog[b])
  BY <1>4, FlushedViews, FlushedIs DEF FlushedTo
<1>6. St.held \in Seq(Here(k + 1)) /\ (IF Cmd.op = "m" THEN q \in Seq(Here(k)) ELSE q \in Seq(Here(k + 1)))
  BY <1>2, HereArrived DEF BlockOps
<1> HIDE DEF q
<1>7. s.queue = q /\ s.held = <<>>
  BY <1>3 DEF IsStage, StageStates
<1> HIDE DEF s
<1>8. Placed(prog, doc, p, k, s)
  <2>1. \A S : <<>> \in Seq(S)
    OBVIOUS
  <2> QED
    BY <1>2, <1>6, <1>7, <2>1, PlaceHere
<1> HIDE DEF p, k, b, c, y
<1>9. \A r \in DOMAIN prog : \A j \in 0..Len(prog[r]) :
        y[r][j] = IF r = b THEN c[j] ELSE IF r = p /\ j = k THEN s ELSE st[r][j]
  BY <1>1, <1>3, <1>4 DEF AreStages
<1>10. AllPlaced(prog, doc, y)
  <2>1. \A j \in 0..Len(prog[b]) : Placed(prog, doc, b, j, c[j])
    BY <1>4, <1>5, SamePlaced DEF PlacedInv, AllPlaced
  <2> QED
    BY <1>8, <1>9, <2>1 DEF PlacedInv, AllPlaced
<1>11. CASE Cmd.op # "/"
  BY <1>1, <1>10, <1>11, PlaceQuiet DEF y
<1>12. CASE Cmd.op = "/"
  <2>1. St.held # <<>>
    BY <1>2, <1>3, <1>12 DEF IsStage, Inner
  <2>2. v \in Here(Top.k + 1)
    BY <1>6, <2>1, HeadTailAt DEF k
  <2> HIDE DEF v
  <2> QED
    BY <1>1, <1>2, <1>10, <1>12, <2>2, PlaceAnswer DEF y
<1> QED
  BY <1>11, <1>12

LEMMA PlacedNext ==
  ASSUME IInv, PlacedInv, Next
  PROVE  PlacedInv'
<1>1. CASE PollSource \/ PollThrough \/ PollBinder \/ PollFlatMap \/ PollReduce \/ PollAwk
  BY <1>1, PlacedPollSource, PlacedIdle, PlacedPollFlatMap, PlacedPollAwk
<1>2. CASE PassEnd \/ FlatMapEnd \/ Split \/ Expand \/ Collapse \/ MapView \/ Filter
  BY <1>2, PlacedIdle, PlacedFlatMapEnd, PlacedSplit, PlacedExpand, PlacedCollapse, PlacedFilter
<1>3. CASE Substitute \/ Change \/ PrintView \/ NextFirst \/ NextSecond \/ NextEnd
  BY <1>3, PlacedFilter, PlacedChange, PlacedPrint, PlacedNextFirst, PlacedNextSecond, PlacedNextEnd
<1>4. CASE GroupView \/ BinderView \/ TestView \/ AwkView \/ AwkEnd
  BY <1>4, PlacedGroup, PlacedBinder, PlacedTest, PlacedAwkView, PlacedAwkEnd
<1>5. CASE CollectView \/ CollectEnd \/ BlockView \/ BlockEnd \/ DrivePoll \/ DriveEnd
  BY <1>5, PlacedCollectView, PlacedCollectEnd, PlacedBlockView, PlacedBlockEnd, PlacedIdle, PlacedDriveEnd
<1> QED
  BY <1>1, <1>2, <1>3, <1>4, <1>5 DEF Next

LEMMA PlacedInit ==
  ASSUME Init
  PROVE  PlacedInv
<1>1. /\ IsProgram(prog) /\ doc \in Texts /\ Len(doc) < Foreign /\ reg = Poll
      /\ st = [p \in DOMAIN prog |-> Chain(p, View(0, doc))]
  BY PipelineAssumption DEF Init, Texts
<1> DEFINE v == View(0, doc)
<1>2. v \in GoodViews(doc) /\ v.at <= Len(doc)
  <2>1. v.at = 0 /\ Len(doc) \in Nat
    BY <1>1 DEF View, Texts
  <2> QED
    BY <1>1, <2>1, WholeGood
<1> HIDE DEF v
<1>3. ASSUME NEW p \in DOMAIN prog, NEW j \in 0..Len(prog[p]) PROVE Placed(prog, doc, p, j, st[p][j])
  <2>1. v \in Reach(prog, doc, p, 1)
    BY <1>1, <1>2, ReachIs
  <2>2. Placed(prog, doc, p, j, Chain(p, v)[j])
    BY <2>1, ChainPlaced
  <2> QED
    BY <1>1, <2>2 DEF v
<1> QED
  BY <1>1, <1>3, NothingPlaced DEF PlacedInv, AllPlaced

-----------------------------------------------------------------------------
(* The edits.                                                              *)

Places == Seq(Nat) \X Nat
Literal(re) == re \notin {"line", "eol"}

(* An edit within the input d, of a literal where it occurs.               *)
RightEdits(pr, d) ==
  {m \in [start : Nat, end : Nat, by : Places] :
     /\ m.start <= m.end /\ m.end <= Len(d)
     /\ LET cmd == pr[m.by[1]][m.by[2]] IN
        cmd.op = "s" /\ Literal(cmd.re) => MatchEnd(cmd.re, d, m.start) = m.end}
Effected == Ops \cup {"BEGIN", "record", "END", "taken", "not taken"}
RightRecords(d) ==
  {r \in [stage : Places, what : Effected, view : Views] : r.what = "=" => EndOf(r.view) <= Len(d)}

EditInv ==
  InputOnly =>
    /\ muts \in Seq(RightEdits(prog, doc))
    /\ log \in Seq(RightRecords(doc))
    /\ pc # "panicked"

(* Where offsets are needed only views of the input arrive.                *)
LEMMA InputHere ==
  ASSUME IInv, InputOnly, stack # <<>>, Top.k > 0, Cmd.op \in {"s", "c", "=", "N", "+"},
         NEW v \in Here(Top.k)
  PROVE  /\ v \in GoodViews(doc) /\ v \in Views /\ v.text \in Texts
         /\ v.at \in Nat /\ Len(v.text) \in Nat /\ EndOf(v) = v.at + Len(v.text) /\ v.at <= EndOf(v)
         /\ EndOf(v) <= Len(doc) /\ v.text = SubSeq(doc, v.at + 1, EndOf(v))
<1>1. /\ IsProgram(prog) /\ doc \in Texts /\ Len(doc) < Foreign /\ Top.p \in DOMAIN prog
      /\ Top.k \in 0..Len(prog[Top.p]) /\ Top.k \in Nat /\ Cmd = prog[Top.p][Top.k]
  BY Running
<1> DEFINE p == Top.p
           k == Top.k
<1>2. \A q \in DOMAIN prog : DOMAIN prog[q] = 1..Len(prog[q]) /\ Len(prog[q]) \in Nat
  BY <1>1 DEF IsProgram
<1>3. k \in DOMAIN prog[p]
  BY <1>1, <1>2
<1>4. v \in Reach(prog, doc, p, k)
  BY DEF Here
<1>5. Cmd.op = prog[p][k].op /\ Cmd.op \in {"s", "c", "=", "N", "+"} /\ p \in DOMAIN prog
  BY <1>1
<1> HIDE DEF p, k
<1>6. ~ Strays(prog, Append(p, k))
  <2> SUFFICES ASSUME NEW q \in DOMAIN prog, NEW j \in 1..Len(prog[q]), prog[q][j].op \in {"c", "r"},
                      Ahead(Append(q, j), Append(p, k))
               PROVE  FALSE
    BY DEF Strays
  <2> DEFINE a == <<q, j>>
             b == <<p, k>>
  <2>1. a \in Stages /\ b \in Stages
    BY <1>2, <1>3, <1>5 DEF Stages
  <2>2. Command(a).op \in {"c", "r"} /\ Command(b).op \in {"s", "c", "=", "N", "+"}
    BY <1>5 DEF Command
  <2>3. Before(a, b)
    BY DEF Before, Ahead
  <2> HIDE DEF a, b
  <2> QED
    BY <2>1, <2>2, <2>3 DEF InputOnly
<1>7. v \in GoodViews(doc) /\ v.at < Foreign
  BY <1>4, <1>6 DEF Reach, OwnViews
<1>8. /\ v \in Views /\ v.text \in Texts /\ v.at \in Nat /\ Len(v.text) \in Nat
      /\ EndOf(v) = v.at + Len(v.text) /\ v.at <= EndOf(v)
  BY <1>1, <1>7, ViewIs
<1>9. EndOf(v) <= Len(doc) /\ v.text = SubSeq(doc, v.at + 1, EndOf(v))
  BY <1>7, <1>8, PipelineAssumption DEF GoodViews
<1> QED
  BY <1>7, <1>8, <1>9

(* A literal that occurs in a slice occurs in the input, shifted.          *)
LEMMA MatchShifts ==
  ASSUME NEW re, Literal(re), NEW d \in Texts, NEW at \in Nat, NEW end \in Nat, at <= end, end <= Len(d),
         NEW h \in Hits(re, SubSeq(d, at + 1, end))
  PROVE  /\ at + h.start \in Nat /\ at + h.end \in Nat /\ at + h.start <= at + h.end /\ at + h.end <= end
         /\ MatchEnd(re, d, at + h.start) = at + h.end
<1> DEFINE text == SubSeq(d, at + 1, end)
           n == Len(d)
<1>1. n \in Nat /\ \A i \in 1..n : d[i] \in Symbols
  BY DEF Texts
<1>2. /\ text \in Seq(Symbols) /\ Len(text) = end - at
      /\ \A i \in 1..(end - at) : text[i] = d[at + i]
  <2>1. [start |-> at, end |-> end] \in SpansIn(n)
    BY <1>1 DEF SpansIn
  <2> QED
    BY <2>1, SliceBytes DEF Texts
<1> HIDE DEF text, n
<1>3. h \in SpansIn(Len(text)) /\ MatchEnd(re, text, h.start) = h.end
  BY DEF Hits, text
<1>4. h.start \in Nat /\ h.end \in Nat /\ h.start <= h.end /\ h.end <= end - at
  BY <1>2, <1>3 DEF SpansIn
<1>5. \A t, p : MatchEnd(re, t, p) = IF p < Len(t) /\ t[p + 1] = re THEN p + 1 ELSE None
  BY DEF MatchEnd, Literal
<1>6. h.start < Len(text) /\ text[h.start + 1] = re /\ h.end = h.start + 1
  BY <1>3, <1>4, <1>5 DEF None
<1>7. d[at + (h.start + 1)] = re
  BY <1>2, <1>4, <1>6
<1>8. /\ at + (h.start + 1) = (at + h.start) + 1 /\ at + h.start < n
      /\ at + h.end = (at + h.start) + 1
  <2>1. h.start < end - at /\ end <= n /\ n \in Nat
    BY <1>1, <1>2, <1>6 DEF n
  <2> QED
    BY <1>4, <1>6, <2>1
<1>9. MatchEnd(re, d, at + h.start) = at + h.end
  BY <1>5, <1>7, <1>8 DEF n
<1> QED
  BY <1>4, <1>9

(* What s edits in a view of the input.                                    *)
LEMMA EditsRight ==
  ASSUME IInv, InputOnly, stack # <<>>, Top.k > 0, Cmd.op = "s", NEW v \in Here(Top.k),
         NEW ms, ms = Edited(Cmd, v)
  PROVE  [i \in DOMAIN ms |-> [start |-> v.at + ms[i].start, end |-> v.at + ms[i].end, by |-> At]]
           \in Seq(RightEdits(prog, doc))
<1> DEFINE n == Len(v.text)
           to == EndOf(v)
<1>1. /\ v.text \in Texts /\ v.at \in Nat /\ n \in Nat /\ to = v.at + n
      /\ v.at <= to /\ to <= Len(doc) /\ to \in Nat
  <2>1. /\ v.text \in Texts /\ v.at \in Nat /\ Len(v.text) \in Nat /\ EndOf(v) = v.at + Len(v.text)
        /\ v.at <= EndOf(v) /\ EndOf(v) <= Len(doc)
    BY InputHere
  <2> HIDE DEF n, to
  <2> QED
    BY <2>1 DEF n, to
<1>2. v.text = SubSeq(doc, v.at + 1, to)
  BY InputHere
<1>3. /\ IsProgram(prog) /\ doc \in Texts /\ Top.p \in DOMAIN prog /\ Top.k \in Nat
      /\ Cmd = prog[Top.p][Top.k]
  BY Running
<1>4. At \in Places /\ At[1] = Top.p /\ At[2] = Top.k
  BY <1>3 DEF At, Places, IsProgram
<1>5. ms \in Seq(Hits(Cmd.re, v.text))
  <2> DEFINE all == Matches(Cmd.re, v.text, TRUE)
  <2>1. all \in Seq(Hits(Cmd.re, v.text))
    BY <1>1, MatchesAreHits
  <2>2. ms = IF Cmd.global \/ all = <<>> THEN all ELSE <<all[1]>>
    BY DEF Edited
  <2> HIDE DEF all
  <2>3. all # <<>> => all[1] \in Hits(Cmd.re, v.text)
    <3>1. all # <<>> => 1 \in 1..Len(all)
      BY <2>1, EmptySeq
    <3> QED
      BY <2>1, <3>1
  <2>4. all # <<>> => <<all[1]>> \in Seq(Hits(Cmd.re, v.text))
    BY <2>3
  <2> QED
    BY <2>1, <2>2, <2>4
<1> DEFINE edit(i) == [start |-> v.at + ms[i].start, end |-> v.at + ms[i].end, by |-> At]
<1>6. ASSUME NEW i \in 1..Len(ms) PROVE edit(i) \in RightEdits(prog, doc)
  <2> DEFINE h == ms[i]
             m == edit(i)
  <2>1. h \in Hits(Cmd.re, v.text)
    BY <1>5
  <2>2. m.start = v.at + h.start /\ m.end = v.at + h.end /\ m.by = At
    OBVIOUS
  <2>3. h.start \in Nat /\ h.end \in Nat /\ h.start <= h.end /\ h.end <= n
    BY <1>1, <2>1 DEF Hits, SpansIn
  <2>4. m \in [start : Nat, end : Nat, by : Places]
    BY <1>1, <1>4, <2>3
  <2> HIDE DEF h, m
  <2>5. m.start <= m.end /\ m.end <= Len(doc)
    <3>1. Len(doc) \in Nat
      BY <1>3 DEF Texts
    <3> QED
      BY <1>1, <2>2, <2>3, <3>1
  <2>6. Literal(Cmd.re) => MatchEnd(Cmd.re, doc, m.start) = m.end
    <3> HIDE DEF to, n
    <3>1. h \in Hits(Cmd.re, SubSeq(doc, v.at + 1, to))
      BY <1>2, <2>1
    <3>2. Literal(Cmd.re) => MatchEnd(Cmd.re, doc, v.at + h.start) = v.at + h.end
      BY <1>1, <1>3, <3>1, MatchShifts
    <3> QED
      BY <2>2, <3>2
  <2>7. prog[m.by[1]][m.by[2]] = Cmd
    BY <1>3, <1>4, <2>2
  <2>8. m \in RightEdits(prog, doc)
    BY <2>4, <2>5, <2>6, <2>7 DEF RightEdits
  <2> QED
    BY <2>8 DEF m
<1> HIDE DEF edit
<1>7. DOMAIN ms = 1..Len(ms) /\ Len(ms) \in Nat
  BY <1>5
<1>8. [i \in 1..Len(ms) |-> edit(i)] \in Seq(RightEdits(prog, doc))
  BY <1>6, <1>7
<1> QED
  BY <1>7, <1>8 DEF edit

LEMMA OnlyKept ==
  ASSUME UNCHANGED prog
  PROVE  InputOnly' <=> InputOnly
BY DEF InputOnly, Stages, Command

(* A step that makes no edit and logs no offset.                           *)
LEMMA EditStep ==
  ASSUME EditInv, UNCHANGED <<prog, doc>>,
         InputOnly => /\ muts' \in Seq(RightEdits(prog, doc)) /\ log' \in Seq(RightRecords(doc))
                      /\ pc' # "panicked"
  PROVE  EditInv'
BY OnlyKept DEF EditInv

LEMMA EditIdle ==
  ASSUME EditInv, UNCHANGED <<prog, doc, muts, log>>, pc' = "panicked" => pc = "panicked" \/ ~ InputOnly
  PROVE  EditInv'
BY EditStep DEF EditInv

LEMMA RightRecord ==
  ASSUME IInv, stack # <<>>, NEW what \in Effected, NEW v \in Views, what = "=" => EndOf(v) <= Len(doc)
  PROVE  Record(what, v) \in RightRecords(doc)
<1>1. At \in Places
  BY Running DEF At, Places, IsProgram
<1> QED
  BY <1>1 DEF Record, RightRecords

(* A record that logs a view.                                              *)
LEMMA EditLog ==
  ASSUME IInv, EditInv, UNCHANGED <<prog, doc, muts>>, stack # <<>>, NEW what \in Effected, NEW v \in Views,
         InputOnly /\ what = "=" => EndOf(v) <= Len(doc), Log(Record(what, v)),
         pc' = pc
  PROVE  EditInv'
<1> DEFINE r == Record(what, v)
<1>1. InputOnly => r \in RightRecords(doc)
  BY RightRecord
<1>2. log' = Append(log, r)
  BY DEF Log
<1> HIDE DEF r
<1>3. InputOnly => log' \in Seq(RightRecords(doc))
  BY <1>1, <1>2 DEF EditInv
<1> QED
  BY <1>3, EditStep DEF EditInv

LEMMA EditSubstitute ==
  ASSUME IInv, PlacedInv, EditInv, Substitute
  PROVE  EditInv'
<1> DEFINE v == reg.view
           ms == Edited(Cmd, v)
           new == [i \in DOMAIN ms |-> [start |-> v.at + ms[i].start, end |-> v.at + ms[i].end, by |-> At]]
           r == Record("s", v)
<1>1. /\ UNCHANGED <<prog, doc, pc>> /\ Arrived("s", "some")
      /\ muts' = muts \o new /\ log' = Append(log, r)
  BY DEF Substitute, Log
<1>2. stack # <<>> /\ Top.k > 0 /\ Cmd.op = "s" /\ v \in Here(Top.k) /\ v \in Views
  BY <1>1, ArrivedHere DEF GoodViews
<1>3. r \in RightRecords(doc)
  BY <1>2, RightRecord DEF Effected, Ops
<1> HIDE DEF v, r
<1>4. InputOnly => new \in Seq(RightEdits(prog, doc))
  BY <1>2, EditsRight
<1> HIDE DEF new
<1>5. InputOnly => muts' \in Seq(RightEdits(prog, doc)) /\ log' \in Seq(RightRecords(doc))
  BY <1>1, <1>3, <1>4, ConcatProperties DEF EditInv
<1> QED
  BY <1>1, <1>5, EditStep DEF EditInv

LEMMA EditChange ==
  ASSUME IInv, PlacedInv, EditInv, Change
  PROVE  EditInv'
<1> DEFINE v == reg.view
           m == [start |-> v.at, end |-> EndOf(v), by |-> At]
           r == Record("c", v)
<1>1. /\ UNCHANGED <<prog, doc, pc>> /\ Arrived("c", "some")
      /\ muts' = Append(muts, m) /\ log' = Append(log, r)
  BY DEF Change, Log
<1>2. stack # <<>> /\ Top.k > 0 /\ Cmd.op = "c" /\ v \in Here(Top.k) /\ v \in Views
  BY <1>1, ArrivedHere DEF GoodViews
<1>3. r \in RightRecords(doc)
  BY <1>2, RightRecord DEF Effected, Ops
<1> HIDE DEF v, r
<1>4. ASSUME InputOnly PROVE m \in RightEdits(prog, doc)
  <2>1. v.at \in Nat /\ EndOf(v) \in Nat /\ v.at <= EndOf(v) /\ EndOf(v) <= Len(doc)
    <3>1. /\ v.at \in Nat /\ Len(v.text) \in Nat /\ EndOf(v) = v.at + Len(v.text) /\ v.at <= EndOf(v)
          /\ EndOf(v) <= Len(doc)
      BY <1>2, <1>4, InputHere
    <3> QED
      BY <3>1
  <2>2. At \in Places /\ At[1] = Top.p /\ At[2] = Top.k /\ Cmd = prog[Top.p][Top.k]
    BY <1>2, Running DEF At, Places, IsProgram
  <2>3. m \in [start : Nat, end : Nat, by : Places] /\ m.start = v.at /\ m.end = EndOf(v) /\ m.by = At
    BY <2>1, <2>2
  <2> HIDE DEF m
  <2>4. prog[m.by[1]][m.by[2]].op # "s"
    BY <1>2, <2>2, <2>3
  <2> QED
    BY <2>1, <2>3, <2>4 DEF RightEdits
<1> HIDE DEF m
<1>5. InputOnly => muts' \in Seq(RightEdits(prog, doc)) /\ log' \in Seq(RightRecords(doc))
  BY <1>1, <1>3, <1>4 DEF EditInv
<1> QED
  BY <1>1, <1>5, EditStep DEF EditInv

LEMMA EditPrint ==
  ASSUME IInv, PlacedInv, EditInv, PrintView
  PROVE  EditInv'
<1> DEFINE v == reg.view
<1>1. /\ UNCHANGED <<prog, doc, muts, pc>> /\ Log(Record(Cmd.op, v))
      /\ \E op \in {"p", "="} : Arrived(op, "some")
  BY DEF PrintView
<1>2. stack # <<>> /\ Top.k > 0 /\ Cmd.op \in {"p", "="} /\ v \in Here(Top.k) /\ v \in Views
  BY <1>1, ArrivedHere DEF GoodViews
<1>3. Cmd.op \in Effected
  BY <1>2 DEF Effected, Ops
<1> HIDE DEF v
<1>4. InputOnly /\ Cmd.op = "=" => EndOf(v) <= Len(doc)
  BY <1>2, InputHere
<1> QED
  BY <1>1, <1>2, <1>3, <1>4, EditLog

LEMMA EditExpand ==
  ASSUME IInv, PlacedInv, EditInv, Expand
  PROVE  EditInv'
<1> DEFINE v == reg.view
<1>1. /\ UNCHANGED <<prog, doc, muts, log>> /\ Arrived("+", "some")
      /\ ~ v.at > Len(doc) => UNCHANGED pc
  BY DEF Expand, Effects
<1>2. stack # <<>> /\ Top.k > 0 /\ Cmd.op = "+" /\ v \in Here(Top.k)
  BY <1>1, ArrivedHere
<1>3. Len(doc) \in Nat
  BY <1>2, Running
<1> HIDE DEF v
<1>4. InputOnly => ~ v.at > Len(doc)
  <2> SUFFICES ASSUME InputOnly PROVE ~ v.at > Len(doc)
    OBVIOUS
  <2>1. v.at \in Nat /\ EndOf(v) = v.at + Len(v.text) /\ Len(v.text) \in Nat /\ EndOf(v) <= Len(doc)
    BY <1>2, InputHere
  <2> QED
    BY <1>3, <2>1
<1> QED
  BY <1>1, <1>4, EditIdle

LEMMA EditNextSecond ==
  ASSUME IInv, PlacedInv, EditInv, NextSecond
  PROVE  EditInv'
<1> DEFINE v == reg.view
           h == St.held[1]
<1>1. /\ UNCHANGED <<prog, doc, muts, log>> /\ Arrived("N", "some") /\ St.held # <<>>
      /\ ~ (EndOf(v) > Len(doc) \/ EndOf(h) > Len(doc)) => UNCHANGED pc
  BY DEF NextSecond, Effects
<1>2. stack # <<>> /\ Top.k > 0 /\ Cmd.op = "N" /\ v \in Here(Top.k)
  BY <1>1, ArrivedHere
<1>3. Len(doc) \in Nat
  BY <1>2, Running
<1>4. h \in Here(Top.k)
  BY <1>1, <1>2, HereArrived, HeadTailAt
<1> HIDE DEF v, h
<1>5. \A w \in Here(Top.k) : InputOnly => ~ EndOf(w) > Len(doc)
  <2> SUFFICES ASSUME NEW w \in Here(Top.k), InputOnly PROVE ~ EndOf(w) > Len(doc)
    OBVIOUS
  <2>1. w.at \in Nat /\ EndOf(w) = w.at + Len(w.text) /\ Len(w.text) \in Nat /\ EndOf(w) <= Len(doc)
    BY <1>2, InputHere
  <2> QED
    BY <1>3, <2>1
<1> QED
  BY <1>1, <1>2, <1>4, <1>5, EditIdle

LEMMA EditTest ==
  ASSUME IInv, PlacedInv, EditInv, TestView
  PROVE  EditInv'
<1> DEFINE v == reg.view
           what == IF flag THEN "taken" ELSE "not taken"
<1>1. UNCHANGED <<prog, doc, muts, pc>> /\ Log(Record(what, v)) /\ Arrived("t", "some")
  BY DEF TestView
<1>2. stack # <<>> /\ v \in Views
  BY <1>1, ArrivedHere DEF GoodViews
<1>3. what \in Effected /\ what # "="
  BY DEF Effected
<1> HIDE DEF v, what
<1> QED
  BY <1>1, <1>2, <1>3, EditLog

LEMMA EditAwk ==
  ASSUME IInv, PlacedInv, EditInv, PollAwk \/ AwkView
  PROVE  EditInv'
<1>1. UNCHANGED <<prog, doc, muts, pc>> /\ stack # <<>>
  BY DEF PollAwk, AwkView, Polled, Arrived, Effects
<1>2. CASE UNCHANGED log
  BY <1>1, <1>2, EditIdle
<1>3. CASE ~ UNCHANGED log
  <2>1. NoView \in Views
    BY DEF NoView, View, Views, Texts
  <2>2. PICK what \in {"BEGIN", "record"}, v \in {NoView, reg.view} :
          Log(Record(what, v)) /\ (v = reg.view => v \in Views)
    <3>1. CASE PollAwk
      BY <1>3, <2>1, <3>1 DEF PollAwk, Effects
    <3>2. CASE AwkView
      <4>1. Arrived("@", "some") /\ Log(Record("record", reg.view))
        BY <1>3, <3>2 DEF AwkView, Effects
      <4>2. reg.view \in Views
        BY <4>1, ArrivedHere DEF GoodViews
      <4> QED
        BY <4>1, <4>2
    <3> QED
      BY <3>1, <3>2
  <2>3. what \in Effected /\ what # "=" /\ v \in Views
    BY <2>1, <2>2 DEF Effected
  <2> QED
    BY <1>1, <2>2, <2>3, EditLog
<1> QED
  BY <1>2, <1>3

LEMMA EditAwkEnd ==
  ASSUME IInv, PlacedInv, EditInv, AwkEnd
  PROVE  EditInv'
<1> DEFINE r == Record("END", NoView)
<1>1. /\ UNCHANGED <<prog, doc, muts, pc>> /\ Arrived("@", "none")
      /\ log' = log \o <<>> \/ log' = log \o <<r>>
  BY DEF AwkEnd
<1>2. stack # <<>> /\ NoView \in Views
  BY <1>1, ArrivedIs DEF NoView, View, Views, Texts
<1>3. r \in RightRecords(doc)
  BY <1>2, RightRecord DEF Effected, Ops
<1> HIDE DEF r
<1>4. InputOnly => log' \in Seq(RightRecords(doc))
  BY <1>1, <1>3 DEF EditInv
<1> QED
  BY <1>1, <1>4, EditStep DEF EditInv

LEMMA EditNext ==
  ASSUME IInv, PlacedInv, EditInv, Next
  PROVE  EditInv'
<1>1. CASE PollSource \/ PollThrough \/ PollBinder \/ PollFlatMap \/ PollReduce \/ PassEnd \/ FlatMapEnd
  BY <1>1, EditIdle DEF PollSource, PollThrough, PollBinder, PollFlatMap, PollReduce, PassEnd,
                        FlatMapEnd, Effects
<1>2. CASE Split \/ Collapse \/ MapView \/ Filter \/ NextFirst \/ NextEnd \/ GroupView \/ BinderView
  BY <1>2, EditIdle DEF Split, Collapse, MapView, Filter, NextFirst, NextEnd, GroupView, BinderView,
                        Effects
<1>3. CASE CollectView \/ CollectEnd \/ BlockView \/ BlockEnd \/ DrivePoll
  BY <1>3, EditIdle DEF CollectView, CollectEnd, BlockView, BlockEnd, DrivePoll, Effects
<1>4. CASE DriveEnd
  <2>1. UNCHANGED <<prog, doc, muts, log>> /\ pc' # "panicked"
    BY <1>4 DEF DriveEnd
  <2> QED
    BY <2>1, EditIdle
<1>5. CASE Substitute \/ Change \/ PrintView \/ Expand \/ NextSecond \/ TestView
  BY <1>5, EditSubstitute, EditChange, EditPrint, EditExpand, EditNextSecond, EditTest
<1>6. CASE PollAwk \/ AwkView \/ AwkEnd
  BY <1>6, EditAwk, EditAwkEnd
<1> QED
  BY <1>1, <1>2, <1>3, <1>4, <1>5, <1>6 DEF Next

LEMMA EditsFollow ==
  ASSUME EditInv
  PROVE  EditsHitTheirMatch
<1> SUFFICES ASSUME InputOnly
             PROVE  /\ \A i \in DOMAIN muts :
                         LET m == muts[i]  cmd == Command(m.by) IN
                         /\ m.start <= m.end /\ m.end <= Len(doc)
                         /\ cmd.op = "s" /\ cmd.re \notin {"line", "eol"}
                              => MatchEnd(cmd.re, doc, m.start) = m.end
                    /\ \A i \in DOMAIN log : log[i].what = "=" => EndOf(log[i].view) <= Len(doc)
                    /\ pc # "panicked"
  BY DEF EditsHitTheirMatch
<1>1. muts \in Seq(RightEdits(prog, doc)) /\ log \in Seq(RightRecords(doc)) /\ pc # "panicked"
  BY DEF EditInv
<1>2. \A i \in DOMAIN muts : muts[i] \in RightEdits(prog, doc)
  BY <1>1
<1>3. \A i \in DOMAIN log : log[i] \in RightRecords(doc)
  BY <1>1
<1>4. \A i \in DOMAIN log : log[i].what = "=" => EndOf(log[i].view) <= Len(doc)
  BY <1>3 DEF RightRecords
<1>5. ASSUME NEW i \in DOMAIN muts
      PROVE  LET m == muts[i]  cmd == Command(m.by) IN
             /\ m.start <= m.end /\ m.end <= Len(doc)
             /\ cmd.op = "s" /\ cmd.re \notin {"line", "eol"} => MatchEnd(cmd.re, doc, m.start) = m.end
  <2> DEFINE m == muts[i]
  <2>1. m \in RightEdits(prog, doc)
    BY <1>2
  <2> HIDE DEF m
  <2>2. /\ m.start <= m.end /\ m.end <= Len(doc)
        /\ Command(m.by).op = "s" /\ Literal(Command(m.by).re)
             => MatchEnd(Command(m.by).re, doc, m.start) = m.end
    BY <2>1 DEF RightEdits, Command
  <2> QED
    BY <2>2 DEF Literal, m
<1> QED
  BY <1>1, <1>4, <1>5

(* In a program where no s, c, =, N or + comes after a c or an r, every    *)
(* mutation is a span of the input, and one of a literal s exactly an      *)
(* occurrence of the literal; = prints addresses of the input, and neither *)
(* N nor + panics, whatever the nesting of blocks and reducers.            *)
THEOREM EditsHitTheirMatchHolds == Spec => []EditsHitTheirMatch
<1>1. Init => IInv /\ PlacedInv /\ EditInv
  <2>1. Init => EditInv
    BY DEF Init, EditInv
  <2> QED
    BY <2>1, InitInv, PlacedInit
<1>2. (IInv /\ PlacedInv /\ EditInv) /\ [Next]_vars => (IInv /\ PlacedInv /\ EditInv)'
  <2>1. IInv /\ PlacedInv /\ EditInv /\ UNCHANGED vars => PlacedInv' /\ EditInv'
    <3> SUFFICES ASSUME IInv, PlacedInv, EditInv, UNCHANGED vars PROVE PlacedInv' /\ EditInv'
      OBVIOUS
    <3>1. UNCHANGED <<prog, doc, muts, log, pc, st, stack, reg>>
      BY DEF vars
    <3>2. EditInv'
      BY <3>1, EditIdle
    <3> QED
      BY <3>1, <3>2 DEF PlacedInv
  <2> QED
    BY <2>1, NextInv, StutterInv, PlacedNext, EditNext
<1>3. IInv /\ PlacedInv /\ EditInv => EditsHitTheirMatch
  BY EditsFollow
<1> QED
  BY <1>1, <1>2, <1>3, PTL DEF Spec

-----------------------------------------------------------------------------
(* Where + and - lead.  The scanners of Tree count brackets; the proofs    *)
(* follow the height of the prefixes instead, a walk that goes up one at   *)
(* an opener, down one at a closer, and stays elsewhere.                   *)

CountBelow(S, i) == Cardinality({j \in S : j < i})

LEMMA CountNext ==
  ASSUME NEW n \in Nat, NEW S, S \subseteq 0..(n - 1), NEW i \in Nat
  PROVE  /\ CountBelow(S, i) \in Nat
         /\ CountBelow(S, i + 1) = IF i \in S THEN CountBelow(S, i) + 1 ELSE CountBelow(S, i)
<1> DEFINE T == {j \in S : j < i}
<1>1. IsFiniteSet(T) /\ \A j \in S : j \in Nat
  <2>1. IsFiniteSet(0..(n - 1))
    BY FS_Interval
  <2>2. T \subseteq 0..(n - 1)
    OBVIOUS
  <2> QED
    BY <2>1, <2>2, FS_Subset
<1>2. i \notin T /\ {j \in S : j < i + 1} = IF i \in S THEN T \cup {i} ELSE T
  <2>1. \A j \in S : j < i + 1 <=> j < i \/ j = i
    BY <1>1
  <2>2. ~ i < i
    OBVIOUS
  <2> QED
    BY <2>1, <2>2
<1> HIDE DEF T
<1>3. Cardinality(T) \in Nat /\ Cardinality(T \cup {i}) = Cardinality(T) + 1
  BY <1>1, <1>2, FS_CardinalityType, FS_AddElement
<1> QED
  BY <1>2, <1>3 DEF CountBelow, T

LEMMA CountBetween ==
  ASSUME NEW n \in Nat, NEW S, S \subseteq 0..(n - 1), NEW a \in Nat, NEW b \in Nat, a <= b
  PROVE  Cardinality({j \in S : a <= j /\ j < b}) = CountBelow(S, b) - CountBelow(S, a)
<1> DEFINE T == {j \in S : j < b}
           U == {j \in S : j < a}
<1>1. \A j \in S : j \in Nat
  OBVIOUS
<1>2. IsFiniteSet(T)
  <2>1. IsFiniteSet(0..(n - 1))
    BY FS_Interval
  <2>2. T \subseteq 0..(n - 1)
    OBVIOUS
  <2> QED
    BY <2>1, <2>2, FS_Subset
<1>3. T \cap U = U /\ {j \in S : a <= j /\ j < b} = T \ U
  <2>1. \A j \in S : (j < a => j < b) /\ (a <= j <=> ~ j < a)
    BY <1>1
  <2> QED
    BY <2>1
<1>4. IsFiniteSet(U) /\ Cardinality(U) \in Nat /\ Cardinality(T) \in Nat
  BY <1>2, <1>3, FS_Intersection, FS_CardinalityType, FS_Subset
<1> HIDE DEF T, U
<1>5. Cardinality(T \ U) = Cardinality(T) - Cardinality(T \cap U)
  BY <1>2, FS_Difference
<1> QED
  BY <1>3, <1>5 DEF CountBelow, T, U

(* A walk over 0..n.                                                       *)
Walks(h, n, up, down) ==
  /\ n \in Nat /\ up \subseteq 0..(n - 1) /\ down \subseteq 0..(n - 1)
  /\ h \in [0..n -> Int]
  /\ \A i \in 0..(n - 1) :
       h[i + 1] = IF i \in up THEN h[i] + 1 ELSE IF i \in down THEN h[i] - 1 ELSE h[i]

Heights(text) == [i \in 0..Len(text) |-> Height(text, i)]

LEMMA HeightsWalk ==
  ASSUME NEW text \in Texts
  PROVE  /\ Walks(Heights(text), Len(text), Openers(text), Closers(text))
         /\ Heights(text)[0] = 0
         /\ \A i \in 0..Len(text) : Heights(text)[i] = Height(text, i)
         /\ Openers(text) \cap Closers(text) = {}
<1> DEFINE n == Len(text)
           up == Openers(text)
           down == Closers(text)
<1>1. n \in Nat
  BY DEF Texts
<1>2. up \subseteq 0..(n - 1) /\ down \subseteq 0..(n - 1)
  BY DEF Openers, Closers
<1>3. up \cap down = {}
  BY DEF Openers, Closers
<1>4. \A i : Height(text, i) = CountBelow(up, i) - CountBelow(down, i)
  BY DEF Height, CountBelow
<1>5. Height(text, 0) = 0
  <2>1. \A j \in 0..(n - 1) : ~ j < 0
    OBVIOUS
  <2>2. {j \in up : j < 0} = {} /\ {j \in down : j < 0} = {}
    BY <1>2, <2>1
  <2>3. CountBelow(up, 0) = 0 /\ CountBelow(down, 0) = 0
    BY <2>2, FS_EmptySet DEF CountBelow
  <2> QED
    BY <1>4, <2>3
<1>6. Heights(text) = [i \in 0..n |-> Height(text, i)]
  BY DEF Heights
<1> HIDE DEF n, up, down
<1>7. ASSUME NEW i \in Nat
      PROVE  /\ CountBelow(up, i) \in Nat /\ CountBelow(down, i) \in Nat
             /\ CountBelow(up, i + 1) = IF i \in up THEN CountBelow(up, i) + 1 ELSE CountBelow(up, i)
             /\ CountBelow(down, i + 1) = IF i \in down THEN CountBelow(down, i) + 1 ELSE CountBelow(down, i)
  BY <1>1, <1>2, CountNext
<1>8. \A i \in 0..n : Height(text, i) \in Int
  BY <1>1, <1>4, <1>7
<1>9. ASSUME NEW i \in 0..(n - 1)
      PROVE  Height(text, i + 1) = IF i \in up THEN Height(text, i) + 1
                                   ELSE IF i \in down THEN Height(text, i) - 1 ELSE Height(text, i)
  <2>1. i \in Nat /\ ~ (i \in up /\ i \in down)
    BY <1>1, <1>3
  <2> QED
    BY <1>4, <1>7, <2>1
<1>10. Heights(text) \in [0..n -> Int] /\ \A i \in 0..n : Heights(text)[i] = Height(text, i)
  BY <1>6, <1>8
<1>11. \A i \in 0..(n - 1) : i \in 0..n /\ i + 1 \in 0..n
  BY <1>1
<1>12. \A i \in 0..(n - 1) :
         Heights(text)[i + 1] = IF i \in up THEN Heights(text)[i] + 1
                                ELSE IF i \in down THEN Heights(text)[i] - 1 ELSE Heights(text)[i]
  BY <1>9, <1>10, <1>11
<1>13. Walks(Heights(text), n, up, down)
  BY <1>1, <1>2, <1>10, <1>12 DEF Walks
<1>14. Heights(text)[0] = 0
  BY <1>1, <1>5, <1>10
<1> QED
  BY <1>3, <1>10, <1>13, <1>14 DEF n, up, down

(* The last place before s where a walk is below its height at s is an     *)
(* opener, and from there on it is not below that height.                  *)
LEMMA LastRise ==
  ASSUME NEW h, NEW n, NEW up, NEW down, Walks(h, n, up, down),
         NEW a \in 0..n, NEW s \in 0..n, a < s, h[a] < h[s]
  PROVE  \E i \in up : /\ a <= i /\ i < s /\ h[i] = h[s] - 1 /\ h[i + 1] = h[s]
                       /\ \A j \in (i + 1)..s : h[j] >= h[s]
<1> DEFINE S == {i \in a..(s - 1) : h[i] < h[s]}
<1>0. n \in Nat /\ \A i \in 0..n : h[i] \in Int
  BY DEF Walks
<1>1. a \in S /\ S \subseteq 0..n
  BY <1>0
<1>2. PICK i \in S : \A t \in S : t <= i
  BY <1>0, <1>1, Greatest
<1>3. i \in 0..(n - 1) /\ i \in Nat /\ a <= i /\ i < s /\ h[i] < h[s] /\ i \in 0..n /\ i + 1 \in 0..n
  BY <1>0, <1>2
<1>4. ASSUME NEW j \in (i + 1)..s PROVE h[j] >= h[s]
  <2>1. j \in 0..n /\ h[j] \in Int /\ h[s] \in Int
    BY <1>0, <1>3
  <2>2. j = s \/ j \in a..(s - 1)
    BY <1>3
  <2>3. j \in S => j <= i
    BY <1>2
  <2>4. j \notin S
    BY <1>3, <2>3
  <2> QED
    BY <2>1, <2>2, <2>4
<1>5. h[i + 1] >= h[s]
  BY <1>3, <1>4
<1>6. h[i + 1] = IF i \in up THEN h[i] + 1 ELSE IF i \in down THEN h[i] - 1 ELSE h[i]
  BY <1>3 DEF Walks
<1>7. h[i] \in Int /\ h[s] \in Int /\ h[i + 1] \in Int
  BY <1>0, <1>3
<1>8. i \in up /\ h[i + 1] = h[s] /\ h[i] = h[s] - 1
  BY <1>3, <1>5, <1>6, <1>7
<1> QED
  BY <1>3, <1>4, <1>8

(* The first fall below its height at e is at a closer, and up to there it *)
(* was not below that height.                                              *)
LEMMA FirstFall ==
  ASSUME NEW h, NEW n, NEW up, NEW down, Walks(h, n, up, down),
         NEW e \in 0..n, NEW b \in 0..n, e < b, h[b] < h[e]
  PROVE  \E i \in down : /\ e <= i /\ i < b /\ h[i] = h[e] /\ h[i + 1] = h[e] - 1
                         /\ \A j \in e..i : h[j] >= h[e]
<1> DEFINE S == {i \in e..b : h[i] < h[e]}
<1>0. n \in Nat /\ \A i \in 0..n : h[i] \in Int
  BY DEF Walks
<1>1. b \in S /\ S \subseteq Nat
  BY <1>0
<1>2. PICK m \in S : \A t \in S : t >= m
  BY <1>1, Least
<1>3. m \in e..b /\ h[m] < h[e] /\ m # e
  BY <1>0, <1>2
<1> DEFINE i == m - 1
<1>4. i \in 0..(n - 1) /\ i \in Nat /\ e <= i /\ i < b /\ i + 1 = m /\ i \in 0..n /\ m \in 0..n
  BY <1>0, <1>3
<1>5. ASSUME NEW j \in e..i PROVE h[j] >= h[e]
  <2>1. j \in e..b /\ j \in 0..n /\ j < m
    <3>1. n \in Nat /\ e \in Nat /\ b \in Nat /\ b <= n /\ i < b /\ i \in Nat /\ i + 1 = m
      BY <1>0, <1>4
    <3> HIDE DEF i
    <3> QED
      BY <3>1
  <2>2. j \in S => j >= m
    BY <1>2
  <2>3. j \notin S
    BY <1>4, <2>1, <2>2
  <2> QED
    BY <1>0, <2>1, <2>3
<1> HIDE DEF i
<1>6. h[i] >= h[e]
  BY <1>4, <1>5
<1>7. h[m] = IF i \in up THEN h[i] + 1 ELSE IF i \in down THEN h[i] - 1 ELSE h[i]
  <2>1. h[i + 1] = IF i \in up THEN h[i] + 1 ELSE IF i \in down THEN h[i] - 1 ELSE h[i]
    BY <1>4 DEF Walks
  <2> QED
    BY <1>4, <2>1
<1>8. h[i] \in Int /\ h[e] \in Int /\ h[m] \in Int
  BY <1>0, <1>4
<1>9. i \in down /\ h[m] = h[e] - 1 /\ h[i] = h[e]
  BY <1>3, <1>6, <1>7, <1>8
<1>10. h[i + 1] = h[e] - 1
  BY <1>4, <1>9
<1> QED
  BY <1>4, <1>5, <1>9, <1>10

LEMMA MaxIs ==
  ASSUME NEW n \in Nat, NEW S, S \subseteq 0..n, S # {}
  PROVE  Max(S) \in S /\ \A t \in S : t <= Max(S)
<1>1. \E r \in S : \A t \in S : t <= r
  BY Greatest
<1>2. \A t, r \in S : t <= r <=> r >= t
  OBVIOUS
<1>3. \E r \in S : \A t \in S : r >= t
  BY <1>1, <1>2
<1>4. Max(S) \in S /\ \A t \in S : Max(S) >= t
  BY <1>3, Zenon DEF Max
<1> QED
  BY <1>2, <1>4

LEMMA MinIs ==
  ASSUME NEW S, S \subseteq Nat, S # {}
  PROVE  Min(S) \in S /\ \A t \in S : Min(S) <= t
<1>1. \E r \in S : \A t \in S : t >= r
  BY Least
<1>2. \A t, r \in S : t >= r => r <= t
  OBVIOUS
<1>3. \E r \in S : \A t \in S : r <= t
  BY <1>1, <1>2
<1> QED
  BY <1>3, Zenon DEF Min

(* The number of openers less that of closers in a stretch is what the     *)
(* height gains over it.                                                   *)
LEMMA Gain ==
  ASSUME NEW text \in Texts, NEW a \in 0..Len(text), NEW b \in 0..Len(text), a <= b
  PROVE  /\ Cardinality({j \in Openers(text) : a <= j /\ j < b})
            - Cardinality({j \in Closers(text) : a <= j /\ j < b}) = Heights(text)[b] - Heights(text)[a]
         /\ Cardinality({j \in Openers(text) : a <= j /\ j < b}) \in Int
         /\ Cardinality({j \in Closers(text) : a <= j /\ j < b}) \in Int
<1> DEFINE n == Len(text)
           up == Openers(text)
           down == Closers(text)
<1>1. n \in Nat /\ up \subseteq 0..(n - 1) /\ down \subseteq 0..(n - 1)
  BY DEF Texts, Openers, Closers
<1>2. \A i : Height(text, i) = CountBelow(up, i) - CountBelow(down, i)
  BY DEF Height, CountBelow
<1>3. Heights(text)[a] = Height(text, a) /\ Heights(text)[b] = Height(text, b)
  BY HeightsWalk
<1> HIDE DEF n, up, down
<1>4. a \in Nat /\ b \in Nat
  BY <1>1 DEF n
<1>5. /\ Cardinality({j \in up : a <= j /\ j < b}) = CountBelow(up, b) - CountBelow(up, a)
      /\ Cardinality({j \in down : a <= j /\ j < b}) = CountBelow(down, b) - CountBelow(down, a)
  BY <1>1, <1>4, CountBetween
<1>6. /\ CountBelow(up, a) \in Nat /\ CountBelow(up, b) \in Nat
      /\ CountBelow(down, a) \in Nat /\ CountBelow(down, b) \in Nat
  BY <1>1, <1>4, CountNext
<1> DEFINE x == Cardinality({j \in up : a <= j /\ j < b})
           y == Cardinality({j \in down : a <= j /\ j < b})
<1>7. x - y = Heights(text)[b] - Heights(text)[a] /\ x \in Int /\ y \in Int
  <2> HIDE DEF x, y
  <2> QED
    BY <1>2, <1>3, <1>5, <1>6 DEF x, y
<1> QED
  BY <1>7 DEF x, y, up, down

(* What enclosing_open finds, by the heights.                              *)
LEMMA OpenIs ==
  ASSUME NEW text \in Texts, NEW s \in 0..Len(text)
  PROVE  /\ EnclosingOpen(text, s) = None
              => \A i \in Openers(text) : i < s => Heights(text)[i + 1] # Heights(text)[s]
         /\ EnclosingOpen(text, s) # None
              => /\ EnclosingOpen(text, s) \in Openers(text) /\ EnclosingOpen(text, s) < s
                 /\ Heights(text)[EnclosingOpen(text, s) + 1] = Heights(text)[s]
                 /\ \A i \in Openers(text) :
                      i < s /\ Heights(text)[i + 1] = Heights(text)[s] => i <= EnclosingOpen(text, s)
<1> DEFINE h == Heights(text)
           n == Len(text)
           ups(i) == {j \in Openers(text) : i < j /\ j < s}
           downs(i) == {j \in Closers(text) : i < j /\ j < s}
           depth(i) == Cardinality(downs(i)) - Cardinality(ups(i))
           stops == {i \in Openers(text) : i < s /\ depth(i) = 0}
           a == EnclosingOpen(text, s)
<1>1. n \in Nat /\ Openers(text) \subseteq 0..(n - 1) /\ Closers(text) \subseteq 0..(n - 1)
  BY DEF Texts, Openers, Closers
<1>2. a = IF stops = {} THEN None ELSE Max(stops)
  BY DEF EnclosingOpen
<1>3. h \in [0..n -> Int]
  BY HeightsWalk DEF Walks
<1>4. ASSUME NEW i \in Openers(text), i < s PROVE depth(i) = 0 <=> h[i + 1] = h[s]
  <2>1. i \in Nat /\ i + 1 \in 0..n /\ i + 1 <= s
    BY <1>1, <1>4
  <2>2. /\ ups(i) = {j \in Openers(text) : i + 1 <= j /\ j < s}
        /\ downs(i) = {j \in Closers(text) : i + 1 <= j /\ j < s}
    <3>1. \A j \in Nat : i < j <=> i + 1 <= j
      BY <2>1
    <3>2. \A j \in Openers(text) \cup Closers(text) : j \in Nat
      BY <1>1
    <3> QED
      BY <3>1, <3>2
  <2> HIDE DEF ups, downs, h
  <2>3. /\ Cardinality(ups(i)) - Cardinality(downs(i)) = h[s] - h[i + 1]
        /\ Cardinality(ups(i)) \in Int /\ Cardinality(downs(i)) \in Int
    BY <2>1, <2>2, Gain DEF h
  <2>4. h[s] \in Int /\ h[i + 1] \in Int
    BY <1>3, <2>1
  <2> QED
    BY <2>3, <2>4
<1> HIDE DEF depth
<1>5. \A i : i \in stops <=> i \in Openers(text) /\ i < s /\ h[i + 1] = h[s]
  BY <1>4
<1>6. stops \subseteq 0..n
  BY <1>1
<1> HIDE DEF stops, h, a
<1>7. CASE stops = {}
  <2>1. a = None
    BY <1>2, <1>7
  <2>2. \A i \in Openers(text) : i < s => h[i + 1] # h[s]
    BY <1>5, <1>7
  <2> QED
    BY <2>1, <2>2 DEF a, h
<1>8. CASE stops # {}
  <2>1. a \in stops /\ \A t \in stops : t <= a
    BY <1>1, <1>2, <1>6, <1>8, MaxIs
  <2>2. a \in Openers(text) /\ a < s /\ h[a + 1] = h[s]
    BY <1>5, <2>1
  <2>3. \A i \in Openers(text) : i < s /\ h[i + 1] = h[s] => i <= a
    BY <1>5, <2>1
  <2>4. a # None
    BY <1>1, <2>2 DEF None
  <2> QED
    BY <2>2, <2>3, <2>4 DEF a, h
<1> QED
  BY <1>7, <1>8

(* What enclosing_close finds.                                             *)
LEMMA CloseIs ==
  ASSUME NEW text \in Texts, NEW e \in 0..Len(text)
  PROVE  /\ EnclosingClose(text, e) = None
              => \A i \in Closers(text) : e <= i => Heights(text)[i] # Heights(text)[e]
         /\ EnclosingClose(text, e) # None
              => /\ EnclosingClose(text, e) \in Closers(text) /\ e <= EnclosingClose(text, e)
                 /\ Heights(text)[EnclosingClose(text, e)] = Heights(text)[e]
                 /\ \A i \in Closers(text) :
                      e <= i /\ Heights(text)[i] = Heights(text)[e] => EnclosingClose(text, e) <= i
<1> DEFINE h == Heights(text)
           n == Len(text)
           ups(i) == {j \in Openers(text) : e <= j /\ j < i}
           downs(i) == {j \in Closers(text) : e <= j /\ j < i}
           depth(i) == Cardinality(ups(i)) - Cardinality(downs(i))
           stops == {i \in Closers(text) : e <= i /\ depth(i) = 0}
           b == EnclosingClose(text, e)
<1>1. n \in Nat /\ Openers(text) \subseteq 0..(n - 1) /\ Closers(text) \subseteq 0..(n - 1)
  BY DEF Texts, Openers, Closers
<1>2. b = IF stops = {} THEN None ELSE Min(stops)
  BY DEF EnclosingClose
<1>3. h \in [0..n -> Int]
  BY HeightsWalk DEF Walks
<1>4. ASSUME NEW i \in Closers(text), e <= i PROVE depth(i) = 0 <=> h[i] = h[e]
  <2>1. i \in 0..n
    BY <1>1
  <2> HIDE DEF ups, downs, h
  <2>2. /\ Cardinality(ups(i)) - Cardinality(downs(i)) = h[i] - h[e]
        /\ Cardinality(ups(i)) \in Int /\ Cardinality(downs(i)) \in Int
    BY <1>4, <2>1, Gain DEF h, ups, downs
  <2>3. h[i] \in Int /\ h[e] \in Int
    BY <1>3, <2>1
  <2> QED
    BY <2>2, <2>3
<1> HIDE DEF depth
<1>5. \A i : i \in stops <=> i \in Closers(text) /\ e <= i /\ h[i] = h[e]
  BY <1>4
<1>6. stops \subseteq Nat
  BY <1>1
<1> HIDE DEF stops, h, b
<1>7. CASE stops = {}
  <2>1. b = None
    BY <1>2, <1>7
  <2>2. \A i \in Closers(text) : e <= i => h[i] # h[e]
    BY <1>5, <1>7
  <2> QED
    BY <2>1, <2>2 DEF b, h
<1>8. CASE stops # {}
  <2>1. b \in stops /\ \A t \in stops : b <= t
    BY <1>2, <1>6, <1>8, MinIs
  <2>2. b \in Closers(text) /\ e <= b /\ h[b] = h[e]
    BY <1>5, <2>1
  <2>3. \A i \in Closers(text) : e <= i /\ h[i] = h[e] => b <= i
    BY <1>5, <2>1
  <2>4. b # None
    BY <1>1, <2>2 DEF None
  <2> QED
    BY <2>2, <2>3, <2>4 DEF b, h
<1> QED
  BY <1>7, <1>8

(* What matching_close finds behind the opener.                            *)
LEMMA MatchingIs ==
  ASSUME NEW text \in Texts, NEW open \in Openers(text)
  PROVE  /\ MatchingClose(text, open) = None
              => \A i \in Closers(text) : open < i => Heights(text)[i] # Heights(text)[open] + 1
         /\ MatchingClose(text, open) # None
              => /\ MatchingClose(text, open) \in Closers(text) /\ open < MatchingClose(text, open)
                 /\ Heights(text)[MatchingClose(text, open)] = Heights(text)[open] + 1
                 /\ \A i \in Closers(text) :
                      open < i /\ Heights(text)[i] = Heights(text)[open] + 1 => MatchingClose(text, open) <= i
<1> DEFINE h == Heights(text)
           n == Len(text)
           ups(i) == {j \in Openers(text) : open <= j /\ j < i}
           downs(i) == {j \in Closers(text) : open <= j /\ j < i}
           depth(i) == Cardinality(ups(i)) - Cardinality(downs(i))
           stops == {i \in Closers(text) : open < i /\ depth(i) = 1}
           b == MatchingClose(text, open)
<1>1. n \in Nat /\ Openers(text) \subseteq 0..(n - 1) /\ Closers(text) \subseteq 0..(n - 1)
  BY DEF Texts, Openers, Closers
<1>2. b = IF stops = {} THEN None ELSE Min(stops)
  BY DEF MatchingClose
<1>3. h \in [0..n -> Int] /\ open \in 0..n
  BY <1>1, HeightsWalk DEF Walks
<1>4. ASSUME NEW i \in Closers(text), open < i PROVE depth(i) = 1 <=> h[i] = h[open] + 1
  <2>1. i \in 0..n /\ open <= i
    BY <1>1, <1>3, <1>4
  <2> HIDE DEF ups, downs, h
  <2>2. /\ Cardinality(ups(i)) - Cardinality(downs(i)) = h[i] - h[open]
        /\ Cardinality(ups(i)) \in Int /\ Cardinality(downs(i)) \in Int
    BY <1>3, <2>1, Gain DEF h, ups, downs
  <2>3. h[i] \in Int /\ h[open] \in Int
    BY <1>3, <2>1
  <2> QED
    BY <2>2, <2>3
<1> HIDE DEF depth
<1>5. \A i : i \in stops <=> i \in Closers(text) /\ open < i /\ h[i] = h[open] + 1
  BY <1>4
<1>6. stops \subseteq Nat
  BY <1>1
<1> HIDE DEF stops, h, b
<1>7. CASE stops = {}
  <2>1. b = None
    BY <1>2, <1>7
  <2>2. \A i \in Closers(text) : open < i => h[i] # h[open] + 1
    BY <1>5, <1>7
  <2> QED
    BY <2>1, <2>2 DEF b, h
<1>8. CASE stops # {}
  <2>1. b \in stops /\ \A t \in stops : b <= t
    BY <1>2, <1>6, <1>8, MinIs
  <2>2. b \in Closers(text) /\ open < b /\ h[b] = h[open] + 1
    BY <1>5, <2>1
  <2>3. \A i \in Closers(text) : open < i /\ h[i] = h[open] + 1 => b <= i
    BY <1>5, <2>1
  <2>4. b # None
    BY <1>1, <2>2 DEF None
  <2> QED
    BY <2>2, <2>3, <2>4 DEF b, h
<1> QED
  BY <1>7, <1>8

(* The walk of a part of a text is that stretch of the walk.               *)
LEMMA PartHeights ==
  ASSUME NEW text \in Texts, NEW p \in 0..Len(text), NEW q \in 0..Len(text), p <= q
  PROVE  /\ SubSeq(text, p + 1, q) \in Texts
         /\ Len(SubSeq(text, p + 1, q)) = q - p
         /\ \A i \in 0..(q - p) :
              Heights(SubSeq(text, p + 1, q))[i] = Heights(text)[p + i] - Heights(text)[p]
<1> DEFINE n == Len(text)
           m == q - p
           span == [start |-> p, end |-> q]
           u == SubSeq(text, p + 1, q)
           h == Heights(text)
           g == Heights(u)
<1>1. n \in Nat /\ m \in Nat /\ p \in Nat /\ q \in Nat /\ p + m = q /\ q <= n
  BY DEF Texts
<1>2. u \in Texts /\ Len(u) = m /\ \A i \in 1..m : u[i] = text[p + i]
  <2>1. span \in SpansIn(n) /\ span.start = p /\ span.end = q
    BY <1>1 DEF SpansIn
  <2>2. /\ SubSeq(text, span.start + 1, span.end) \in Texts
        /\ Len(SubSeq(text, span.start + 1, span.end)) = span.end - span.start
        /\ \A i \in 1..(span.end - span.start) :
             SubSeq(text, span.start + 1, span.end)[i] = text[span.start + i]
    BY <2>1, SliceBytes
  <2> QED
    BY <2>1, <2>2
<1>3. /\ Walks(h, n, Openers(text), Closers(text))
      /\ Walks(g, m, Openers(u), Closers(u)) /\ g[0] = 0
  BY <1>2, HeightsWalk
<1>4. ASSUME NEW i \in 0..(m - 1)
      PROVE  /\ i \in Openers(u) <=> p + i \in Openers(text)
             /\ i \in Closers(u) <=> p + i \in Closers(text)
  <2>1. i + 1 \in 1..m /\ p + i \in 0..(n - 1) /\ p + (i + 1) = p + i + 1
    BY <1>1
  <2>2. u[i + 1] = text[p + i + 1]
    BY <1>2, <2>1
  <2>3. Len(u) = m
    BY <1>2
  <2> HIDE DEF u, m
  <2> QED
    BY <2>1, <2>2, <2>3 DEF Openers, Closers
<1> HIDE DEF n, m, u, h, g
<1>5. ASSUME NEW i \in 0..(m - 1), g[i] = h[p + i] - h[p] PROVE g[i + 1] = h[p + (i + 1)] - h[p]
  <2>1. p + i \in 0..(n - 1) /\ p + i + 1 = p + (i + 1) /\ p + i \in 0..n /\ p \in 0..n /\ i \in 0..m
    BY <1>1
  <2>2. h[p + i + 1] = IF p + i \in Openers(text) THEN h[p + i] + 1
                       ELSE IF p + i \in Closers(text) THEN h[p + i] - 1 ELSE h[p + i]
    BY <1>3, <2>1 DEF Walks
  <2>3. g[i + 1] = IF i \in Openers(u) THEN g[i] + 1 ELSE IF i \in Closers(u) THEN g[i] - 1 ELSE g[i]
    BY <1>3 DEF Walks
  <2>4. h[p + i] \in Int /\ h[p] \in Int /\ g[i] \in Int
    BY <1>3, <2>1 DEF Walks
  <2>5. \/ h[p + i + 1] = h[p + i] + 1 /\ g[i + 1] = g[i] + 1
        \/ h[p + i + 1] = h[p + i] - 1 /\ g[i + 1] = g[i] - 1
        \/ h[p + i + 1] = h[p + i] /\ g[i + 1] = g[i]
    BY <1>4, <2>2, <2>3
  <2> DEFINE x == h[p + i]
             y == h[p]
             z == g[i]
             w == g[i + 1]
             v == h[p + i + 1]
  <2>6. w = v - y
    <3>1. x \in Int /\ y \in Int /\ z \in Int /\ z = x - y
      BY <1>5, <2>4
    <3>2. \/ v = x + 1 /\ w = z + 1
          \/ v = x - 1 /\ w = z - 1
          \/ v = x /\ w = z
      BY <2>5
    <3> HIDE DEF x, y, z, w, v
    <3> QED
      BY <3>1, <3>2
  <2> QED
    BY <2>1, <2>6
<1> DEFINE Good == {i \in 0..m : g[i] = h[p + i] - h[p]}
<1>6. 0 \in Good
  <2>1. p + 0 = p /\ h[p] \in Int /\ 0 \in 0..m
    BY <1>1, <1>3 DEF Walks, n
  <2> QED
    BY <1>3, <2>1
<1>7. ASSUME NEW i \in (0 + 1)..m, i - 1 \in Good PROVE i \in Good
  <2>1. i - 1 \in 0..(m - 1) /\ (i - 1) + 1 = i /\ i \in 0..m
    BY <1>1
  <2> DEFINE k == i - 1
  <2>2. k \in 0..(m - 1) /\ g[k] = h[p + k] - h[p] /\ k + 1 = i
    BY <1>7, <2>1
  <2> HIDE DEF k
  <2>3. g[k + 1] = h[p + (k + 1)] - h[p]
    BY <1>5, <2>2
  <2> QED
    BY <2>1, <2>2, <2>3
<1> HIDE DEF Good
<1>8. \A i \in 0..m : i \in Good
  BY <1>1, <1>6, <1>7, UpTo
<1> QED
  BY <1>2, <1>8 DEF Good, m, u, h, g

(* A stretch of a walk that ends at the height it starts at and is never   *)
(* below it.                                                               *)
Matched(h, p, q) == h[p] = h[q] /\ \A i \in p..q : h[i] >= h[p]

LEMMA BalancedPart ==
  ASSUME NEW text \in Texts, NEW p \in 0..Len(text), NEW q \in 0..Len(text), p <= q
  PROVE  Balanced(SubSeq(text, p + 1, q)) <=> Matched(Heights(text), p, q)
<1> DEFINE u == SubSeq(text, p + 1, q)
           h == Heights(text)
           m == q - p
<1>1. p \in Nat /\ q \in Nat /\ Len(text) \in Nat /\ q <= Len(text) /\ m \in Nat /\ p + m = q
  BY DEF Texts
<1>2. u \in Texts /\ Len(u) = m /\ \A i \in 0..m : Heights(u)[i] = h[p + i] - h[p]
  BY PartHeights
<1>3. \A i \in 0..m : Heights(u)[i] = Height(u, i)
  BY <1>2, HeightsWalk
<1>4. \A i \in p..q : h[i] \in Int
  <2>1. h \in [0..Len(text) -> Int]
    BY HeightsWalk DEF Walks
  <2>2. \A i \in p..q : i \in 0..Len(text)
    BY <1>1
  <2> QED
    BY <2>1, <2>2
<1> HIDE DEF u, h, m
<1>5. Balanced(u) <=> h[p + m] - h[p] = 0 /\ \A i \in 0..m : h[p + i] - h[p] >= 0
  <2>1. Balanced(u) <=> Height(u, m) = 0 /\ \A i \in 0..m : Height(u, i) >= 0
    BY <1>2 DEF Balanced
  <2>2. m \in 0..m /\ \A i \in 0..m : Height(u, i) = h[p + i] - h[p]
    BY <1>1, <1>2, <1>3
  <2> QED
    BY <2>1, <2>2
<1>6. p \in p..q /\ q \in p..q
  BY <1>1
<1>7. h[p + m] - h[p] = 0 <=> h[p] = h[q]
  BY <1>1, <1>4, <1>6
<1>8. (\A i \in 0..m : h[p + i] - h[p] >= 0) <=> \A i \in p..q : h[i] >= h[p]
  <2>1. ASSUME \A i \in 0..m : h[p + i] - h[p] >= 0, NEW i \in p..q PROVE h[i] >= h[p]
    <3>1. i - p \in 0..m /\ p + (i - p) = i
      BY <1>1
    <3>2. h[i] - h[p] >= 0
      BY <2>1, <3>1
    <3> QED
      BY <1>4, <1>6, <3>2
  <2>2. ASSUME \A i \in p..q : h[i] >= h[p], NEW i \in 0..m PROVE h[p + i] - h[p] >= 0
    <3>1. p + i \in p..q
      BY <1>1
    <3>2. h[p + i] >= h[p]
      BY <2>2, <3>1
    <3> QED
      BY <1>4, <1>6, <3>1, <3>2
  <2> QED
    BY <2>1, <2>2
<1>9. Balanced(u) <=> Matched(h, p, q)
  BY <1>5, <1>7, <1>8 DEF Matched
<1> QED
  BY <1>9 DEF u, h

(* A text as a part of itself.                                             *)
LEMMA BalancedWhole ==
  ASSUME NEW text \in Texts
  PROVE  Balanced(text) <=> Matched(Heights(text), 0, Len(text))
<1> DEFINE n == Len(text)
           h == Heights(text)
<1>1. n \in Nat /\ 0 \in 0..n /\ n \in 0..n
  BY DEF Texts
<1>2. h[0] = 0 /\ \A i \in 0..n : h[i] = Height(text, i)
  BY HeightsWalk
<1> HIDE DEF n, h
<1>3. Balanced(text) <=> h[n] = 0 /\ \A i \in 0..n : h[i] >= 0
  BY <1>1, <1>2 DEF Balanced, n
<1>4. Balanced(text) <=> h[0] = h[n] /\ \A i \in 0..n : h[i] >= h[0]
  BY <1>2, <1>3
<1> QED
  BY <1>4 DEF Matched, n, h

LEMMA RegionsAre ==
  ASSUME NEW text \in Texts, NEW r
  PROVE  r \in Regions(text) <=>
           \E a \in Openers(text), b \in Closers(text) :
             /\ a < b /\ r = [start |-> a, end |-> b + 1] /\ Matched(Heights(text), a + 1, b)
<1> DEFINE n == Len(text)
           up == Openers(text)
           down == Closers(text)
<1>1. n \in Nat /\ \A a \in up : a \in 0..(n - 1)
  BY DEF Texts, Openers
<1>2. \A b \in down : b \in 0..(n - 1)
  BY DEF Closers
<1>3. ASSUME NEW a \in up, NEW b \in down
      PROVE  /\ b \in Int
             /\ a < b => (Balanced(SubSeq(text, a + 2, b)) <=> Matched(Heights(text), a + 1, b))
  <2>1. a \in Nat /\ b \in Nat /\ a + 2 = a + 1 + 1 /\ b + 1 - 1 = b
    BY <1>1, <1>2
  <2>2. ASSUME a < b PROVE Balanced(SubSeq(text, a + 2, b)) <=> Matched(Heights(text), a + 1, b)
    <3> DEFINE p == a + 1
    <3>1. p \in 0..n /\ b \in 0..n /\ p <= b /\ a + 2 = p + 1
      BY <1>1, <1>2, <2>1, <2>2
    <3> HIDE DEF p
    <3>2. Balanced(SubSeq(text, p + 1, b)) <=> Matched(Heights(text), p, b)
      BY <3>1, BalancedPart DEF n
    <3> QED
      BY <3>1, <3>2 DEF p
  <2> QED
    BY <2>1, <2>2
<1>4. r \in Regions(text) <=>
        /\ r \in [start : up, end : {i + 1 : i \in down}]
        /\ r.start < r.end - 1 /\ Balanced(SubSeq(text, r.start + 2, r.end - 1))
  BY DEF Regions
<1> HIDE DEF n, up, down
<1>5. ASSUME r \in Regions(text)
      PROVE  \E a \in up, b \in down :
               /\ a < b /\ r = [start |-> a, end |-> b + 1] /\ Matched(Heights(text), a + 1, b)
  <2>1. PICK a \in up : r.start = a
    BY <1>4, <1>5
  <2>2. PICK b \in down : r.end = b + 1
    BY <1>4, <1>5
  <2>3. r = [start |-> a, end |-> b + 1]
    BY <1>4, <1>5, <2>1, <2>2
  <2>6. r.end - 1 = b
    BY <1>3, <2>2
  <2>4. a < b
    BY <1>4, <1>5, <2>1, <2>6
  <2>5. Balanced(SubSeq(text, a + 2, b))
    BY <1>4, <1>5, <2>1, <2>6
  <2> QED
    BY <1>3, <2>3, <2>4, <2>5
<1>6. ASSUME NEW a \in up, NEW b \in down, a < b, r = [start |-> a, end |-> b + 1],
             Matched(Heights(text), a + 1, b)
      PROVE  r \in Regions(text)
  <2>1. r \in [start : up, end : {i + 1 : i \in down}] /\ r.start = a /\ r.end = b + 1
    BY <1>6
  <2>4. r.end - 1 = b
    BY <1>3, <2>1
  <2>2. r.start < r.end - 1
    BY <1>6, <2>1, <2>4
  <2>5. Balanced(SubSeq(text, a + 2, b))
    BY <1>3, <1>6
  <2>3. Balanced(SubSeq(text, r.start + 2, r.end - 1))
    BY <2>1, <2>4, <2>5
  <2> QED
    BY <1>4, <2>1, <2>2, <2>3
<1> QED
  BY <1>5, <1>6 DEF up, down

(* The opener that + finds from s: there is one if the walk is anywhere    *)
(* before s below its height there, it is not before that place, and       *)
(* behind it the walk is not below that height up to s.                    *)
LEMMA OpenReaches ==
  ASSUME NEW text \in Texts, NEW s \in 0..Len(text),
         NEW a \in 0..Len(text), a < s, Heights(text)[a] < Heights(text)[s]
  PROVE  /\ EnclosingOpen(text, s) # None
         /\ a <= EnclosingOpen(text, s)
         /\ \A j \in (EnclosingOpen(text, s) + 1)..s : Heights(text)[j] >= Heights(text)[s]
<1> DEFINE h == Heights(text)
           n == Len(text)
           o == EnclosingOpen(text, s)
<1>1. n \in Nat /\ \A i \in Openers(text) : i \in Nat
  BY DEF Texts, Openers
<1>2. Walks(h, n, Openers(text), Closers(text))
  BY HeightsWalk
<1>3. PICK i \in Openers(text) : /\ a <= i /\ i < s /\ h[i] = h[s] - 1 /\ h[i + 1] = h[s]
                                 /\ \A j \in (i + 1)..s : h[j] >= h[s]
  <2> HIDE DEF h
  <2> QED
    BY <1>2, LastRise DEF h
<1>4. /\ o = None => \A j \in Openers(text) : j < s => h[j + 1] # h[s]
      /\ o # None => /\ o \in Openers(text)
                     /\ \A j \in Openers(text) : j < s /\ h[j + 1] = h[s] => j <= o
  BY OpenIs
<1> HIDE DEF h, o
<1>5. o # None /\ o \in Nat /\ i <= o
  BY <1>1, <1>3, <1>4
<1>6. \A j \in (o + 1)..s : j \in (i + 1)..s
  BY <1>1, <1>3, <1>5
<1>7. a <= o
  BY <1>1, <1>3, <1>5
<1> QED
  BY <1>3, <1>5, <1>6, <1>7 DEF h, o

LEMMA CloseReaches ==
  ASSUME NEW text \in Texts, NEW e \in 0..Len(text),
         NEW b \in 0..Len(text), e < b, Heights(text)[b] < Heights(text)[e]
  PROVE  /\ EnclosingClose(text, e) # None
         /\ EnclosingClose(text, e) < b
         /\ \A j \in e..EnclosingClose(text, e) : Heights(text)[j] >= Heights(text)[e]
<1> DEFINE h == Heights(text)
           n == Len(text)
           c == EnclosingClose(text, e)
<1>1. n \in Nat /\ \A i \in Closers(text) : i \in Nat
  BY DEF Texts, Closers
<1>2. Walks(h, n, Openers(text), Closers(text))
  BY HeightsWalk
<1>3. PICK i \in Closers(text) : /\ e <= i /\ i < b /\ h[i] = h[e] /\ h[i + 1] = h[e] - 1
                                 /\ \A j \in e..i : h[j] >= h[e]
  <2> HIDE DEF h
  <2> QED
    BY <1>2, FirstFall DEF h
<1>4. /\ c = None => \A j \in Closers(text) : e <= j => h[j] # h[e]
      /\ c # None => /\ c \in Closers(text)
                     /\ \A j \in Closers(text) : e <= j /\ h[j] = h[e] => c <= j
  BY CloseIs
<1> HIDE DEF h, c
<1>5. c # None /\ c \in Nat /\ c <= i
  BY <1>1, <1>3, <1>4
<1>6. \A j \in e..c : j \in e..i
  BY <1>1, <1>3, <1>5
<1>7. c < b
  BY <1>1, <1>3, <1>5
<1> QED
  BY <1>3, <1>5, <1>6, <1>7 DEF h, c

(* The height on both sides of a bracket.                                  *)
LEMMA AtBrackets ==
  ASSUME NEW text \in Texts
  PROVE  /\ \A i \in Openers(text) : /\ i \in 0..Len(text) /\ i + 1 \in 0..Len(text) /\ i \in Nat
                                     /\ Heights(text)[i + 1] = Heights(text)[i] + 1
         /\ \A i \in Closers(text) : /\ i \in 0..Len(text) /\ i + 1 \in 0..Len(text) /\ i \in Nat
                                     /\ Heights(text)[i + 1] = Heights(text)[i] - 1
         /\ \A i \in 0..Len(text) : Heights(text)[i] \in Int
         /\ Len(text) \in Nat
<1> DEFINE h == Heights(text)
           n == Len(text)
<1>1. Walks(h, n, Openers(text), Closers(text)) /\ Openers(text) \cap Closers(text) = {}
  BY HeightsWalk
<1>2. n \in Nat
  BY DEF Texts
<1>3. \A i \in 0..(n - 1) : i \in 0..n /\ i + 1 \in 0..n /\ i \in Nat
  BY <1>2
<1> HIDE DEF h, n
<1>4. /\ Openers(text) \subseteq 0..(n - 1) /\ Closers(text) \subseteq 0..(n - 1)
      /\ h \in [0..n -> Int]
      /\ \A i \in 0..(n - 1) :
           h[i + 1] = IF i \in Openers(text) THEN h[i] + 1
                      ELSE IF i \in Closers(text) THEN h[i] - 1 ELSE h[i]
  BY <1>1 DEF Walks
<1>5. \A i \in Openers(text) : h[i + 1] = h[i] + 1
  BY <1>4
<1>6. \A i \in Closers(text) : h[i + 1] = h[i] - 1
  BY <1>1, <1>4
<1> QED
  BY <1>2, <1>3, <1>4, <1>5, <1>6 DEF h, n

(* From a stretch whose brackets match, + goes to the smallest region of   *)
(* the text around it, or stays where it is if there is none.              *)
Around(text, s, e) == {r \in Regions(text) : r.start < s /\ e < r.end}

LEMMA ExpandMoves ==
  ASSUME NEW text \in Texts, NEW s \in 0..Len(text), NEW e \in 0..Len(text), s <= e,
         Matched(Heights(text), s, e)
  PROVE  IF Around(text, s, e) = {} THEN Expanded(text, s, e) = [start |-> s, end |-> e]
         ELSE /\ Expanded(text, s, e) \in Around(text, s, e)
              /\ \A r \in Around(text, s, e) :
                   r.start <= Expanded(text, s, e).start /\ Expanded(text, s, e).end <= r.end
<1> DEFINE h == Heights(text)
           n == Len(text)
           up == Openers(text)
           down == Closers(text)
           a == EnclosingOpen(text, s)
           b == EnclosingClose(text, e)
           x == Expanded(text, s, e)
<1>1. /\ \A i \in up : i \in 0..n /\ i + 1 \in 0..n /\ i \in Nat /\ h[i + 1] = h[i] + 1
      /\ \A i \in down : i \in 0..n /\ i + 1 \in 0..n /\ i \in Nat /\ h[i + 1] = h[i] - 1
      /\ \A i \in 0..n : h[i] \in Int
      /\ n \in Nat /\ s \in Nat /\ e \in Nat /\ s <= n /\ e <= n
  BY AtBrackets
<1>2. a # None => a \in up /\ a < s /\ h[a + 1] = h[s]
  BY OpenIs
<1>3. b # None => b \in down /\ e <= b /\ h[b] = h[e]
  BY CloseIs
<1>4. x = IF a # None /\ b # None THEN [start |-> a, end |-> b + 1] ELSE [start |-> s, end |-> e]
  BY DEF Expanded
<1>5. ASSUME NEW k \in 0..n, k < s, h[k] < h[s]
      PROVE  a # None /\ k <= a /\ \A j \in (a + 1)..s : h[j] >= h[s]
  BY <1>5, OpenReaches
<1>6. ASSUME NEW k \in 0..n, e < k, h[k] < h[e]
      PROVE  b # None /\ b < k /\ \A j \in e..b : h[j] >= h[e]
  BY <1>6, CloseReaches
<1>7. h[s] = h[e] /\ \A i \in s..e : h[i] >= h[s]
  BY DEF Matched
<1>8. \A r : r \in Regions(text) <=>
        \E i \in up, j \in down : i < j /\ r = [start |-> i, end |-> j + 1] /\ Matched(h, i + 1, j)
  BY RegionsAre
<1> HIDE DEF h, n, up, down, a, b, x
<1>9. ASSUME a # None, b # None PROVE x \in Around(text, s, e)
  <2>1. a \in 0..n /\ a < s /\ h[a] < h[s] /\ h[a + 1] = h[s] /\ a \in Nat
    BY <1>1, <1>2, <1>9
  <2>2. b + 1 \in 0..n /\ e < b + 1 /\ h[b + 1] < h[e] /\ h[b] = h[e] /\ b \in Nat
    BY <1>1, <1>3, <1>9
  <2>3. \A j \in (a + 1)..s : h[j] >= h[s]
    BY <1>5, <2>1
  <2>4. \A j \in e..b : h[j] >= h[e]
    BY <1>6, <2>2
  <2>5. \A j \in (a + 1)..b : j \in (a + 1)..s \/ j \in s..e \/ j \in e..b
    BY <1>1, <2>1, <2>2
  <2>6. h[a + 1] = h[b]
    BY <1>7, <2>1, <2>2
  <2>7. \A j \in (a + 1)..b : h[j] >= h[a + 1]
    BY <1>7, <2>1, <2>3, <2>4, <2>5
  <2>8. Matched(h, a + 1, b)
    BY <2>6, <2>7 DEF Matched
  <2>9. a < b
    BY <1>1, <1>3, <1>9, <2>1, <2>2
  <2>10. x = [start |-> a, end |-> b + 1]
    BY <1>4, <1>9
  <2>11. x \in Regions(text)
    BY <1>2, <1>3, <1>8, <1>9, <2>8, <2>9, <2>10
  <2> QED
    BY <2>1, <2>2, <2>10, <2>11 DEF Around
<1>10. ASSUME NEW r \in Around(text, s, e)
       PROVE  a # None /\ b # None /\ r.start <= x.start /\ x.end <= r.end
  <2>1. r \in Regions(text) /\ r.start < s /\ e < r.end
    BY DEF Around
  <2>2. PICK i \in up, j \in down :
          i < j /\ r = [start |-> i, end |-> j + 1] /\ Matched(h, i + 1, j)
    BY <1>8, <2>1
  <2>3. i < s /\ e < j + 1 /\ i \in 0..n /\ j + 1 \in 0..n /\ i \in Nat /\ j \in Nat
    BY <1>1, <2>1, <2>2
  <2>4. s \in (i + 1)..j /\ e <= j
    BY <1>1, <2>3
  <2>5. h[i + 1] = h[j] /\ h[s] >= h[i + 1]
    BY <2>2, <2>4 DEF Matched
  <2>6. /\ h[i + 1] = h[i] + 1 /\ h[j + 1] = h[j] - 1
        /\ h[i] \in Int /\ h[j] \in Int /\ h[s] \in Int /\ h[i + 1] \in Int
    BY <1>1, <2>2
  <2>7. h[i] < h[s] /\ h[j + 1] < h[e]
    <3>1. h[i] < h[i + 1] /\ h[j + 1] < h[j]
      BY <2>6
    <3>2. h[e] = h[s] /\ h[j] = h[i + 1] /\ h[s] >= h[i + 1]
      BY <1>7, <2>5
    <3>3. /\ h[j + 1] \in Int /\ h[e] \in Int /\ h[i] \in Int /\ h[j] \in Int
          /\ h[s] \in Int /\ h[i + 1] \in Int
      BY <1>1, <2>3, <2>6
    <3> QED
      BY <3>1, <3>2, <3>3
  <2>8. a # None /\ i <= a
    BY <1>5, <2>3, <2>7
  <2>9. b # None /\ b < j + 1
    BY <1>6, <2>3, <2>7
  <2>10. b + 1 <= j + 1
    <3>1. b \in Nat /\ j \in Nat
      BY <1>1, <1>3, <2>9
    <3> QED
      BY <2>9, <3>1
  <2>11. x.start = a /\ x.end = b + 1 /\ r.start = i /\ r.end = j + 1
    BY <1>4, <2>2, <2>8, <2>9
  <2> QED
    BY <2>8, <2>9, <2>10, <2>11
<1>11. CASE Around(text, s, e) = {}
  BY <1>4, <1>9, <1>11 DEF x
<1>12. CASE Around(text, s, e) # {}
  BY <1>9, <1>10, <1>12 DEF x
<1> QED
  BY <1>11, <1>12

(* In a text whose brackets match, - goes to a stretch whose brackets      *)
(* match, between the first opener and a closer.                           *)
LEMMA CollapseMoves ==
  ASSUME NEW text \in Texts, Balanced(text), Collapsed(text) # <<>>
  PROVE  \E a \in Openers(text), b \in Closers(text) :
           /\ Collapsed(text)[1] = [start |-> a + 1, end |-> b] /\ a < b
           /\ Matched(Heights(text), a + 1, b)
           /\ \A i \in Openers(text) : a <= i
<1> DEFINE h == Heights(text)
           n == Len(text)
           up == Openers(text)
           down == Closers(text)
           a == Min(up)
           b == MatchingClose(text, a)
<1>1. /\ \A i \in up : i \in 0..n /\ i + 1 \in 0..n /\ i \in Nat /\ h[i + 1] = h[i] + 1
      /\ \A i \in down : i \in 0..n /\ i + 1 \in 0..n /\ i \in Nat /\ h[i + 1] = h[i] - 1
      /\ \A i \in 0..n : h[i] \in Int
      /\ n \in Nat
  BY AtBrackets
<1>2. up # {} /\ Collapsed(text)[1] = [start |-> a + 1, end |-> IF b = None THEN n ELSE b]
  BY DEF Collapsed
<1>3. Walks(h, n, up, down) /\ h[0] = 0
  BY HeightsWalk
<1>4. h[0] = h[n] /\ \A i \in 0..n : h[i] >= h[0]
  BY BalancedWhole DEF Matched
<1>5. a \in up /\ \A i \in up : a <= i
  <2>1. up \subseteq Nat
    BY <1>1
  <2> HIDE DEF up
  <2> QED
    BY <1>2, <2>1, MinIs
<1>6. /\ b = None => \A i \in down : a < i => h[i] # h[a] + 1
      /\ b # None => /\ b \in down /\ a < b /\ h[b] = h[a] + 1
                     /\ \A i \in down : a < i /\ h[i] = h[a] + 1 => b <= i
  BY <1>5, MatchingIs
<1> HIDE DEF h, n, up, down, a, b
<1>7. a \in 0..n /\ a \in Nat /\ a + 1 \in 0..n /\ h[a + 1] = h[a] + 1 /\ h[a] \in Int
  BY <1>1, <1>5
<1>8. h[a] = 0
  <2> SUFFICES ASSUME h[a] # 0 PROVE FALSE
    OBVIOUS
  <2>1. h[a] > 0 /\ a # 0 /\ 0 \in 0..n /\ 0 < a
    BY <1>1, <1>3, <1>4, <1>7
  <2>2. h[0] < h[a]
    BY <1>3, <1>7, <2>1
  <2>3. \E i \in up : i < a
    BY <1>3, <1>7, <2>1, <2>2, LastRise
  <2> QED
    BY <1>1, <1>5, <1>7, <2>3
<1>9. h[a + 1] = 1 /\ h[n] = 0 /\ a + 1 < n /\ n \in 0..n
  BY <1>1, <1>3, <1>4, <1>7, <1>8
<1>10. PICK i \in down : /\ a + 1 <= i /\ h[i] = h[a + 1]
                         /\ \A j \in (a + 1)..i : h[j] >= h[a + 1]
  <2> DEFINE e == a + 1
  <2>1. e \in 0..n /\ e < n /\ h[n] < h[e] /\ n \in 0..n
    BY <1>7, <1>9
  <2> HIDE DEF e
  <2>2. \E i \in down : e <= i /\ h[i] = h[e] /\ \A j \in e..i : h[j] >= h[e]
    BY <1>3, <2>1, FirstFall
  <2> QED
    BY <2>2 DEF e
<1>11. b # None /\ b <= i /\ b \in down /\ a < b /\ h[b] = h[a + 1]
  <2>1. i \in Nat /\ a < i /\ h[i] = h[a] + 1
    BY <1>1, <1>7, <1>10
  <2> QED
    BY <1>6, <1>7, <1>10, <2>1
<1>12. \A j \in (a + 1)..b : h[j] >= h[a + 1]
  <2>1. b \in Nat /\ i \in Nat /\ a \in Nat /\ b <= i
    BY <1>1, <1>7, <1>11
  <2>2. \A j \in (a + 1)..b : j \in (a + 1)..i
    BY <2>1
  <2> QED
    BY <1>10, <2>2
<1>13. Matched(h, a + 1, b)
  BY <1>11, <1>12 DEF Matched
<1>14. Collapsed(text)[1] = [start |-> a + 1, end |-> b]
  BY <1>2, <1>11
<1> QED
  BY <1>5, <1>11, <1>13, <1>14 DEF h, up, down

(* From between two brackets + goes out to them.                           *)
LEMMA ExpandOut ==
  ASSUME NEW text \in Texts, NEW a \in Openers(text), NEW b \in Closers(text), a < b
  PROVE  Expanded(text, a + 1, b) = [start |-> a, end |-> b + 1]
<1> DEFINE s == a + 1
           o == EnclosingOpen(text, s)
           c == EnclosingClose(text, b)
<1>1. /\ \A i \in Openers(text) : i \in Nat
      /\ s \in 0..Len(text) /\ a \in Nat /\ a < s
  BY AtBrackets
<1>2. /\ \A i \in Closers(text) : i \in Nat
      /\ b \in 0..Len(text) /\ b \in Nat /\ b <= b
  BY AtBrackets
<1>3. s = a + 1
  OBVIOUS
<1>4. Expanded(text, s, b) = IF o # None /\ c # None
                             THEN [start |-> o, end |-> c + 1] ELSE [start |-> s, end |-> b]
  BY DEF Expanded
<1> HIDE DEF s
<1>5. /\ o = None => \A i \in Openers(text) : i < s => Heights(text)[i + 1] # Heights(text)[s]
      /\ o # None => /\ o \in Openers(text) /\ o < s
                     /\ \A i \in Openers(text) :
                          i < s /\ Heights(text)[i + 1] = Heights(text)[s] => i <= o
  BY <1>1, OpenIs
<1>6. /\ c = None => \A i \in Closers(text) : b <= i => Heights(text)[i] # Heights(text)[b]
      /\ c # None => /\ c \in Closers(text) /\ b <= c
                     /\ \A i \in Closers(text) :
                          b <= i /\ Heights(text)[i] = Heights(text)[b] => c <= i
  BY <1>2, CloseIs
<1> HIDE DEF o, c
<1>7. o # None /\ o \in Nat /\ a <= o /\ o < s
  BY <1>1, <1>3, <1>5
<1>8. c # None /\ c \in Nat /\ c <= b /\ b <= c
  BY <1>2, <1>6
<1>9. o = a /\ c = b
  BY <1>1, <1>2, <1>3, <1>7, <1>8
<1> QED
  BY <1>3, <1>4, <1>7, <1>8, <1>9

(* The brackets of a part are those of the text at the same places.        *)
LEMMA PartBrackets ==
  ASSUME NEW text \in Texts, NEW p \in 0..Len(text), NEW q \in 0..Len(text), p <= q
  PROVE  /\ \A i \in Openers(SubSeq(text, p + 1, q)) : p + i \in Openers(text)
         /\ \A i \in Closers(SubSeq(text, p + 1, q)) : p + i \in Closers(text)
<1> DEFINE n == Len(text)
           m == q - p
           span == [start |-> p, end |-> q]
           u == SubSeq(text, p + 1, q)
<1>1. n \in Nat /\ m \in Nat /\ p \in Nat /\ q \in Nat /\ p + m = q /\ q <= n
  BY DEF Texts
<1>2. Len(u) = m /\ \A i \in 1..m : u[i] = text[p + i]
  <2>1. span \in SpansIn(n) /\ span.start = p /\ span.end = q
    BY <1>1 DEF SpansIn
  <2>2. /\ Len(SubSeq(text, span.start + 1, span.end)) = span.end - span.start
        /\ \A i \in 1..(span.end - span.start) :
             SubSeq(text, span.start + 1, span.end)[i] = text[span.start + i]
    BY <2>1, SliceBytes
  <2> QED
    BY <2>1, <2>2
<1> HIDE DEF u, m
<1>3. ASSUME NEW i \in 0..(m - 1)
      PROVE  p + i \in 0..(n - 1) /\ u[i + 1] = text[p + i + 1]
  <2>1. i + 1 \in 1..m /\ p + (i + 1) = p + i + 1 /\ p + i \in 0..(n - 1)
    BY <1>1
  <2> QED
    BY <1>2, <2>1
<1>4. \A i \in Openers(u) : p + i \in Openers(text)
  BY <1>2, <1>3 DEF Openers
<1>5. \A i \in Closers(u) : p + i \in Closers(text)
  BY <1>2, <1>3 DEF Closers
<1> QED
  BY <1>4, <1>5 DEF u

(* A step with a view at a + is Expand, at a - it is Collapse.             *)
LEMMA TreeSteps ==
  ASSUME Next, NEW op \in {"+", "-"}, Arrived(op, "some")
  PROVE  \/ op = "+" /\ Expand
         \/ op = "-" /\ Collapse
<1> DEFINE Elsewhere == reg.kind # "some" \/ stack = <<>> \/ Top.wait # "up" \/ Cmd.op \notin {"+", "-"}
<1>1. ~ Elsewhere /\ Cmd.op = op
  BY DEF Arrived
<1>2. /\ PollSource \/ PollThrough \/ PollBinder => Elsewhere
      /\ PollFlatMap \/ PollReduce \/ PollAwk => Elsewhere
  BY DEF PollSource, PollThrough, PollBinder, PollFlatMap, PollReduce, PollAwk, Polled, Poll
<1>3. PassEnd \/ FlatMapEnd \/ NextEnd \/ AwkEnd => Elsewhere
  BY DEF PassEnd, FlatMapEnd, NextEnd, AwkEnd, Arrived
<1>4. Split \/ MapView \/ Filter \/ Substitute \/ Change \/ PrintView => Elsewhere
  BY DEF Split, MapView, Filter, Substitute, Change, PrintView, Arrived
<1>5. NextFirst \/ NextSecond \/ GroupView \/ BinderView \/ TestView \/ AwkView => Elsewhere
  BY DEF NextFirst, NextSecond, GroupView, BinderView, TestView, AwkView, Arrived
<1>6. CollectView \/ CollectEnd \/ BlockView \/ BlockEnd \/ DrivePoll \/ DriveEnd => Elsewhere
  BY DEF CollectView, CollectEnd, Collecting, BlockView, BlockEnd, FromBlock, DrivePoll, DriveEnd
<1>7. Expand => Elsewhere \/ Cmd.op = "+"
  BY DEF Expand, Arrived
<1>8. Collapse => Elsewhere \/ Cmd.op = "-"
  BY DEF Collapse, Arrived
<1> HIDE DEF Elsewhere
<1>9. Expand \/ Collapse
  BY <1>1, <1>2, <1>3, <1>4, <1>5, <1>6, Zenon DEF Next
<1> QED
  BY <1>1, <1>7, <1>8, <1>9

(* The part of TreeMoves about +, and that about -.                        *)
PlusMoves ==
  LET v == reg.view  w == reg'.view
      regions == {r \in Regions(doc) : r.start < v.at /\ EndOf(v) < r.end}
  IN  Balanced(v.text) =>
        IF regions = {} THEN w = v
        ELSE /\ [start |-> w.at, end |-> EndOf(w)] \in regions
             /\ \A r \in regions : r.start <= w.at /\ EndOf(w) <= r.end

MinusMoves ==
  LET v == reg.view  w == reg'.view
      back == Expanded(doc, w.at, EndOf(w))
  IN  EndOf(v) <= Len(doc) /\ Balanced(v.text) =>
        /\ Balanced(w.text)
        /\ back.start >= v.at /\ back.end <= EndOf(v)
        /\ \A r \in Regions(v.text) : back.start <= v.at + r.start

(* A slice, with its address and its end.                                  *)
LEMMA SliceIs ==
  ASSUME NEW d \in Texts, NEW v \in GoodViews(d), NEW s \in SpansIn(Len(v.text))
  PROVE  /\ Slice(v, s).at = v.at + s.start
         /\ Slice(v, s).text = SubSeq(v.text, s.start + 1, s.end)
         /\ EndOf(Slice(v, s)) = v.at + s.end
<1>1. /\ Slice(v, s).at = v.at + s.start
      /\ Slice(v, s).text = SubSeq(v.text, s.start + 1, s.end)
  BY DEF Slice, View
<1>2. Len(SubSeq(v.text, s.start + 1, s.end)) = s.end - s.start
  BY ViewIs, SliceBytes
<1>3. v.at \in Nat /\ s.start \in Nat /\ s.end \in Nat
  BY ViewIs DEF SpansIn
<1>4. EndOf(Slice(v, s)) = v.at + s.start + (s.end - s.start)
  BY <1>1, <1>2 DEF EndOf
<1> QED
  BY <1>1, <1>3, <1>4

LEMMA ExpandTree ==
  ASSUME IInv, Arrived("+", "some"), Expand, pc' = "run"
  PROVE  PlusMoves
<1> DEFINE v == reg.view
           s == v.at
           e == EndOf(v)
           whole == View(0, doc)
           x == Expanded(doc, s, e)
           w == Slice(whole, x)
<1>1. stack # <<>> /\ v \in GoodViews(doc)
  BY ArrivedIs
<1>2. doc \in Texts /\ Len(doc) < Foreign /\ Len(doc) \in Nat
  BY <1>1, Running
<1>3. ~ v.at > Len(doc) /\ reg' = Some(w)
  <2>1. IF v.at > Len(doc) THEN pc' = "panicked" ELSE Reply(Some(w))
    BY DEF Expand
  <2> HIDE DEF v, w
  <2> QED
    BY <2>1 DEF Reply
<1>4. reg'.view = w
  BY <1>3 DEF Some
<1>5. s \in Nat /\ e \in Nat /\ s <= e /\ e = s + Len(v.text) /\ v.text \in Texts /\ v \in Views
  BY <1>1, <1>2, ViewIs
<1>6. e <= Len(doc) /\ s < Foreign /\ s \in 0..Len(doc) /\ e \in 0..Len(doc)
  BY <1>1, <1>2, <1>3, <1>5, ViewIs, PipelineAssumption
<1>7. v.text = SubSeq(doc, s + 1, e)
  <2>1. v.at >= Foreign \/ v.text = SubSeq(doc, s + 1, e)
    BY <1>1 DEF GoodViews
  <2>2. Foreign \in Nat
    BY PipelineAssumption
  <2> HIDE DEF e
  <2> QED
    BY <1>5, <1>6, <2>1, <2>2
<1>8. whole \in GoodViews(doc) /\ whole.text = doc /\ whole.at = 0
  BY <1>2, WholeGood DEF View
<1>9. x \in SpansIn(Len(doc))
  BY <1>2, <1>5, <1>6, ExpandedSpan
<1>10. w.at = x.start /\ EndOf(w) = x.end /\ w.text = SubSeq(doc, x.start + 1, x.end)
  <2>1. /\ w.at = 0 + x.start /\ EndOf(w) = 0 + x.end
        /\ w.text = SubSeq(doc, x.start + 1, x.end)
    <3> HIDE DEF whole, x
    <3> QED
      BY <1>2, <1>8, <1>9, SliceIs
  <2>2. x.start \in Nat /\ x.end \in Nat
    BY <1>9 DEF SpansIn
  <2> QED
    BY <2>1, <2>2
<1>11. w \in Views
  <2> HIDE DEF whole, x
  <2>1. w \in GoodViews(doc)
    BY <1>2, <1>8, <1>9, SliceGood
  <2> QED
    BY <2>1 DEF GoodViews
<1> HIDE DEF s, e, x, w
<1>12. ASSUME Balanced(v.text)
       PROVE  IF Around(doc, s, e) = {} THEN w = v
              ELSE /\ [start |-> w.at, end |-> EndOf(w)] \in Around(doc, s, e)
                   /\ \A r \in Around(doc, s, e) : r.start <= w.at /\ EndOf(w) <= r.end
  <2>1. Matched(Heights(doc), s, e)
    BY <1>2, <1>5, <1>6, <1>7, <1>12, BalancedPart
  <2>2. IF Around(doc, s, e) = {} THEN x = [start |-> s, end |-> e]
        ELSE /\ x \in Around(doc, s, e)
             /\ \A r \in Around(doc, s, e) : r.start <= x.start /\ x.end <= r.end
    BY <1>2, <1>5, <1>6, <2>1, ExpandMoves DEF x
  <2>3. CASE Around(doc, s, e) = {}
    <3>1. x.start = s /\ x.end = e
      BY <2>2, <2>3
    <3>2. w.at = v.at /\ w.text = v.text
      BY <1>7, <1>10, <3>1 DEF s
    <3>3. w = v
      BY <1>5, <1>11, <3>2 DEF Views
    <3> QED
      BY <2>3, <3>3
  <2>4. CASE Around(doc, s, e) # {}
    <3>1. [start |-> w.at, end |-> EndOf(w)] = x
      BY <1>9, <1>10 DEF SpansIn
    <3> QED
      BY <1>10, <2>2, <2>4, <3>1
  <2> QED
    BY <2>3, <2>4
<1>13. Around(doc, s, e) = {r \in Regions(doc) : r.start < v.at /\ EndOf(v) < r.end}
  BY DEF Around, s, e
<1> HIDE DEF v
<1> QED
  BY <1>4, <1>12, <1>13 DEF PlusMoves, v

LEMMA CollapseTree ==
  ASSUME IInv, Arrived("-", "some"), Collapse, reg'.kind = "some"
  PROVE  MinusMoves
<1> DEFINE v == reg.view
           inner == Collapsed(v.text)
           x == inner[1]
           w == Slice(v, x)
           n == Len(v.text)
           at == v.at
<1>1. stack # <<>> /\ v \in GoodViews(doc)
  BY ArrivedIs
<1>2. doc \in Texts /\ Len(doc) < Foreign /\ Len(doc) \in Nat
  BY <1>1, Running
<1>3. inner # <<>> /\ reg' = Some(w)
  <2>1. IF inner = <<>> THEN Again ELSE Reply(Some(w))
    BY DEF Collapse
  <2>2. ~ Again
    <3>1. Poll.kind = "poll"
      BY DEF Poll
    <3> QED
      BY <3>1 DEF Again
  <2> HIDE DEF inner, w
  <2> QED
    BY <2>1, <2>2 DEF Reply
<1>4. reg'.view = w
  BY <1>3 DEF Some
<1>5. at \in Nat /\ n \in Nat /\ EndOf(v) = at + n /\ v.text \in Texts
  BY <1>1, <1>2, ViewIs
<1>6. x \in SpansIn(n)
  BY <1>3, <1>5, CollapsedSpan
<1>7. w.at = at + x.start /\ w.text = SubSeq(v.text, x.start + 1, x.end) /\ EndOf(w) = at + x.end
  <2> HIDE DEF x, v
  <2> QED
    BY <1>1, <1>2, <1>6, SliceIs
<1> HIDE DEF x, w, n, at, inner
<1>8. ASSUME EndOf(v) <= Len(doc), Balanced(v.text)
      PROVE  /\ Balanced(w.text)
             /\ Expanded(doc, w.at, EndOf(w)).start >= at
             /\ Expanded(doc, w.at, EndOf(w)).end <= EndOf(v)
             /\ \A r \in Regions(v.text) : Expanded(doc, w.at, EndOf(w)).start <= at + r.start
  <2>1. PICK a \in Openers(v.text), b \in Closers(v.text) :
          /\ x = [start |-> a + 1, end |-> b] /\ a < b
          /\ Matched(Heights(v.text), a + 1, b)
          /\ \A i \in Openers(v.text) : a <= i
    BY <1>3, <1>5, <1>8, CollapseMoves DEF x, inner
  <2>2. /\ a \in Nat /\ b \in Nat /\ a + 1 \in 0..n /\ b \in 0..n /\ b + 1 \in 0..n
        /\ \A i \in Openers(v.text) : i \in Nat
    BY <1>5, AtBrackets DEF n
  <2>3. x.start = a + 1 /\ x.end = b
    BY <2>1
  <2>4. Balanced(w.text)
    <3> DEFINE p == a + 1
    <3>1. p \in 0..Len(v.text) /\ b \in 0..Len(v.text) /\ p <= b /\ Matched(Heights(v.text), p, b)
      BY <2>1, <2>2 DEF n
    <3>2. w.text = SubSeq(v.text, p + 1, b)
      BY <1>7, <2>3
    <3> HIDE DEF p
    <3>3. Balanced(SubSeq(v.text, p + 1, b))
      BY <1>5, <3>1, BalancedPart
    <3> QED
      BY <3>2, <3>3
  <2>5. v.text = SubSeq(doc, at + 1, at + n)
    <3>1. v.at >= Foreign \/ v.text = SubSeq(doc, v.at + 1, EndOf(v))
      BY <1>1 DEF GoodViews
    <3>2. Foreign \in Nat
      BY PipelineAssumption
    <3>3. ~ v.at >= Foreign
      BY <1>2, <1>5, <1>8, <3>2 DEF at
    <3> QED
      BY <1>5, <3>1, <3>3 DEF at
  <2>6. at \in 0..Len(doc) /\ at + n \in 0..Len(doc) /\ at <= at + n
    BY <1>2, <1>5, <1>8
  <2>7. at + a \in Openers(doc) /\ at + b \in Closers(doc)
    <3> DEFINE q == at + n
    <3> HIDE DEF q
    <3>1. q \in 0..Len(doc) /\ at <= q /\ v.text = SubSeq(doc, at + 1, q)
      BY <2>5, <2>6 DEF q
    <3>2. /\ \A i \in Openers(SubSeq(doc, at + 1, q)) : at + i \in Openers(doc)
          /\ \A i \in Closers(SubSeq(doc, at + 1, q)) : at + i \in Closers(doc)
      BY <1>2, <2>6, <3>1, PartBrackets
    <3> QED
      BY <3>1, <3>2
  <2> DEFINE c == at + a
             d == at + b
  <2>8. c < d /\ c \in Nat /\ d \in Nat /\ at <= c /\ d + 1 <= at + n
    BY <1>5, <2>1, <2>2
  <2>9. Expanded(doc, w.at, EndOf(w)) = [start |-> c, end |-> d + 1]
    <3>1. w.at = c + 1 /\ EndOf(w) = d
      BY <1>5, <1>7, <2>2, <2>3
    <3> HIDE DEF c, d
    <3>2. Expanded(doc, c + 1, d) = [start |-> c, end |-> d + 1]
      BY <1>2, <2>7, <2>8, ExpandOut DEF c, d
    <3> QED
      BY <3>1, <3>2
  <2>10. ASSUME NEW r \in Regions(v.text) PROVE c <= at + r.start
    <3>1. PICK i \in Openers(v.text), j \in Closers(v.text) : r = [start |-> i, end |-> j + 1]
      BY <1>5, RegionsAre
    <3>2. r.start = i /\ a <= i /\ i \in Nat
      BY <2>1, <2>2, <3>1
    <3> QED
      BY <1>5, <2>2, <3>2
  <2> HIDE DEF c, d
  <2> QED
    BY <1>5, <2>4, <2>8, <2>9, <2>10
<1> HIDE DEF v
<1> QED
  BY <1>4, <1>8 DEF MinusMoves, v, at

(* tree.rs:6-11, for every program, every input and every nesting of       *)
(* brackets: from a view whose brackets match, + moves to the smallest     *)
(* bracketed region around it, or stays where it is if there is none; and  *)
(* - moves inside the first region of the view, from where + leads back.   *)
THEOREM TreeMovesHolds == Spec => TreeMoves
<1> DEFINE Moves ==
      pc' = "run" /\ reg'.kind = "some" =>
        /\ Arrived("+", "some") => PlusMoves
        /\ Arrived("-", "some") => MinusMoves
<1>1. IInv /\ Next => Moves
  <2> SUFFICES ASSUME IInv, Next, pc' = "run", reg'.kind = "some"
               PROVE  /\ Arrived("+", "some") => PlusMoves
                      /\ Arrived("-", "some") => MinusMoves
    OBVIOUS
  <2>1. ASSUME Arrived("+", "some") PROVE PlusMoves
    BY <2>1, TreeSteps, ExpandTree
  <2>2. ASSUME Arrived("-", "some") PROVE MinusMoves
    BY <2>2, TreeSteps, CollapseTree
  <2> QED
    BY <2>1, <2>2
<1>2. Moves => TreeMove
  BY Zenon DEF PlusMoves, MinusMoves, TreeMove
<1> HIDE DEF Moves
<1> QED
  BY <1>1, <1>2, InvHolds, PTL DEF Spec, TreeMoves
=============================================================================
