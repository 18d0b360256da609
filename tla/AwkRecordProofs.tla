-------------------------- MODULE AwkRecordProofs ---------------------------
(***************************************************************************)
(* The record and its fields agree, splitting finds what it should and     *)
(* undoes joining, for every set of strings and separators and any number  *)
(* of records and fields.                                                  *)
(*                                                                         *)
(* Words, Pieces and Join are recursive functions.  For each of them one   *)
(* lemma says that the recursion has a solution (module Recursion), so     *)
(* that what it is equal to can be used one step at a time; the facts      *)
(* about them follow by rank, from the end of the string backwards.        *)
(***************************************************************************)
EXTENDS AwkRecord, Recursion, SequenceTheorems

Strings == Seq(Symbols)
Lists   == Seq(Strings)

-----------------------------------------------------------------------------
(* Sets of numbers, and parts of sequences.                                *)

(* The minimum of a nonempty set of natural numbers is its least element.  *)
LEMMA MinOf ==
  ASSUME NEW S, S \subseteq Nat, S # {}
  PROVE  Min(S) \in S /\ \A x \in S : Min(S) <= x
<1>1. PICK m \in S : \A x \in S : x >= m
  BY Least
<1>2. \E t \in S : \A x \in S : t <= x
  BY <1>1
<1> QED
  BY <1>2, Zenon DEF Min

(* The maximum of two natural numbers is the larger.                       *)
LEMMA MaxOfTwo ==
  ASSUME NEW a \in Int, NEW b \in Int
  PROVE  /\ Max({a, b}) \in {a, b}
         /\ Max({a, b}) >= a /\ Max({a, b}) >= b
<1>1. \E m \in {a, b} : \A x \in {a, b} : m >= x
  BY DEF Max
<1>2. Max({a, b}) \in {a, b} /\ \A x \in {a, b} : Max({a, b}) >= x
  BY <1>1, Zenon DEF Max
<1> QED
  BY <1>2

(* A part of a sequence: its length and its elements.                      *)
LEMMA PartOf ==
  ASSUME NEW S, NEW s \in Seq(S), NEW a \in 1..(Len(s) + 1), NEW b \in (a - 1)..Len(s)
  PROVE  /\ SubSeq(s, a, b) \in Seq(S)
         /\ Len(SubSeq(s, a, b)) = b + 1 - a
         /\ \A i \in 1..(b + 1 - a) : SubSeq(s, a, b)[i] = s[a + i - 1]
<1>1. a \in Int /\ b \in Int /\ Len(s) \in Nat /\ \A i \in a..b : s[i] \in S
  OBVIOUS
<1>2. /\ SubSeq(s, a, b) \in Seq(S)
      /\ Len(SubSeq(s, a, b)) = IF a <= b THEN b - a + 1 ELSE 0
      /\ \A i \in 1..(b - a + 1) : SubSeq(s, a, b)[i] = s[a + i - 1]
  BY <1>1, SubSeqProperties
<1>3. b - a + 1 = b + 1 - a /\ (~ a <= b => b + 1 - a = 0)
  BY <1>1
<1> QED
  BY <1>2, <1>3

(* A sequence of one element before another.                               *)
LEMMA Prefixed ==
  ASSUME NEW S, NEW x \in S, NEW t \in Seq(S)
  PROVE  /\ <<x>> \in Seq(S) /\ Len(<<x>>) = 1 /\ <<x>>[1] = x
         /\ <<x>> \o t \in Seq(S)
         /\ Len(<<x>> \o t) = Len(t) + 1
         /\ (<<x>> \o t)[1] = x
         /\ \A k \in 1..Len(t) : (<<x>> \o t)[k + 1] = t[k]
<1>1. <<x>> \in Seq(S) /\ Len(<<x>>) = 1 /\ <<x>>[1] = x
  OBVIOUS
<1>2. /\ <<x>> \o t \in Seq(S)
      /\ Len(<<x>> \o t) = 1 + Len(t)
      /\ \A i \in 1..(1 + Len(t)) : (<<x>> \o t)[i] = IF i <= 1 THEN x ELSE t[i - 1]
  BY <1>1, ConcatProperties
<1>3. Len(t) \in Nat
  OBVIOUS
<1>4. (<<x>> \o t)[1] = x
  BY <1>2, <1>3
<1>5. ASSUME NEW k \in 1..Len(t) PROVE (<<x>> \o t)[k + 1] = t[k]
  <2>1. k + 1 \in 1..(1 + Len(t)) /\ ~ k + 1 <= 1 /\ k + 1 - 1 = k
    BY <1>3
  <2> QED
    BY <1>2, <2>1
<1> QED
  BY <1>1, <1>2, <1>3, <1>4, <1>5

-----------------------------------------------------------------------------
(* Recursions that list what they find from a place on.                    *)

(* At p the list ends with pre[p], or goes on from next[p] after it.       *)
ListAt(f, p, ends, pre, next) ==
  IF p \in ends THEN pre[p]
  ELSE IF pre[p] = <<>> THEN f[next[p]]
  ELSE pre[p] \o f[next[p]]

IsList(f, n, ends, pre, next) == f = [p \in 1..n |-> ListAt(f, p, ends, pre, next)]
Holds(S, f, n, ends, pre, next) ==
  \A p \in 1..n : f[p] \in Seq(S) /\ f[p] = ListAt(f, p, ends, pre, next)
GoesOn(n, ends, next) == \A p \in 1..n : p \notin ends => next[p] \in (p + 1)..n

(* Such a step gives a sequence if the rest is one.                        *)
LEMMA ListAtType ==
  ASSUME NEW S, NEW n \in Nat, NEW ends, NEW pre \in [1..n -> Seq(S)], NEW next,
         NEW f, NEW p \in 1..n, p \notin ends => f[next[p]] \in Seq(S)
  PROVE  ListAt(f, p, ends, pre, next) \in Seq(S)
<1>1. CASE p \in ends
  BY <1>1 DEF ListAt
<1>2. CASE p \notin ends
  <2>1. f[next[p]] \in Seq(S) /\ pre[p] \in Seq(S)
    BY <1>2
  <2>2. pre[p] \o f[next[p]] \in Seq(S)
    BY <2>1, ConcatProperties
  <2> QED
    BY <1>2, <2>1, <2>2 DEF ListAt
<1> QED
  BY <1>1, <1>2

(* There is a list that is continued from a later place.                   *)
LEMMA Listing ==
  ASSUME NEW S, NEW n \in Nat, NEW ends, NEW pre \in [1..n -> Seq(S)], NEW next,
         GoesOn(n, ends, next)
  PROVE  \E f : IsList(f, n, ends, pre, next)
<1> DEFINE D == 1..n
           V == Seq(S)
           rank == [p \in D |-> n - p]
           G == [p \in D |-> [f \in [D -> V] |-> ListAt(f, p, ends, pre, next)]]
<1>1. rank \in [D -> 0..n] /\ \A p, q \in D : rank[q] < rank[p] <=> q > p
  OBVIOUS
<1>2. V # {}
  BY EmptySeq
<1>3. ASSUME NEW p \in D, p \notin ends PROVE next[p] \in D /\ next[p] > p
  BY <1>3 DEF GoesOn
<1>4. ASSUME NEW p \in D, NEW f \in [D -> V] PROVE ListAt(f, p, ends, pre, next) \in V
  <2>1. p \notin ends => f[next[p]] \in Seq(S)
    BY <1>3
  <2> QED
    BY <2>1, ListAtType
<1>5. G \in [D -> [[D -> V] -> V]]
  BY <1>4
<1>6. ASSUME NEW p \in D, NEW f \in [D -> V], NEW g \in [D -> V],
             \A q \in D : rank[q] < rank[p] => f[q] = g[q]
      PROVE  G[p][f] = G[p][g]
  <2>1. p \notin ends => f[next[p]] = g[next[p]]
    BY <1>1, <1>3, <1>6
  <2>2. ListAt(f, p, ends, pre, next) = ListAt(g, p, ends, pre, next)
    BY <2>1 DEF ListAt
  <2> QED
    BY <2>2
<1>7. ReadsLower(D, V, rank, G)
  BY <1>6 DEF ReadsLower
<1> HIDE DEF rank
<1>8. PICK f \in [D -> V] : Solves(f, D, G)
  <2> HIDE DEF D, V, G
  <2> QED
    BY <1>1, <1>2, <1>5, <1>7, Solution
<1>9. \A p \in D : f[p] = ListAt(f, p, ends, pre, next)
  BY <1>8 DEF Solves
<1> QED
  BY <1>9 DEF IsList

(* All that it holds is a sequence.                                        *)
LEMMA Listed ==
  ASSUME NEW S, NEW n \in Nat, NEW ends, NEW pre \in [1..n -> Seq(S)], NEW next,
         GoesOn(n, ends, next),
         NEW f, IsList(f, n, ends, pre, next)
  PROVE  Holds(S, f, n, ends, pre, next)
<1> DEFINE D == 1..n
           rank == [p \in D |-> n - p]
           Good == {p \in D : f[p] \in Seq(S)}
<1>1. rank \in [D -> Nat] /\ \A p, q \in D : rank[q] < rank[p] <=> q > p
  OBVIOUS
<1>2. \A p \in D : f[p] = ListAt(f, p, ends, pre, next)
  BY DEF IsList
<1>3. ASSUME NEW p \in D, \A q \in D : rank[q] < rank[p] => q \in Good PROVE p \in Good
  <2>1. p \notin ends => next[p] \in D /\ next[p] > p
    BY DEF GoesOn
  <2>2. p \notin ends => f[next[p]] \in Seq(S)
    BY <1>1, <1>3, <2>1
  <2>3. ListAt(f, p, ends, pre, next) \in Seq(S)
    BY <2>2, ListAtType
  <2> QED
    BY <1>2, <2>3
<1> HIDE DEF D, rank, Good
<1>4. \A p \in D : p \in Good
  BY <1>1, <1>3, ByRank
<1> QED
  BY <1>2, <1>4 DEF D, Good, Holds

-----------------------------------------------------------------------------
(* Words and Pieces, one step at a time.                                   *)

(* Past the run at p.                                                      *)
RunEnd(s, p) == Min({q \in p..(Len(s) + 1) : q > Len(s) \/ s[q] \in Space})

WordsAt(s, f, p) ==
  IF p > Len(s) THEN <<>>
  ELSE IF s[p] \in Space THEN f[p + 1]
  ELSE <<SubSeq(s, p, RunEnd(s, p) - 1)>> \o f[RunEnd(s, p)]

(* The run at p ends after p, at white space or at the end of the string,  *)
(* and has none in it.                                                     *)
LEMMA RunEndRange ==
  ASSUME NEW s \in Strings, NEW p \in 1..Len(s), s[p] \notin Space
  PROVE  /\ RunEnd(s, p) \in (p + 1)..(Len(s) + 1)
         /\ RunEnd(s, p) = Len(s) + 1 \/ s[RunEnd(s, p)] \in Space
         /\ \A q \in p..(RunEnd(s, p) - 1) : s[q] \notin Space
<1> DEFINE n == Len(s)
           E == {q \in p..(n + 1) : q > n \/ s[q] \in Space}
<1>1. n \in Nat /\ p \in Nat
  BY DEF Strings
<1>2. E \subseteq Nat /\ n + 1 \in E /\ p \notin E
  BY <1>1
<1>3. Min(E) \in E /\ \A x \in E : Min(E) <= x
  <2> HIDE DEF E
  <2>1. E \subseteq Nat /\ E # {}
    BY <1>2
  <2> QED
    BY <2>1, MinOf
<1>4. RunEnd(s, p) = Min(E)
  BY DEF RunEnd
<1> DEFINE e == RunEnd(s, p)
<1>5. e \in E /\ \A x \in E : e <= x
  BY <1>3, <1>4
<1> HIDE DEF e
<1>6. e \in (p + 1)..(n + 1)
  BY <1>1, <1>2, <1>5
<1>7. e = n + 1 \/ s[e] \in Space
  BY <1>1, <1>5
<1>8. ASSUME NEW q \in p..(e - 1) PROVE s[q] \notin Space
  <2>1. q \in p..(n + 1) /\ ~ e <= q
    BY <1>1, <1>6
  <2> QED
    BY <1>5, <2>1
<1> QED
  BY <1>6, <1>7, <1>8 DEF e

(* Words has a solution, and what it gives is a list of strings.           *)
LEMMA WordsFound ==
  ASSUME NEW s \in Strings
  PROVE  \E from : /\ Words(s) = from[1]
                   /\ \A p \in 1..(Len(s) + 1) :
                        from[p] \in Lists /\ from[p] = WordsAt(s, from, p)
<1> DEFINE n == Len(s) + 1
           ends == {n}
           pre == [p \in 1..n |-> IF p = n \/ s[p] \in Space THEN <<>>
                                  ELSE <<SubSeq(s, p, RunEnd(s, p) - 1)>>]
           next == [p \in 1..n |-> IF s[p] \in Space THEN p + 1 ELSE RunEnd(s, p)]
           Body(f) == [p \in 1..n |-> WordsAt(s, f, p)]
           from == CHOOSE f : f = Body(f)
<1>1. n \in Nat /\ Len(s) \in Nat /\ 1 \in 1..n
  BY DEF Strings
<1>2. ASSUME NEW p \in 1..n, p # n, s[p] \notin Space
      PROVE  RunEnd(s, p) \in (p + 1)..n /\ SubSeq(s, p, RunEnd(s, p) - 1) \in Strings
  <2>1. p \in 1..Len(s)
    BY <1>1, <1>2
  <2>2. RunEnd(s, p) \in (p + 1)..(Len(s) + 1)
    BY <1>2, <2>1, RunEndRange
  <2>3. RunEnd(s, p) - 1 \in (p - 1)..Len(s) /\ p \in 1..(Len(s) + 1)
    BY <1>1, <2>1, <2>2
  <2>4. SubSeq(s, p, RunEnd(s, p) - 1) \in Strings
    BY <2>3, PartOf DEF Strings
  <2> QED
    BY <2>2, <2>4
<1>3. pre \in [1..n -> Lists]
  <2>1. ASSUME NEW p \in 1..n PROVE pre[p] \in Lists
    <3>1. CASE p = n \/ s[p] \in Space
      BY <3>1, EmptySeq DEF Lists
    <3>2. CASE p # n /\ s[p] \notin Space
      <4>1. SubSeq(s, p, RunEnd(s, p) - 1) \in Strings
        BY <1>2, <3>2
      <4>2. <<SubSeq(s, p, RunEnd(s, p) - 1)>> \in Lists
        BY <4>1, Prefixed, EmptySeq DEF Lists
      <4> QED
        BY <3>2, <4>2
    <3> QED
      BY <3>1, <3>2
  <2> QED
    BY <2>1
<1>4. GoesOn(n, ends, next)
  <2>1. ASSUME NEW p \in 1..n, p \notin ends PROVE next[p] \in (p + 1)..n
    <3>1. CASE s[p] \in Space
      BY <1>1, <2>1, <3>1
    <3>2. CASE s[p] \notin Space
      BY <1>2, <2>1, <3>2
    <3> QED
      BY <3>1, <3>2
  <2> QED
    BY <2>1 DEF GoesOn
<1>5. ASSUME NEW f, NEW p \in 1..n PROVE WordsAt(s, f, p) = ListAt(f, p, ends, pre, next)
  <2>1. CASE p = n
    BY <1>1, <2>1 DEF WordsAt, ListAt
  <2>2. CASE p # n /\ s[p] \in Space
    <3>1. ~ p > Len(s)
      BY <1>1, <2>2
    <3> QED
      BY <2>2, <3>1 DEF WordsAt, ListAt
  <2>3. CASE p # n /\ s[p] \notin Space
    <3>1. ~ p > Len(s)
      BY <1>1, <2>3
    <3>2. <<SubSeq(s, p, RunEnd(s, p) - 1)>> # <<>>
      OBVIOUS
    <3>3. pre[p] = <<SubSeq(s, p, RunEnd(s, p) - 1)>> /\ next[p] = RunEnd(s, p) /\ p \notin ends
      BY <2>3
    <3> HIDE DEF pre, next, ends
    <3> QED
      BY <2>3, <3>1, <3>2, <3>3 DEF WordsAt, ListAt
  <2> QED
    BY <2>1, <2>2, <2>3
<1>6. \A f : f = Body(f) <=> IsList(f, n, ends, pre, next)
  BY <1>5 DEF IsList
<1>7. Words(s) = from[1]
  BY Zenon DEF Words, WordsAt, RunEnd
<1> HIDE DEF pre, next, ends, n, Body
<1>8. \E f : f = Body(f)
  <2>1. \E f : IsList(f, n, ends, pre, next)
    BY <1>1, <1>3, <1>4, Listing DEF Lists
  <2> QED
    BY <1>6, <2>1
<1>9. from = Body(from)
  BY <1>8, Zenon
<1> HIDE DEF from
<1>10. \A p \in 1..n : from[p] \in Lists /\ from[p] = ListAt(from, p, ends, pre, next)
  <2>1. IsList(from, n, ends, pre, next)
    BY <1>6, <1>9
  <2>2. pre \in [1..n -> Seq(Strings)]
    BY <1>3 DEF Lists
  <2>3. Holds(Strings, from, n, ends, pre, next)
    BY <1>1, <1>4, <2>1, <2>2, Listed
  <2> QED
    BY <2>3 DEF Lists, Holds
<1>11. \A p \in 1..n : from[p] \in Lists /\ from[p] = WordsAt(s, from, p)
  BY <1>5, <1>10
<1> QED
  BY <1>7, <1>11 DEF n

(* The separators from p on.                                               *)
SepsFrom(s, sep, p) == {q \in p..(Len(s) - Len(sep) + 1) : StandsAt(sep, s, q)}

PiecesAt(s, sep, f, p) ==
  IF SepsFrom(s, sep, p) = {} THEN <<SubSeq(s, p, Len(s))>>
  ELSE <<SubSeq(s, p, Min(SepsFrom(s, sep, p)) - 1)>> \o f[Min(SepsFrom(s, sep, p)) + Len(sep)]

(* The first separator from p on is one, and none comes before it.         *)
LEMMA FirstSep ==
  ASSUME NEW s \in Strings, NEW sep \in Strings, NEW p \in 1..(Len(s) + 1),
         SepsFrom(s, sep, p) # {}
  PROVE  /\ Min(SepsFrom(s, sep, p)) \in p..(Len(s) - Len(sep) + 1)
         /\ StandsAt(sep, s, Min(SepsFrom(s, sep, p)))
         /\ \A q \in SepsFrom(s, sep, p) : Min(SepsFrom(s, sep, p)) <= q
<1>1. Len(s) \in Nat /\ Len(sep) \in Nat
  BY DEF Strings
<1>2. SepsFrom(s, sep, p) \subseteq Nat
  BY <1>1 DEF SepsFrom
<1>3. /\ Min(SepsFrom(s, sep, p)) \in SepsFrom(s, sep, p)
      /\ \A q \in SepsFrom(s, sep, p) : Min(SepsFrom(s, sep, p)) <= q
  BY <1>2, MinOf
<1> QED
  BY <1>3 DEF SepsFrom

(* Pieces has a solution, and what it gives is a list of strings.          *)
LEMMA PiecesFound ==
  ASSUME NEW s \in Strings, NEW sep \in Strings, sep # <<>>
  PROVE  \E from : /\ Pieces(s, sep) = from[1]
                   /\ \A p \in 1..(Len(s) + 1) :
                        from[p] \in Lists /\ from[p] = PiecesAt(s, sep, from, p)
<1> DEFINE n == Len(s) + 1
           first(p) == Min(SepsFrom(s, sep, p))
           ends == {p \in 1..n : SepsFrom(s, sep, p) = {}}
           pre == [p \in 1..n |-> IF p \in ends THEN <<SubSeq(s, p, Len(s))>>
                                  ELSE <<SubSeq(s, p, first(p) - 1)>>]
           next == [p \in 1..n |-> first(p) + Len(sep)]
           Body(f) == [p \in 1..n |-> PiecesAt(s, sep, f, p)]
           from == CHOOSE f : f = Body(f)
<1>1. n \in Nat /\ Len(s) \in Nat /\ 1 \in 1..n /\ Len(sep) \in Nat \ {0}
  BY EmptySeq DEF Strings
<1>2. ASSUME NEW p \in 1..n, p \notin ends
      PROVE  next[p] \in (p + 1)..n /\ SubSeq(s, p, first(p) - 1) \in Strings
  <2>1. first(p) \in p..(Len(s) - Len(sep) + 1)
    BY <1>2, FirstSep
  <2>2. first(p) - 1 \in (p - 1)..Len(s) /\ p \in 1..(Len(s) + 1)
    BY <1>1, <2>1
  <2>3. next[p] \in (p + 1)..n
    BY <1>1, <2>1
  <2>4. SubSeq(s, p, first(p) - 1) \in Strings
    BY <2>2, PartOf DEF Strings
  <2> QED
    BY <2>3, <2>4
<1>3. pre \in [1..n -> Lists]
  <2>1. ASSUME NEW p \in 1..n PROVE pre[p] \in Lists
    <3>0. \A x \in Strings : <<x>> \in Lists
      BY Prefixed, EmptySeq DEF Lists
    <3>1. CASE p \in ends
      <4>1. Len(s) \in (p - 1)..Len(s) /\ p \in 1..(Len(s) + 1)
        BY <1>1
      <4>2. SubSeq(s, p, Len(s)) \in Strings
        BY <4>1, PartOf DEF Strings
      <4> QED
        BY <3>0, <3>1, <4>2
    <3>2. CASE p \notin ends
      <4>1. SubSeq(s, p, first(p) - 1) \in Strings
        BY <1>2, <3>2
      <4> QED
        BY <3>0, <3>2, <4>1
    <3> QED
      BY <3>1, <3>2
  <2> QED
    BY <2>1
<1>4. GoesOn(n, ends, next)
  BY <1>2 DEF GoesOn
<1>5. ASSUME NEW f, NEW p \in 1..n PROVE PiecesAt(s, sep, f, p) = ListAt(f, p, ends, pre, next)
  <2>1. CASE p \in ends
    BY <2>1 DEF PiecesAt, ListAt
  <2>2. CASE p \notin ends
    <3>1. <<SubSeq(s, p, first(p) - 1)>> # <<>>
      OBVIOUS
    <3>2. pre[p] = <<SubSeq(s, p, first(p) - 1)>> /\ next[p] = first(p) + Len(sep)
      BY <2>2
    <3>3. SepsFrom(s, sep, p) # {}
      BY <2>2
    <3> HIDE DEF pre, next, ends
    <3> QED
      BY <2>2, <3>1, <3>2, <3>3 DEF PiecesAt, ListAt
  <2> QED
    BY <2>1, <2>2
<1>6. \A f : f = Body(f) <=> IsList(f, n, ends, pre, next)
  BY <1>5 DEF IsList
<1>7. Pieces(s, sep) = from[1]
  BY Zenon DEF Pieces, PiecesAt, SepsFrom
<1> HIDE DEF pre, next, ends, n, Body
<1>8. \E f : f = Body(f)
  <2>1. \E f : IsList(f, n, ends, pre, next)
    BY <1>1, <1>3, <1>4, Listing DEF Lists
  <2> QED
    BY <1>6, <2>1
<1>9. from = Body(from)
  BY <1>8, Zenon
<1> HIDE DEF from
<1>10. \A p \in 1..n : from[p] \in Lists /\ from[p] = ListAt(from, p, ends, pre, next)
  <2>1. IsList(from, n, ends, pre, next)
    BY <1>6, <1>9
  <2>2. pre \in [1..n -> Seq(Strings)]
    BY <1>3 DEF Lists
  <2>3. Holds(Strings, from, n, ends, pre, next)
    BY <1>1, <1>4, <2>1, <2>2, Listed
  <2> QED
    BY <2>3 DEF Lists, Holds
<1>11. \A p \in 1..n : from[p] \in Lists /\ from[p] = PiecesAt(s, sep, from, p)
  BY <1>5, <1>10
<1> QED
  BY <1>7, <1>11 DEF n

-----------------------------------------------------------------------------
(* Join, one part at a time.                                               *)

JoinAt(upTo, n, parts, sep) ==
  IF n = 0 THEN <<>>
  ELSE IF n = 1 THEN parts[1]
  ELSE upTo[n - 1] \o sep \o parts[n]
Joins(upTo, parts, sep) ==
  \A n \in 0..Len(parts) : upTo[n] \in Strings /\ upTo[n] = JoinAt(upTo, n, parts, sep)

(* Join has a solution, and what it gives is a string.                     *)
LEMMA JoinFound ==
  ASSUME NEW parts \in Lists, NEW sep \in Strings
  PROVE  \E upTo : Join(parts, sep) = upTo[Len(parts)] /\ Joins(upTo, parts, sep)
<1> DEFINE n == Len(parts)
           Body(f) == [k \in 0..n |-> JoinAt(f, k, parts, sep)]
           upTo == CHOOSE f : f = Body(f)
           G == [k \in (0 + 1)..n |->
                   [u \in Strings |-> IF k = 1 THEN parts[1] ELSE u \o sep \o parts[k]]]
<1>1. n \in Nat /\ \A k \in 1..n : parts[k] \in Strings
  BY DEF Lists
<1>2. \A u, v \in Strings : u \o v \in Strings
  BY ConcatProperties DEF Strings
<1>3. G \in [(0 + 1)..n -> [Strings -> Strings]]
  BY <1>1, <1>2
<1>4. <<>> \in Strings
  BY EmptySeq DEF Strings
<1>5. PICK f \in [0..n -> Strings] : Climbs(f, <<>>, 0, n, G)
  <2>1. 0 \in Nat
    OBVIOUS
  <2> HIDE DEF n, G
  <2> QED
    BY <1>1, <1>3, <1>4, <2>1, Climb, Zenon
<1>6. ASSUME NEW k \in 0..n PROVE f[k] = JoinAt(f, k, parts, sep)
  <2>1. CASE k = 0
    BY <1>5, <2>1 DEF Climbs, JoinAt
  <2>2. CASE k # 0
    <3>1. k \in (0 + 1)..n /\ k - 1 \in 0..n
      BY <1>1, <2>2
    <3>2. f[k] = G[k][f[k - 1]]
      BY <1>5, <2>2 DEF Climbs
    <3>3. f[k - 1] \in Strings
      BY <3>1
    <3>4. G[k][f[k - 1]] = IF k = 1 THEN parts[1] ELSE f[k - 1] \o sep \o parts[k]
      BY <3>1, <3>3
    <3> QED
      BY <2>2, <3>2, <3>4 DEF JoinAt
  <2> QED
    BY <2>1, <2>2
<1>7. f = Body(f)
  BY <1>6
<1>8. upTo = Body(upTo)
  BY <1>7, Zenon
<1>9. Join(parts, sep) = upTo[n]
  BY Zenon DEF Join, JoinAt
<1> HIDE DEF upTo
<1>10. \A k \in 0..n : upTo[k] = JoinAt(upTo, k, parts, sep)
  BY <1>8
<1> DEFINE Good == {k \in 0..n : upTo[k] \in Strings}
<1>11. 0 \in Good
  BY <1>1, <1>4, <1>10 DEF JoinAt
<1>12. ASSUME NEW k \in (0 + 1)..n, k - 1 \in Good PROVE k \in Good
  <2>1. k \in 0..n /\ k # 0 /\ k \in 1..n
    BY <1>1
  <2>2. upTo[k] = IF k = 1 THEN parts[1] ELSE upTo[k - 1] \o sep \o parts[k]
    BY <1>10, <2>1 DEF JoinAt
  <2>3. upTo[k - 1] \in Strings /\ parts[k] \in Strings
    BY <1>1, <1>12, <2>1
  <2>4. upTo[k - 1] \o sep \o parts[k] \in Strings
    BY <1>2, <2>3
  <2>5. k = 1 => parts[1] \in Strings
    BY <2>3
  <2> QED
    BY <2>1, <2>2, <2>4, <2>5
<1>13. \A k \in 0..n : k \in Good
  <2>1. 0 \in Nat
    OBVIOUS
  <2> HIDE DEF Good, n
  <2> QED
    BY <1>1, <1>11, <1>12, <2>1, UpTo
<1> QED
  BY <1>9, <1>10, <1>13 DEF Joins

(* Strings join to a string.                                               *)
LEMMA JoinType ==
  ASSUME NEW parts \in Lists, NEW sep \in Strings
  PROVE  Join(parts, sep) \in Strings
<1>1. PICK upTo : Join(parts, sep) = upTo[Len(parts)] /\ Joins(upTo, parts, sep)
  BY JoinFound
<1>2. Len(parts) \in 0..Len(parts)
  BY DEF Lists
<1> QED
  BY <1>1, <1>2 DEF Joins

(* Nothing joins to the empty string, and one part to itself.              *)
LEMMA JoinFew ==
  ASSUME NEW sep \in Strings
  PROVE  /\ Join(<<>>, sep) = <<>>
         /\ \A x \in Strings : Join(<<x>>, sep) = x
<1>1. Join(<<>>, sep) = <<>>
  <2>1. <<>> \in Lists /\ Len(<<>>) = 0
    BY EmptySeq DEF Lists
  <2>2. PICK upTo : Join(<<>>, sep) = upTo[Len(<<>>)] /\ Joins(upTo, <<>>, sep)
    BY <2>1, JoinFound
  <2> QED
    BY <2>1, <2>2 DEF Joins, JoinAt
<1>2. ASSUME NEW x \in Strings PROVE Join(<<x>>, sep) = x
  <2>1. <<x>> \in Lists /\ Len(<<x>>) = 1 /\ <<x>>[1] = x
    BY EmptySeq, Prefixed DEF Lists
  <2>2. PICK upTo : Join(<<x>>, sep) = upTo[Len(<<x>>)] /\ Joins(upTo, <<x>>, sep)
    BY <2>1, JoinFound
  <2>3. 1 \in 0..Len(<<x>>)
    BY <2>1
  <2>4. upTo[1] = JoinAt(upTo, 1, <<x>>, sep)
    BY <2>2, <2>3 DEF Joins
  <2>5. JoinAt(upTo, 1, <<x>>, sep) = <<x>>[1]
    BY DEF JoinAt
  <2> QED
    BY <2>1, <2>2, <2>4, <2>5
<1> QED
  BY <1>1, <1>2

(* The first part, the separator and the rest joined.                      *)
LEMMA JoinFirst ==
  ASSUME NEW sep \in Strings, NEW x \in Strings, NEW rest \in Lists, rest # <<>>
  PROVE  Join(<<x>> \o rest, sep) = (x \o sep) \o Join(rest, sep)
<1> DEFINE parts == <<x>> \o rest
           n == Len(rest)
<1>1. /\ parts \in Lists /\ Len(parts) = n + 1 /\ parts[1] = x
      /\ \A k \in 1..n : parts[k + 1] = rest[k]
      /\ n \in Nat \ {0}
      /\ \A k \in 1..n : rest[k] \in Strings
  BY Prefixed, EmptySeq DEF Lists
<1> HIDE DEF parts
<1>2. PICK u : Join(parts, sep) = u[n + 1] /\ Joins(u, parts, sep)
  <2>1. \E u : Join(parts, sep) = u[Len(parts)] /\ Joins(u, parts, sep)
    BY <1>1, JoinFound
  <2> QED
    BY <1>1, <2>1
<1>3. PICK v : Join(rest, sep) = v[n] /\ Joins(v, rest, sep)
  BY JoinFound
<1>4. \A k \in 0..(n + 1) : u[k] = JoinAt(u, k, parts, sep)
  BY <1>1, <1>2 DEF Joins
<1>5. \A k \in 0..n : v[k] \in Strings /\ v[k] = JoinAt(v, k, rest, sep)
  BY <1>3 DEF Joins
<1> HIDE DEF n
<1> DEFINE Good == {k \in 1..n : u[k + 1] = (x \o sep) \o v[k]}
<1>6. 1 \in Good
  <2>1. 1 \in 1..n /\ 1 + 1 \in 0..(n + 1) /\ 1 \in 0..n /\ 1 \in 0..(n + 1)
    BY <1>1
  <2>2. u[1] = parts[1]
    BY <1>4, <2>1 DEF JoinAt
  <2>3. u[1 + 1] = u[1] \o sep \o parts[1 + 1]
    <3>1. u[1 + 1] = JoinAt(u, 1 + 1, parts, sep)
      BY <1>4, <2>1
    <3>2. 1 + 1 # 0 /\ 1 + 1 # 1 /\ 1 + 1 - 1 = 1
      OBVIOUS
    <3> QED
      BY <3>1, <3>2 DEF JoinAt
  <2>4. v[1] = rest[1]
    BY <1>5, <2>1 DEF JoinAt
  <2> QED
    BY <1>1, <2>1, <2>2, <2>3, <2>4
<1>7. ASSUME NEW k \in (1 + 1)..n, k - 1 \in Good PROVE k \in Good
  <2>1. /\ k \in 1..n /\ k \in 0..n /\ k - 1 \in 0..n
        /\ k + 1 \in 0..(n + 1) /\ k + 1 # 0 /\ k + 1 # 1
        /\ k # 0 /\ k # 1 /\ k + 1 - 1 = k
    BY <1>1
  <2>2. u[k + 1] = u[k] \o sep \o parts[k + 1]
    <3>1. u[k + 1] = JoinAt(u, k + 1, parts, sep)
      BY <1>4, <2>1
    <3> DEFINE m == k + 1
    <3>2. m # 0 /\ m # 1 /\ m - 1 = k /\ u[m] = JoinAt(u, m, parts, sep)
      BY <2>1, <3>1
    <3> HIDE DEF m
    <3>3. u[m] = u[k] \o sep \o parts[m]
      BY <3>2, Zenon DEF JoinAt
    <3> QED
      BY <3>3 DEF m
  <2>3. v[k] = v[k - 1] \o sep \o rest[k]
    <3>1. v[k] = JoinAt(v, k, rest, sep)
      BY <1>5, <2>1
    <3> QED
      BY <2>1, <3>1 DEF JoinAt
  <2>4. u[k] = (x \o sep) \o v[k - 1]
    <3>1. u[k - 1 + 1] = (x \o sep) \o v[k - 1]
      BY <1>7
    <3>2. k - 1 + 1 = k
      BY <1>1
    <3> QED
      BY <3>1, <3>2
  <2>5. parts[k + 1] = rest[k] /\ rest[k] \in Strings /\ v[k - 1] \in Strings
    BY <1>1, <1>5, <2>1
  <2> DEFINE a == x \o sep
             b == v[k - 1]
             c == rest[k]
  <2>6. a \in Seq(Symbols) /\ b \in Seq(Symbols) /\ sep \in Seq(Symbols) /\ c \in Seq(Symbols)
    BY <2>5, ConcatProperties DEF Strings
  <2>7. ((a \o b) \o sep) \o c = a \o ((b \o sep) \o c)
    <3> HIDE DEF a, b, c
    <3>1. a \o b \in Seq(Symbols) /\ b \o sep \in Seq(Symbols) /\ sep \o c \in Seq(Symbols)
      BY <2>6, ConcatProperties
    <3>2. (a \o b) \o sep = a \o (b \o sep)
      BY <2>6, ConcatAssociative
    <3>3. (a \o (b \o sep)) \o c = a \o ((b \o sep) \o c)
      <4> DEFINE d == b \o sep
      <4>1. d \in Seq(Symbols)
        BY <3>1
      <4> HIDE DEF d
      <4>2. (a \o d) \o c = a \o (d \o c)
        BY <2>6, <4>1, ConcatAssociative
      <4> QED
        BY <4>2 DEF d
    <3> QED
      BY <3>2, <3>3
  <2>8. u[k + 1] = a \o v[k]
    BY <2>2, <2>3, <2>4, <2>5, <2>7
  <2> QED
    BY <2>1, <2>8
<1>8. \A k \in 1..n : k \in Good
  <2>1. n \in Nat /\ 1 \in Nat
    BY <1>1
  <2> HIDE DEF Good
  <2> QED
    BY <1>6, <1>7, <2>1, UpTo
<1>9. u[n + 1] = (x \o sep) \o v[n]
  <2>1. n \in 1..n
    BY <1>1
  <2>2. n \in Good
    BY <1>8, <2>1
  <2> QED
    BY <2>2
<1> QED
  BY <1>2, <1>3, <1>9 DEF parts

-----------------------------------------------------------------------------
(* What a split finds.                                                     *)

(* Two parts of a string that meet.                                        *)
LEMMA Adjacent ==
  ASSUME NEW s \in Strings, NEW a \in 1..(Len(s) + 1), NEW m \in a..(Len(s) + 1),
         NEW b \in (m - 1)..Len(s)
  PROVE  SubSeq(s, a, m - 1) \o SubSeq(s, m, b) = SubSeq(s, a, b)
<1> DEFINE k == m - 1
<1>1. Len(s) \in Nat /\ s \in Seq(Symbols)
  BY DEF Strings
<1>2. k \in (a - 1)..Len(s) /\ b \in k..Len(s) /\ k + 1 = m
  BY <1>1
<1> HIDE DEF k
<1>3. SubSeq(s, a, k) \o SubSeq(s, k + 1, b) = SubSeq(s, a, b)
  BY <1>1, <1>2, ConcatAdjacentSubSeq
<1> QED
  BY <1>2, <1>3 DEF k

(* A part of a string in which no separator stands does not contain one.   *)
LEMMA PartWithout ==
  ASSUME NEW s \in Strings, NEW sep \in Strings, sep # <<>>,
         NEW a \in 1..(Len(s) + 1), NEW b \in (a - 1)..Len(s),
         \A q \in a..(b - Len(sep) + 1) : ~ StandsAt(sep, s, q)
  PROVE  Without(sep, SubSeq(s, a, b))
<1> DEFINE part == SubSeq(s, a, b)
           l == Len(sep)
<1>1. Len(s) \in Nat /\ l \in Nat \ {0} /\ s \in Seq(Symbols)
  BY EmptySeq DEF Strings
<1>2. Len(part) = b + 1 - a /\ part \in Seq(Symbols)
  BY <1>1, PartOf
<1>3. ASSUME NEW p \in 1..(Len(part) - l + 1), StandsAt(sep, part, p) PROVE FALSE
  <2> DEFINE z == p + l - 1
  <2>1. a \in 1..Len(s) /\ b \in 1..Len(s) /\ p \in 1..(b - a + 1) /\ z \in 1..(b - a + 1)
    BY <1>1, <1>2
  <2>2. SubSeq(part, p, z) = SubSeq(s, a + p - 1, a + z - 1)
    <3> HIDE DEF z
    <3> QED
      BY <1>1, <1>2, <2>1, SubSeqOfSubSeq
  <2>3. a + z - 1 = (a + p - 1) + l - 1 /\ a + p - 1 \in a..(b - l + 1)
    BY <1>1, <1>2
  <2>4. SubSeq(part, p, z) = sep
    BY <1>3 DEF StandsAt
  <2>5. StandsAt(sep, s, a + p - 1)
    BY <2>2, <2>3, <2>4 DEF StandsAt
  <2> QED
    BY <2>3, <2>5
<1> QED
  BY <1>3 DEF Without

ArePieces(list, s, sep, p) ==
  /\ list \in Lists /\ list # <<>>
  /\ Join(list, sep) = SubSeq(s, p, Len(s))
  /\ \A k \in 1..Len(list) : Without(sep, list[k])

(* One more piece, up to the separator at m.                               *)
LEMMA OneMorePiece ==
  ASSUME NEW s \in Strings, NEW sep \in Strings, sep # <<>>,
         NEW p \in 1..(Len(s) + 1), NEW m \in p..(Len(s) - Len(sep) + 1),
         StandsAt(sep, s, m), Without(sep, SubSeq(s, p, m - 1)),
         NEW rest, ArePieces(rest, s, sep, m + Len(sep))
  PROVE  ArePieces(<<SubSeq(s, p, m - 1)>> \o rest, s, sep, p)
<1> DEFINE x == SubSeq(s, p, m - 1)
           l == Len(sep)
           n == Len(s)
           list == <<x>> \o rest
<1>1. n \in Nat /\ l \in Nat \ {0} /\ s \in Seq(Symbols)
  BY EmptySeq DEF Strings
<1>2. /\ m \in p..(n + 1) /\ m - 1 \in (p - 1)..n /\ m + l - 1 \in (m - 1)..n
      /\ m + l \in p..(n + 1) /\ n \in (m + l - 1)..n /\ m + l - 1 = (m + l) - 1
  BY <1>1
<1>3. x \in Strings
  BY <1>1, <1>2, PartOf DEF Strings
<1>4. /\ rest \in Lists /\ rest # <<>> /\ Join(rest, sep) = SubSeq(s, m + l, n)
      /\ \A k \in 1..Len(rest) : Without(sep, rest[k])
  BY DEF ArePieces
<1>5. SubSeq(s, m, m + l - 1) = sep
  BY DEF StandsAt
<1>6. x \o sep = SubSeq(s, p, m + l - 1)
  BY <1>2, <1>5, Adjacent
<1>7. SubSeq(s, p, m + l - 1) \o SubSeq(s, m + l, n) = SubSeq(s, p, n)
  <2> DEFINE e == m + l
  <2>1. e \in p..(n + 1) /\ n \in (e - 1)..n
    BY <1>2
  <2> HIDE DEF e
  <2>2. SubSeq(s, p, e - 1) \o SubSeq(s, e, n) = SubSeq(s, p, n)
    BY <2>1, Adjacent
  <2> QED
    BY <1>2, <2>2 DEF e
<1>8. /\ list \in Lists /\ Len(list) = Len(rest) + 1 /\ list[1] = x
      /\ \A k \in 1..Len(rest) : list[k + 1] = rest[k]
      /\ Len(rest) \in Nat
  BY <1>3, <1>4, Prefixed DEF Lists
<1> HIDE DEF x
<1>9. Join(list, sep) = SubSeq(s, p, n)
  BY <1>3, <1>4, <1>6, <1>7, JoinFirst
<1> HIDE DEF list
<1>10. list # <<>>
  BY <1>8, EmptySeq
<1>11. ASSUME NEW k \in 1..Len(list) PROVE Without(sep, list[k])
  <2>1. CASE k = 1
    BY <1>8, <2>1 DEF x
  <2>2. CASE k # 1
    <3>1. k - 1 \in 1..Len(rest) /\ (k - 1) + 1 = k
      BY <1>8, <2>2
    <3>2. list[(k - 1) + 1] = rest[k - 1]
      BY <1>8, <3>1
    <3> QED
      BY <1>4, <3>1, <3>2
  <2> QED
    BY <2>1, <2>2
<1>12. ArePieces(list, s, sep, p)
  BY <1>8, <1>9, <1>10, <1>11 DEF ArePieces
<1> QED
  BY <1>12 DEF list, x

(* The rest of a string is its last piece if no separator stands in it.    *)
LEMMA LastPiece ==
  ASSUME NEW s \in Strings, NEW sep \in Strings, sep # <<>>, NEW p \in 1..(Len(s) + 1),
         \A q \in p..(Len(s) - Len(sep) + 1) : ~ StandsAt(sep, s, q)
  PROVE  ArePieces(<<SubSeq(s, p, Len(s))>>, s, sep, p)
<1> DEFINE x == SubSeq(s, p, Len(s))
<1>1. Len(s) \in (p - 1)..Len(s)
  BY DEF Strings
<1>2. x \in Strings
  BY <1>1, PartOf DEF Strings
<1>3. Without(sep, x)
  BY <1>1, PartWithout
<1> HIDE DEF x
<1>4. <<x>> \in Lists /\ Len(<<x>>) = 1 /\ <<x>>[1] = x /\ <<x>> # <<>>
  BY <1>2, EmptySeq, Prefixed DEF Lists
<1>5. Join(<<x>>, sep) = x
  BY <1>2, JoinFew
<1>6. \A k \in 1..Len(<<x>>) : Without(sep, <<x>>[k])
  BY <1>3, <1>4
<1> QED
  BY <1>4, <1>5, <1>6 DEF ArePieces, x

(* Splitting at a separator gives pieces that it joins to the string, and  *)
(* that do not contain it.                                                 *)
LEMMA PiecesAreExact ==
  ASSUME NEW s \in Strings, NEW sep \in Strings, sep # <<>>
  PROVE  ArePieces(Pieces(s, sep), s, sep, 1)
<1> DEFINE D == 1..(Len(s) + 1)
           rank == [p \in D |-> Len(s) + 1 - p]
<1>1. PICK from : /\ Pieces(s, sep) = from[1]
                  /\ \A p \in D : from[p] = PiecesAt(s, sep, from, p)
  BY PiecesFound
<1> DEFINE Good == {p \in D : ArePieces(from[p], s, sep, p)}
<1>2. Len(s) \in Nat /\ Len(sep) \in Nat \ {0} /\ 1 \in D
  BY EmptySeq DEF Strings
<1>3. rank \in [D -> Nat] /\ \A p, q \in D : rank[q] < rank[p] <=> q > p
  BY <1>2
<1>4. ASSUME NEW p \in D, \A q \in D : rank[q] < rank[p] => q \in Good PROVE p \in Good
  <2> DEFINE m == Min(SepsFrom(s, sep, p))
  <2>1. CASE SepsFrom(s, sep, p) = {}
    <3>1. \A q \in p..(Len(s) - Len(sep) + 1) : ~ StandsAt(sep, s, q)
      BY <2>1 DEF SepsFrom
    <3>2. ArePieces(<<SubSeq(s, p, Len(s))>>, s, sep, p)
      BY <3>1, LastPiece
    <3>3. from[p] = <<SubSeq(s, p, Len(s))>>
      BY <1>1, <2>1 DEF PiecesAt
    <3> QED
      BY <3>2, <3>3
  <2>2. CASE SepsFrom(s, sep, p) # {}
    <3>1. /\ m \in p..(Len(s) - Len(sep) + 1) /\ StandsAt(sep, s, m)
          /\ \A q \in SepsFrom(s, sep, p) : m <= q
      BY <2>2, FirstSep
    <3>2. from[p] = <<SubSeq(s, p, m - 1)>> \o from[m + Len(sep)]
      BY <1>1, <2>2 DEF PiecesAt
    <3> HIDE DEF m
    <3>3. ASSUME NEW q \in p..((m - 1) - Len(sep) + 1), StandsAt(sep, s, q) PROVE FALSE
      <4>1. q \in p..(Len(s) - Len(sep) + 1) /\ ~ m <= q
        BY <1>2, <3>1
      <4> QED
        BY <3>1, <3>3, <4>1 DEF SepsFrom
    <3>4. Without(sep, SubSeq(s, p, m - 1))
      <4> DEFINE b == m - 1
      <4>1. b \in (p - 1)..Len(s)
        BY <1>2, <3>1
      <4>2. \A q \in p..(b - Len(sep) + 1) : ~ StandsAt(sep, s, q)
        BY <3>3
      <4> HIDE DEF b
      <4>3. Without(sep, SubSeq(s, p, b))
        BY <4>1, <4>2, PartWithout
      <4> QED
        BY <4>3 DEF b
    <3>5. m + Len(sep) \in D /\ m + Len(sep) > p
      BY <1>2, <3>1
    <3>6. ArePieces(from[m + Len(sep)], s, sep, m + Len(sep))
      BY <1>3, <1>4, <3>5
    <3>7. ArePieces(<<SubSeq(s, p, m - 1)>> \o from[m + Len(sep)], s, sep, p)
      BY <3>1, <3>4, <3>6, OneMorePiece
    <3> QED
      BY <3>2, <3>7
  <2> QED
    BY <2>1, <2>2
<1> HIDE DEF D, rank, Good
<1>5. \A p \in D : p \in Good
  BY <1>3, <1>4, ByRank
<1> QED
  BY <1>1, <1>2, <1>5 DEF Good

(* One symbol each, which joined with nothing give the string.             *)
LEMMA CharactersAreExact ==
  ASSUME NEW s \in Strings
  PROVE  /\ Characters(s) \in Lists
         /\ Join(Characters(s), <<>>) = s
         /\ \A k \in DOMAIN Characters(s) : Len(Characters(s)[k]) = 1
<1> DEFINE list == Characters(s)
           n == Len(s)
<1>1. n \in Nat /\ s \in Seq(Symbols) /\ <<>> \in Strings
  BY EmptySeq DEF Strings
<1>2. /\ \A k \in 1..n : s[k] \in Symbols /\ <<s[k]>> \in Strings /\ Len(<<s[k]>>) = 1
      /\ DOMAIN s = 1..n
  BY <1>1, Prefixed, EmptySeq DEF Strings
<1>3. list = [k \in 1..n |-> <<s[k]>>]
  BY <1>2 DEF Characters
<1>4. list \in [1..n -> Strings]
  BY <1>2, <1>3
<1>5. list \in Lists /\ Len(list) = n /\ DOMAIN list = 1..n
  BY <1>1, <1>4 DEF Lists
<1>6. \A k \in 1..n : list[k] = <<s[k]>>
  BY <1>3
<1> HIDE DEF list, n
<1>7. PICK u : Join(list, <<>>) = u[Len(list)] /\ Joins(u, list, <<>>)
  BY <1>1, <1>5, JoinFound
<1>8. \A k \in 0..n : u[k] = JoinAt(u, k, list, <<>>)
  BY <1>5, <1>7 DEF Joins
<1> DEFINE Good == {k \in 0..n : u[k] = SubSeq(s, 1, k)}
<1>9. 0 \in Good
  <2>1. u[0] = <<>>
    BY <1>1, <1>8 DEF JoinAt
  <2>2. SubSeq(s, 1, 0) = <<>>
    BY SubSeqEmpty
  <2>3. 0 \in 0..n
    BY <1>1
  <2> QED
    BY <2>1, <2>2, <2>3, Zenon
<1>10. ASSUME NEW k \in (0 + 1)..n, k - 1 \in Good PROVE k \in Good
  <2>1. k \in 1..n /\ k \in 0..n /\ k # 0 /\ 1 \in 1..n /\ n = Len(s)
    BY <1>1 DEF n
  <2>2. SubSeq(s, 1, k) = SubSeq(s, 1, k - 1) \o <<s[k]>>
    BY <1>1, <2>1, SubSeqRecursiveSecond
  <2>3. u[k - 1] = SubSeq(s, 1, k - 1)
    BY <1>10
  <2>4. CASE k = 1
    <3>1. u[1] = <<s[1]>>
      BY <1>6, <1>8, <2>1, <2>4 DEF JoinAt
    <3>2. SubSeq(s, 1, 1 - 1) = <<>>
      BY SubSeqEmpty
    <3>3. <<>> \o <<s[1]>> = <<s[1]>>
      BY <1>2, <2>1, ConcatEmptySeq DEF Strings
    <3> QED
      BY <2>1, <2>2, <2>4, <3>1, <3>2, <3>3
  <2>5. CASE k # 1
    <3>1. u[k] = u[k - 1] \o <<>> \o list[k]
      BY <1>8, <2>1, <2>5 DEF JoinAt
    <3>2. u[k - 1] \in Strings
      BY <1>5, <1>7, <2>1 DEF Joins
    <3>3. u[k - 1] \o <<>> = u[k - 1]
      BY <3>2, ConcatEmptySeq DEF Strings
    <3> QED
      BY <1>6, <2>1, <2>2, <2>3, <3>1, <3>3
  <2> QED
    BY <2>4, <2>5
<1>11. \A k \in 0..n : k \in Good
  <2>1. 0 \in Nat
    OBVIOUS
  <2> HIDE DEF Good
  <2> QED
    BY <1>1, <1>9, <1>10, <2>1, UpTo
<1>12. u[n] = SubSeq(s, 1, n)
  BY <1>1, <1>11
<1>13. SubSeq(s, 1, n) = s
  BY <1>1, SubSeqFull DEF n
<1>14. \A k \in DOMAIN list : Len(list[k]) = 1
  BY <1>2, <1>5, <1>6
<1> QED
  BY <1>5, <1>7, <1>12, <1>13, <1>14 DEF list

(* White space at p starts no run and ends none that starts later.         *)
LEMMA RunsPastSpace ==
  ASSUME NEW s \in Strings, NEW p \in 1..Len(s), s[p] \in Space
  PROVE  RunsFrom(s, p) = RunsFrom(s, p + 1)
<1>1. Len(s) \in Nat
  BY DEF Strings
<1>2. ASSUME NEW q PROVE q \in RunsFrom(s, p) <=> q \in RunsFrom(s, p + 1)
  <2>1. CASE q \in p..Len(s)
    <3>1. CASE q = p
      BY <1>1, <3>1 DEF RunsFrom
    <3>2. CASE q = p + 1
      <4>1. q - 1 = p /\ q # p
        BY <1>1, <3>2
      <4>2. q \in (p + 1)..Len(s)
        BY <1>1, <2>1, <3>2
      <4> QED
        BY <2>1, <3>2, <4>1, <4>2 DEF RunsFrom
    <3>3. CASE q # p /\ q # p + 1
      <4>1. q \in (p + 1)..Len(s)
        BY <1>1, <2>1, <3>3
      <4> QED
        BY <2>1, <3>3, <4>1 DEF RunsFrom
    <3> QED
      BY <3>1, <3>2, <3>3
  <2>2. CASE q \notin p..Len(s)
    <3>1. q \notin (p + 1)..Len(s)
      BY <1>1, <2>2
    <3> QED
      BY <2>2, <3>1 DEF RunsFrom
  <2> QED
    BY <2>1, <2>2
<1> QED
  BY <1>2

(* The run at p is the first; the others are those past its end.           *)
LEMMA RunsPastRun ==
  ASSUME NEW s \in Strings, NEW p \in 1..Len(s), s[p] \notin Space
  PROVE  RunsFrom(s, p) = {p} \cup RunsFrom(s, RunEnd(s, p))
<1> DEFINE e == RunEnd(s, p)
           n == Len(s)
<1>1. n \in Nat
  BY DEF Strings
<1>2. /\ e \in (p + 1)..(n + 1)
      /\ e = n + 1 \/ s[e] \in Space
      /\ \A q \in p..(e - 1) : s[q] \notin Space
  BY RunEndRange
<1> HIDE DEF e
<1>3. ASSUME NEW q PROVE q \in RunsFrom(s, p) <=> q \in {p} \cup RunsFrom(s, e)
  <2>1. CASE q = p
    BY <1>1, <2>1 DEF RunsFrom
  <2>2. CASE q # p /\ q \in p..n
    <3>1. CASE q < e
      <4>1. q - 1 \in p..(e - 1) /\ q \notin e..n
        BY <1>1, <1>2, <2>2, <3>1
      <4>2. s[q - 1] \notin Space
        BY <1>2, <4>1
      <4> QED
        BY <2>2, <4>1, <4>2 DEF RunsFrom
    <3>2. CASE q = e
      <4>1. s[q] \in Space
        BY <1>1, <1>2, <2>2, <3>2
      <4> QED
        BY <2>2, <4>1 DEF RunsFrom
    <3>3. CASE q > e
      <4>1. q \in e..n /\ q # e
        BY <1>1, <1>2, <2>2, <3>3
      <4> QED
        BY <2>2, <4>1 DEF RunsFrom
    <3> QED
      BY <1>1, <1>2, <2>2, <3>1, <3>2, <3>3
  <2>3. CASE q \notin p..n
    <3>1. q # p /\ q \notin e..n
      BY <1>1, <1>2, <2>3
    <3> QED
      BY <2>3, <3>1 DEF RunsFrom
  <2> QED
    BY <2>1, <2>2, <2>3
<1>4. RunsFrom(s, p) = {p} \cup RunsFrom(s, e)
  BY <1>3
<1> QED
  BY <1>4 DEF e

(* The word that Words takes at p is the run at p.                         *)
LEMMA RunAt ==
  ASSUME NEW s \in Strings, NEW p \in 1..Len(s), s[p] \notin Space
  PROVE  /\ SubSeq(s, p, RunEnd(s, p) - 1) \in Strings
         /\ IsRun(SubSeq(s, p, RunEnd(s, p) - 1), s, p)
<1> DEFINE e == RunEnd(s, p)
           n == Len(s)
           b == e - 1
           w == SubSeq(s, p, b)
<1>1. n \in Nat /\ s \in Seq(Symbols)
  BY DEF Strings
<1>2. /\ e \in (p + 1)..(n + 1)
      /\ e = n + 1 \/ s[e] \in Space
      /\ \A q \in p..(e - 1) : s[q] \notin Space
  BY RunEndRange
<1> HIDE DEF e
<1>3. b \in (p - 1)..n /\ p \in 1..(n + 1) /\ b + 1 - p > 0 /\ p + (b + 1 - p) = e
  BY <1>1, <1>2
<1>4. w \in Strings /\ Len(w) = b + 1 - p
  <2> HIDE DEF b, n
  <2> QED
    BY <1>1, <1>3, PartOf DEF Strings, n
<1>5. p + Len(w) = e /\ Len(w) # 0
  BY <1>1, <1>2, <1>3, <1>4
<1>6. w # <<>>
  BY <1>5, EmptySeq
<1> HIDE DEF w
<1>7. IsRun(w, s, p)
  <2>1. e <= n + 1 /\ w = SubSeq(s, p, e - 1)
    BY <1>1, <1>2 DEF w, b
  <2> QED
    BY <1>2, <1>5, <1>6, <2>1 DEF IsRun
<1> QED
  BY <1>4, <1>7 DEF e, w

(* One more run before the others.                                         *)
LEMMA OneMoreRun ==
  ASSUME NEW s \in Strings, NEW p \in 1..Len(s), s[p] \notin Space,
         NEW rest \in Lists, AreTheRuns(rest, s, RunEnd(s, p))
  PROVE  AreTheRuns(<<SubSeq(s, p, RunEnd(s, p) - 1)>> \o rest, s, p)
<1> DEFINE w == SubSeq(s, p, RunEnd(s, p) - 1)
           e == RunEnd(s, p)
           list == <<w>> \o rest
           runs == RunsFrom(s, p)
           later == RunsFrom(s, e)
<1>1. w \in Strings /\ IsRun(w, s, p)
  BY RunAt
<1>2. /\ runs = {p} \cup later
      /\ \A q \in later : q \in Nat /\ q > p
  <2>1. Len(s) \in Nat /\ e \in (p + 1)..(Len(s) + 1)
    BY RunEndRange DEF Strings
  <2> HIDE DEF e
  <2>2. \A q \in later : q \in Nat /\ q > p
    BY <2>1 DEF RunsFrom
  <2> QED
    BY <2>2, RunsPastRun DEF e
<1> HIDE DEF w, e
<1>3. /\ list \in Lists /\ Len(list) = Len(rest) + 1 /\ list[1] = w
      /\ \A k \in 1..Len(rest) : list[k + 1] = rest[k]
  BY <1>1, Prefixed DEF Lists
<1>4. /\ Len(rest) \in Nat /\ DOMAIN rest = 1..Len(rest) /\ DOMAIN list = 1..(Len(rest) + 1)
  BY <1>3 DEF Lists
<1> HIDE DEF list
<1>5. PICK at \in [DOMAIN rest -> later] :
        /\ \A q \in later : \E k \in DOMAIN rest : at[k] = q
        /\ \A j, k \in DOMAIN rest : j < k => at[j] < at[k]
        /\ \A k \in DOMAIN rest : IsRun(rest[k], s, at[k])
  BY DEF AreTheRuns, e
<1> HIDE DEF runs, later
<1> DEFINE n == Len(rest)
           to == [k \in 1..(n + 1) |-> IF k = 1 THEN p ELSE at[k - 1]]
<1>6. to[1] = p /\ \A k \in 1..n : to[k + 1] = at[k]
  <2>1. 1 \in 1..(n + 1) /\ \A k \in 1..n : k + 1 \in 1..(n + 1) /\ k + 1 # 1 /\ k + 1 - 1 = k
    BY <1>4
  <2> QED
    BY <2>1
<1>7. \A k \in 1..(n + 1) : k = 1 \/ (k - 1 \in 1..n /\ k = (k - 1) + 1)
  BY <1>4
<1>8. \A k \in 1..n : at[k] \in later
  BY <1>4, <1>5
<1>9. ASSUME NEW k \in 1..(n + 1) PROVE to[k] \in runs /\ IsRun(list[k], s, to[k])
  <2>1. CASE k = 1
    BY <1>1, <1>2, <1>3, <1>6, <2>1
  <2>2. CASE k # 1
    <3> DEFINE i == k - 1
    <3>1. i \in 1..n /\ k = i + 1
      BY <1>7, <2>2
    <3> HIDE DEF i
    <3>2. to[k] = at[i] /\ list[k] = rest[i]
      BY <1>3, <1>6, <3>1
    <3>3. at[i] \in runs /\ IsRun(rest[i], s, at[i])
      BY <1>2, <1>4, <1>5, <1>8, <3>1
    <3> QED
      BY <3>2, <3>3
  <2> QED
    BY <2>1, <2>2
<1>10. ASSUME NEW q \in runs PROVE \E k \in 1..(n + 1) : to[k] = q
  <2>1. CASE q = p
    <3>1. 1 \in 1..(n + 1)
      BY <1>4
    <3> QED
      BY <1>6, <2>1, <3>1
  <2>2. CASE q \in later
    <3>1. PICK i \in 1..n : at[i] = q
      BY <1>4, <1>5, <2>2
    <3>2. i + 1 \in 1..(n + 1) /\ to[i + 1] = q
      BY <1>4, <1>6, <3>1
    <3> QED
      BY <3>2
  <2> QED
    BY <1>2, <2>1, <2>2
<1>11. ASSUME NEW j \in 1..(n + 1), NEW k \in 1..(n + 1), j < k PROVE to[j] < to[k]
  <2> DEFINE i == k - 1
             h == j - 1
  <2>1. i \in 1..n /\ k = i + 1
    BY <1>4, <1>11
  <2>2. to[k] = at[i] /\ at[i] \in later
    <3> HIDE DEF i, to
    <3> QED
      BY <1>6, <1>8, <2>1
  <2>3. CASE j = 1
    <3> HIDE DEF i, to
    <3>1. at[i] > p /\ at[i] \in Nat
      BY <1>2, <2>2
    <3> QED
      BY <1>6, <2>2, <2>3, <3>1
  <2>4. CASE j # 1
    <3>1. h \in 1..n /\ j = h + 1 /\ h < i
      BY <1>4, <1>11, <2>4
    <3> HIDE DEF h, i, to
    <3>2. to[j] = at[h]
      BY <1>6, <3>1
    <3>3. at[h] < at[i]
      BY <1>4, <1>5, <2>1, <3>1
    <3> QED
      BY <2>2, <3>2, <3>3
  <2> QED
    BY <2>3, <2>4
<1>12. to \in [DOMAIN list -> runs]
  BY <1>4, <1>9
<1> HIDE DEF to, n
<1>13. \E t \in [DOMAIN list -> runs] :
         /\ \A q \in runs : \E k \in DOMAIN list : t[k] = q
         /\ \A j, k \in DOMAIN list : j < k => t[j] < t[k]
         /\ \A k \in DOMAIN list : IsRun(list[k], s, t[k])
  BY <1>4, <1>9, <1>10, <1>11, <1>12 DEF n
<1> QED
  BY <1>13 DEF AreTheRuns, runs, list, w

(* Splitting at white space gives the runs of the other symbols.           *)
LEMMA WordsAreTheRuns ==
  ASSUME NEW s \in Strings
  PROVE  Words(s) \in Lists /\ AreTheRuns(Words(s), s, 1)
<1> DEFINE D == 1..(Len(s) + 1)
           rank == [p \in D |-> Len(s) + 1 - p]
<1>1. PICK from : /\ Words(s) = from[1]
                  /\ \A p \in D : from[p] \in Lists /\ from[p] = WordsAt(s, from, p)
  BY WordsFound
<1> DEFINE Good == {p \in D : AreTheRuns(from[p], s, p)}
<1>2. Len(s) \in Nat /\ 1 \in D
  BY DEF Strings
<1>3. rank \in [D -> Nat] /\ \A p, q \in D : rank[q] < rank[p] <=> q > p
  BY <1>2
<1>4. ASSUME NEW p \in D, \A q \in D : rank[q] < rank[p] => q \in Good PROVE p \in Good
  <2>1. CASE p = Len(s) + 1
    <3>1. from[p] = <<>>
      <4>1. p > Len(s)
        BY <1>2, <2>1
      <4>2. WordsAt(s, from, p) = <<>>
        BY <4>1 DEF WordsAt
      <4> QED
        BY <1>1, <4>2
    <3>2. RunsFrom(s, p) = {} /\ DOMAIN <<>> = {}
      BY <1>2, <2>1 DEF RunsFrom
    <3>3. AreTheRuns(<<>>, s, p)
      <4> DEFINE at == [k \in {} |-> 0]
      <4>1. at \in [{} -> {}]
        OBVIOUS
      <4> HIDE DEF at
      <4>2. \E t \in [DOMAIN <<>> -> RunsFrom(s, p)] : t = at
        BY <3>2, <4>1
      <4> QED
        BY <3>2, <4>2 DEF AreTheRuns
    <3> QED
      BY <3>1, <3>3
  <2>2. CASE p # Len(s) + 1 /\ s[p] \in Space
    <3>1. p \in 1..Len(s) /\ p + 1 \in D /\ p + 1 > p /\ ~ p > Len(s)
      BY <1>2, <2>2
    <3>2. from[p] = from[p + 1]
      BY <1>1, <2>2, <3>1 DEF WordsAt
    <3>3. AreTheRuns(from[p + 1], s, p + 1)
      BY <1>3, <1>4, <3>1
    <3>4. RunsFrom(s, p) = RunsFrom(s, p + 1)
      BY <2>2, <3>1, RunsPastSpace
    <3>5. AreTheRuns(from[p + 1], s, p)
      BY <3>3, <3>4 DEF AreTheRuns
    <3> QED
      BY <3>2, <3>5
  <2>3. CASE p # Len(s) + 1 /\ s[p] \notin Space
    <3> DEFINE e == RunEnd(s, p)
    <3>1. p \in 1..Len(s) /\ ~ p > Len(s)
      BY <1>2, <2>3
    <3>2. e \in D /\ e > p
      <4>1. e \in (p + 1)..(Len(s) + 1)
        BY <2>3, <3>1, RunEndRange
      <4> HIDE DEF e
      <4> QED
        BY <1>2, <4>1
    <3>3. from[p] = <<SubSeq(s, p, e - 1)>> \o from[e]
      BY <1>1, <2>3, <3>1 DEF WordsAt
    <3>4. AreTheRuns(from[e], s, e) /\ from[e] \in Lists
      <4> HIDE DEF e
      <4> QED
        BY <1>1, <1>3, <1>4, <3>2
    <3>5. AreTheRuns(<<SubSeq(s, p, e - 1)>> \o from[e], s, p)
      BY <2>3, <3>1, <3>4, OneMoreRun
    <3> QED
      BY <3>3, <3>5
  <2> QED
    BY <2>1, <2>2, <2>3
<1> HIDE DEF rank, Good
<1>5. \A p \in D : p \in Good
  <2> HIDE DEF D
  <2> QED
    BY <1>3, <1>4, ByRank
<1> QED
  BY <1>1, <1>2, <1>5 DEF Good

-----------------------------------------------------------------------------
(* A join with a separator of one symbol can be undone.                    *)

Free(c, s)     == \A p \in 1..Len(s) : s[p] # c
AllFree(c, list) == \A k \in 1..Len(list) : Free(c, list[k])

(* A list of strings begins with one.                                      *)
LEMMA FirstAndRest ==
  ASSUME NEW list \in Lists, list # <<>>
  PROVE  \E x \in Strings, rest \in Lists : list = <<x>> \o rest /\ Len(rest) = Len(list) - 1
<1> DEFINE n == Len(list)
           rest == SubSeq(list, 2, n)
<1>1. n \in Nat \ {0} /\ list \in Seq(Strings) /\ list[1] \in Strings
  BY EmptySeq DEF Lists
<1>2. 1 \in 1..n /\ n \in 1..n /\ 2 \in 1..(n + 1) /\ n \in (2 - 1)..n
  BY <1>1
<1>3. rest \in Seq(Strings) /\ Len(rest) = n + 1 - 2
  BY <1>1, <1>2, PartOf
<1>4. SubSeq(list, 1, n) = <<list[1]>> \o SubSeq(list, 1 + 1, n)
  BY <1>1, <1>2, SubSeqRecursiveFirst
<1>5. SubSeq(list, 1, n) = list
  BY <1>1, SubSeqFull
<1>6. 1 + 1 = 2 /\ n + 1 - 2 = n - 1
  BY <1>1
<1>7. list = <<list[1]>> \o rest
  BY <1>4, <1>5, <1>6
<1> HIDE DEF rest
<1>8. list[1] \in Strings /\ rest \in Lists /\ Len(rest) = Len(list) - 1
  BY <1>1, <1>3, <1>6 DEF Lists
<1> QED
  BY <1>7, <1>8

(* The string s begins with x and a separator c.                           *)
Begins(s, x, c) ==
  /\ Len(x) + 1 \in 1..Len(s) /\ s[Len(x) + 1] = c
  /\ \A p \in 1..Len(x) : s[p] = x[p]

(* A string before a separator of one symbol and anything else.            *)
LEMMA Separated ==
  ASSUME NEW x \in Strings, NEW sep \in Strings, Len(sep) = 1, NEW j \in Strings
  PROVE  (x \o sep) \o j \in Strings /\ Begins((x \o sep) \o j, x, sep[1])
<1> DEFINE n == Len(x)
           y == x \o sep
           z == y \o j
<1>1. n \in Nat /\ Len(j) \in Nat
  BY DEF Strings
<1>2. /\ y \in Strings /\ Len(y) = n + Len(sep)
      /\ \A i \in 1..(n + Len(sep)) : y[i] = IF i <= n THEN x[i] ELSE sep[i - n]
  BY ConcatProperties DEF Strings
<1> HIDE DEF y
<1>3. /\ z \in Strings /\ Len(z) = Len(y) + Len(j)
      /\ \A i \in 1..(Len(y) + Len(j)) : z[i] = IF i <= Len(y) THEN y[i] ELSE j[i - Len(y)]
  <2>1. y \in Seq(Symbols) /\ j \in Seq(Symbols)
    BY <1>2 DEF Strings
  <2>2. z \in Seq(Symbols)
    BY <2>1, ConcatProperties
  <2> QED
    BY <2>1, <2>2, ConcatProperties DEF Strings
<1> HIDE DEF z
<1>4. Len(y) = n + 1
  BY <1>2
<1>5. ASSUME NEW p \in 1..(n + 1) PROVE z[p] = y[p] /\ p \in 1..Len(z)
  <2>1. p \in 1..(Len(y) + Len(j)) /\ p <= Len(y)
    BY <1>1, <1>4
  <2> QED
    BY <1>3, <2>1
<1>6. z[n + 1] = sep[1] /\ n + 1 \in 1..Len(z)
  <2>1. n + 1 \in 1..(n + 1) /\ n + 1 \in 1..(n + Len(sep)) /\ ~ n + 1 <= n /\ n + 1 - n = 1
    BY <1>1
  <2>2. y[n + 1] = sep[1]
    BY <1>2, <2>1
  <2> QED
    BY <1>5, <2>1, <2>2
<1>7. ASSUME NEW p \in 1..n PROVE z[p] = x[p]
  <2>1. p \in 1..(n + 1) /\ p \in 1..(n + Len(sep)) /\ p <= n
    BY <1>1
  <2>2. y[p] = x[p]
    BY <1>2, <2>1
  <2> QED
    BY <1>5, <2>1, <2>2
<1> QED
  BY <1>3, <1>6, <1>7 DEF z, y, Begins

(* Two lists that join to the same string begin with the same part.        *)
LEMMA SameFirst ==
  ASSUME NEW sep \in Strings, Len(sep) = 1,
         NEW x \in Strings, NEW rx \in Lists, NEW y \in Strings, NEW ry \in Lists,
         Free(sep[1], x), Free(sep[1], y),
         Join(<<x>> \o rx, sep) = Join(<<y>> \o ry, sep)
  PROVE  x = y /\ (rx = <<>> <=> ry = <<>>) /\ Join(rx, sep) = Join(ry, sep)
<1> DEFINE J == Join(<<x>> \o rx, sep)
           jx == Join(rx, sep)
           jy == Join(ry, sep)
<1>1. /\ rx = <<>> => J = x
      /\ ry = <<>> => J = y
  <2>1. <<x>> \o <<>> = <<x>> /\ <<y>> \o <<>> = <<y>>
    BY Prefixed, ConcatEmptySeq, EmptySeq DEF Lists
  <2> QED
    BY <2>1, JoinFew
<1>2. /\ rx # <<>> => J = (x \o sep) \o jx
      /\ ry # <<>> => J = (y \o sep) \o jy
  BY JoinFirst
<1>3. jx \in Strings /\ jy \in Strings /\ Len(x) \in Nat /\ Len(y) \in Nat
  BY JoinType DEF Strings
<1> HIDE DEF J, jx, jy
<1>4. rx # <<>> => Begins(J, x, sep[1])
  <2>1. Begins((x \o sep) \o jx, x, sep[1])
    BY <1>3, Separated
  <2> QED
    BY <1>2, <2>1, Zenon
<1>5. ry # <<>> => Begins(J, y, sep[1])
  <2>1. Begins((y \o sep) \o jy, y, sep[1])
    BY <1>3, Separated
  <2> QED
    BY <1>2, <2>1, Zenon
<1>6. CASE rx = <<>> /\ ry = <<>>
  BY <1>1, <1>6 DEF jx, jy
<1>7. CASE rx = <<>> /\ ry # <<>>
  BY <1>1, <1>5, <1>7 DEF Free, Begins
<1>8. CASE rx # <<>> /\ ry = <<>>
  BY <1>1, <1>4, <1>8 DEF Free, Begins
<1>9. CASE rx # <<>> /\ ry # <<>>
  <2>1. ~ Len(x) < Len(y)
    <3> SUFFICES ASSUME Len(x) < Len(y) PROVE FALSE
      OBVIOUS
    <3>1. Len(x) + 1 \in 1..Len(y)
      BY <1>3
    <3> QED
      BY <1>4, <1>5, <1>9, <3>1 DEF Free, Begins
  <2>2. ~ Len(y) < Len(x)
    <3> SUFFICES ASSUME Len(y) < Len(x) PROVE FALSE
      OBVIOUS
    <3>1. Len(y) + 1 \in 1..Len(x)
      BY <1>3
    <3> QED
      BY <1>4, <1>5, <1>9, <3>1 DEF Free, Begins
  <2>3. Len(x) = Len(y)
    BY <1>3, <2>1, <2>2
  <2>4. \A p \in 1..Len(x) : x[p] = y[p]
    BY <1>4, <1>5, <1>9, <2>3 DEF Begins
  <2>5. x = y
    BY <2>3, <2>4, SeqEqual DEF Strings
  <2>6. jx = jy
    <3>1. (x \o sep) \o jx = (x \o sep) \o jy
      BY <1>2, <1>9, <2>5
    <3>2. x \o sep \in Seq(Symbols)
      BY ConcatProperties DEF Strings
    <3> QED
      BY <1>3, <3>1, <3>2, ConcatSimplifications DEF Strings
  <2> QED
    BY <1>9, <2>5, <2>6 DEF jx, jy
<1> QED
  BY <1>6, <1>7, <1>8, <1>9

(* The parts of a list whose parts are free of c.                          *)
LEMMA FreeParts ==
  ASSUME NEW c, NEW x \in Strings, NEW rest \in Lists, AllFree(c, <<x>> \o rest)
  PROVE  Free(c, x) /\ AllFree(c, rest)
<1> DEFINE list == <<x>> \o rest
<1>1. /\ Len(list) = Len(rest) + 1 /\ list[1] = x /\ Len(rest) \in Nat
      /\ \A k \in 1..Len(rest) : list[k + 1] = rest[k]
  BY Prefixed DEF Lists
<1>2. \A k \in 1..Len(list) : Free(c, list[k])
  BY DEF AllFree
<1> HIDE DEF list
<1>3. 1 \in 1..Len(list) /\ \A k \in 1..Len(rest) : k + 1 \in 1..Len(list)
  BY <1>1
<1> QED
  BY <1>1, <1>2, <1>3 DEF AllFree

(* So they are the same lists.                                             *)
LEMMA JoinInjective ==
  ASSUME NEW sep \in Strings, Len(sep) = 1,
         NEW a \in Lists, NEW b \in Lists, a # <<>>, b # <<>>,
         AllFree(sep[1], a), AllFree(sep[1], b), Join(a, sep) = Join(b, sep)
  PROVE  a = b
<1> DEFINE c == sep[1]
           Same(s, t) == /\ s # <<>> /\ t # <<>> /\ AllFree(c, s) /\ AllFree(c, t)
                         /\ Join(s, sep) = Join(t, sep)
           Good == {n \in Nat : \A s, t \in Lists : Len(s) = n /\ Same(s, t) => s = t}
<1>1. ASSUME NEW s \in Lists, NEW t \in Lists, Same(s, t),
             NEW n \in Nat, Len(s) = n, n = 1 \/ n - 1 \in Good
      PROVE  s = t
  <2>1. PICK x \in Strings, rx \in Lists : s = <<x>> \o rx /\ Len(rx) = Len(s) - 1
    BY <1>1, FirstAndRest
  <2>2. PICK y \in Strings, ry \in Lists : t = <<y>> \o ry
    BY <1>1, FirstAndRest
  <2>3. Free(c, x) /\ AllFree(c, rx) /\ Free(c, y) /\ AllFree(c, ry)
    BY <1>1, <2>1, <2>2, FreeParts
  <2>4. x = y /\ (rx = <<>> <=> ry = <<>>) /\ Join(rx, sep) = Join(ry, sep)
    BY <1>1, <2>1, <2>2, <2>3, SameFirst
  <2>5. CASE rx = <<>>
    BY <2>1, <2>2, <2>4, <2>5
  <2>6. CASE rx # <<>>
    <3>1. Len(rx) = n - 1 /\ Len(rx) # 0
      BY <1>1, <2>1, <2>6, EmptySeq DEF Lists
    <3>2. n - 1 \in Good
      BY <1>1, <3>1
    <3>3. Same(rx, ry)
      BY <2>3, <2>4, <2>6
    <3> HIDE DEF Same
    <3>4. rx = ry
      BY <3>1, <3>2, <3>3
    <3> QED
      BY <2>1, <2>2, <2>4, <3>4
  <2> QED
    BY <2>5, <2>6
<1> HIDE DEF Same
<1>2. 1 \in Good
  BY <1>1
<1>3. ASSUME NEW n \in Nat, n - 1 \in Good PROVE n \in Good
  BY <1>1, <1>3
<1> DEFINE N == Len(a)
<1>4. N \in Nat \ {0}
  BY EmptySeq DEF Lists
<1>5. \A n \in 1..N : n \in Good
  <2>1. 1 \in Nat /\ N \in Nat /\ \A n \in (1 + 1)..N : n - 1 \in Good => n \in Good
    BY <1>3, <1>4
  <2> HIDE DEF Good, N
  <2> QED
    BY <1>2, <2>1, UpTo
<1>6. N \in Good
  <2>1. N \in 1..N
    BY <1>4
  <2> HIDE DEF Good, N
  <2> QED
    BY <1>5, <2>1
<1>7. Same(a, b)
  BY DEF Same
<1> QED
  BY <1>6, <1>7

(* Only no field and one empty field join to the empty string.             *)
LEMMA EmptyFieldIsNone ==
  ASSUME NEW parts \in Lists, NEW sep \in Strings, Len(sep) = 1, Join(parts, sep) = <<>>
  PROVE  parts = <<>> \/ parts = << <<>> >>
<1> SUFFICES ASSUME parts # <<>> PROVE parts = << <<>> >>
  OBVIOUS
<1>1. PICK x \in Strings, rest \in Lists : parts = <<x>> \o rest
  BY FirstAndRest
<1>2. CASE rest = <<>>
  <2>1. parts = <<x>>
    BY <1>1, <1>2, Prefixed, ConcatEmptySeq, EmptySeq DEF Lists
  <2>2. Join(parts, sep) = x
    BY <2>1, JoinFew
  <2> QED
    BY <2>1, <2>2
<1>3. CASE rest # <<>>
  <2>1. Join(parts, sep) = (x \o sep) \o Join(rest, sep)
    BY <1>1, <1>3, JoinFirst
  <2>2. Len(x) + 1 \in 1..Len((x \o sep) \o Join(rest, sep))
    BY JoinType, Separated DEF Begins
  <2>3. Len(x) \in Nat /\ Len(<<>>) = 0
    BY EmptySeq DEF Strings
  <2> QED
    BY <2>1, <2>2, <2>3
<1> QED
  BY <1>2, <1>3

(* What joins the fields, splits into them again.                          *)
LEMMA SplitUndoesJoin ==
  ASSUME NEW parts \in Lists, NEW sep \in Strings, Len(sep) = 1, sep # Default,
         AllFree(sep[1], parts)
  PROVE  split_record(Join(parts, sep), sep) = IF parts = << <<>> >> THEN <<>> ELSE parts
<1> DEFINE J == Join(parts, sep)
<1>1. sep # <<>> /\ J \in Strings
  BY EmptySeq, JoinType
<1>2. CASE J = <<>>
  <2>1. split_record(J, sep) = <<>>
    BY <1>1, <1>2 DEF split_record
  <2>2. parts = <<>> \/ parts = << <<>> >>
    BY <1>2, EmptyFieldIsNone
  <2> QED
    BY <2>1, <2>2
<1>3. CASE J # <<>>
  <2>1. split_record(J, sep) = Pieces(J, sep)
    BY <1>1, <1>3 DEF split_record
  <2>2. parts # <<>> /\ parts # << <<>> >>
    BY <1>3, JoinFew, EmptySeq DEF Strings
  <2> HIDE DEF J
  <2>3. ArePieces(Pieces(J, sep), J, sep, 1)
    BY <1>1, PiecesAreExact
  <2>4. /\ Pieces(J, sep) \in Lists /\ Pieces(J, sep) # <<>>
        /\ Join(Pieces(J, sep), sep) = J
        /\ \A k \in 1..Len(Pieces(J, sep)) : Without(sep, Pieces(J, sep)[k])
    <3>1. SubSeq(J, 1, Len(J)) = J
      BY <1>1, SubSeqFull DEF Strings
    <3> QED
      BY <2>3, <3>1 DEF ArePieces
  <2>5. ASSUME NEW s \in Strings, Without(sep, s) PROVE Free(sep[1], s)
    <3>1. ASSUME NEW p \in 1..Len(s), s[p] = sep[1] PROVE FALSE
      <4>1. p \in 1..(Len(s) - Len(sep) + 1) /\ p + Len(sep) - 1 = p
        BY DEF Strings
      <4>2. /\ p \in 1..(Len(s) + 1) /\ p \in (p - 1)..Len(s)
            /\ p + 1 - p = 1 /\ 1 \in 1..1 /\ p + 1 - 1 = p
        BY DEF Strings
      <4>3. /\ SubSeq(s, p, p) \in Seq(Symbols) /\ Len(SubSeq(s, p, p)) = 1
            /\ SubSeq(s, p, p)[1] = s[p]
        BY <4>2, PartOf DEF Strings
      <4>4. SubSeq(s, p, p) = sep
        <5>1. \A i \in 1..Len(sep) : SubSeq(s, p, p)[i] = sep[i]
          BY <3>1, <4>3
        <5> QED
          BY <4>3, <5>1, SeqEqual DEF Strings
      <4>5. StandsAt(sep, s, p)
        BY <4>1, <4>4 DEF StandsAt
      <4> QED
        BY <2>5, <4>1, <4>5 DEF Without
    <3> QED
      BY <3>1 DEF Free
  <2>6. AllFree(sep[1], Pieces(J, sep))
    <3>1. \A k \in 1..Len(Pieces(J, sep)) : Pieces(J, sep)[k] \in Strings
      BY <2>4 DEF Lists
    <3> QED
      BY <2>4, <2>5, <3>1 DEF AllFree
  <2>7. Pieces(J, sep) = parts
    <3>1. Join(parts, sep) = Join(Pieces(J, sep), sep)
      BY <2>4 DEF J
    <3> QED
      BY <2>2, <2>4, <2>6, <3>1, JoinInjective
  <2> QED
    BY <2>1, <2>2, <2>7 DEF J
<1> QED
  BY <1>2, <1>3

-----------------------------------------------------------------------------
(* The record.                                                             *)

(* Splitting gives a list of strings, and the right one.                   *)
LEMMA SplitRecord ==
  ASSUME NEW s \in Strings, NEW sep \in Strings
  PROVE  /\ split_record(s, sep) \in Lists
         /\ SplitsExactly(split_record(s, sep), s, sep)
<1>1. CASE sep = Default
  BY <1>1, WordsAreTheRuns DEF split_record, SplitsExactly
<1>2. CASE sep # Default /\ sep = <<>>
  BY <1>2, CharactersAreExact DEF split_record, SplitsExactly
<1>3. CASE sep # Default /\ sep # <<>> /\ s = <<>>
  <2>1. split_record(s, sep) = <<>> /\ <<>> \in Lists /\ DOMAIN <<>> = {}
    BY <1>3, EmptySeq DEF split_record, Lists
  <2> QED
    BY <1>3, <2>1, JoinFew DEF SplitsExactly
<1>4. CASE sep # Default /\ sep # <<>> /\ s # <<>>
  <2>1. split_record(s, sep) = Pieces(s, sep)
    BY <1>4 DEF split_record
  <2>2. ArePieces(Pieces(s, sep), s, sep, 1)
    BY <1>4, PiecesAreExact
  <2>3. SubSeq(s, 1, Len(s)) = s
    BY SubSeqFull DEF Strings
  <2>4. DOMAIN Pieces(s, sep) = 1..Len(Pieces(s, sep))
    BY <2>2 DEF ArePieces, Lists
  <2> QED
    BY <1>4, <2>1, <2>2, <2>3, <2>4 DEF ArePieces, SplitsExactly
<1> QED
  BY <1>1, <1>2, <1>3, <1>4

(* Dropping the end of the line leaves a string.                           *)
LEMMA ChompedType ==
  ASSUME NEW s \in Strings
  PROVE  Chomped(s) \in Strings
<1>1. ASSUME NEW t \in Strings PROVE SubSeq(t, 1, Len(t) - 1) \in Strings
  <2>1. 1 \in Int /\ Len(t) - 1 \in Int /\ \A i \in 1..(Len(t) - 1) : t[i] \in Symbols
    BY DEF Strings
  <2>2. SubSeq(t, 1, Len(t) - 1) \in Seq(Symbols)
    <3> DEFINE m == Len(t) - 1
    <3>1. m \in Int /\ \A i \in 1..m : t[i] \in Symbols
      BY <2>1
    <3> HIDE DEF m
    <3>2. SubSeq(t, 1, m) \in Seq(Symbols)
      BY <2>1, <3>1, SubSeqProperties
    <3> QED
      BY <3>2 DEF m
  <2> QED
    BY <2>2 DEF Strings
<1> DEFINE t == SubSeq(s, 1, Len(s) - 1)
           u == SubSeq(t, 1, Len(t) - 1)
<1>2. t \in Strings /\ u \in Strings
  BY <1>1
<1>3. Chomped(s) = s \/ Chomped(s) = t \/ Chomped(s) = u
  BY DEF Chomped
<1> QED
  BY <1>2, <1>3

(* Fields that are cut off or added, and one that is assigned.             *)
LEMMA ResizedType ==
  ASSUME NEW parts \in Lists, NEW n \in Nat
  PROVE  /\ Resized(parts, n) \in Lists
         /\ \A k \in 1..n, s \in Strings : [Resized(parts, n) EXCEPT ![k] = s] \in Lists
<1> DEFINE list == Resized(parts, n)
<1>1. ASSUME NEW k \in 1..n
      PROVE  (IF k <= Len(parts) THEN parts[k] ELSE <<>>) \in Strings
  BY EmptySeq DEF Lists, Strings
<1>2. list \in [1..n -> Strings]
  BY <1>1 DEF Resized
<1>3. list \in Lists /\ Len(list) = n
  BY <1>2 DEF Lists
<1> HIDE DEF list
<1>4. ASSUME NEW k \in 1..n, NEW s \in Strings PROVE [list EXCEPT ![k] = s] \in Lists
  BY <1>3, ExceptSeq DEF Lists
<1> QED
  BY <1>3, <1>4 DEF list

(* Every view of the record is text, and they agree.                       *)
Typed ==
  /\ FS \in Strings /\ OFS \in Strings
  /\ field0 \in Strings /\ fields \in Lists
  /\ built.sep \in Strings
RecordInv == Typed /\ RecordAgrees

(* Assigning $0, or reading a record, leaves the fields split from it.     *)
LEMMA ResplitInv ==
  ASSUME Typed, NEW s \in Strings, Resplit(s), FS' = FS, OFS' = OFS
  PROVE  RecordInv'
<1>1. fields' = split_record(s, FS) /\ field0' = s /\ built' = [how |-> "split", sep |-> FS]
  BY DEF Resplit, By
<1>2. built'.how = "split" /\ built'.sep = FS
  BY <1>1
<1>3. split_record(s, FS) \in Lists
  BY SplitRecord DEF Typed
<1>4. Typed'
  BY <1>1, <1>2, <1>3 DEF Typed
<1>5. RecordAgrees'
  BY <1>1, <1>2 DEF RecordAgrees
<1> QED
  BY <1>4, <1>5 DEF RecordInv

(* Assigning a field or NF leaves $0 joined from the fields.               *)
LEMMA RebuildInv ==
  ASSUME Typed, NEW parts \in Lists, RebuildRecord(parts), FS' = FS, OFS' = OFS
  PROVE  RecordInv'
<1>1. fields' = parts /\ field0' = Join(parts, OFS) /\ built' = [how |-> "join", sep |-> OFS]
  BY DEF RebuildRecord, By
<1>2. built'.how # "split" /\ built'.sep = OFS
  BY <1>1
<1>3. Join(parts, OFS) \in Strings
  BY JoinType DEF Typed
<1>4. Typed'
  BY <1>1, <1>2, <1>3 DEF Typed
<1>5. RecordAgrees'
  BY <1>1, <1>2 DEF RecordAgrees
<1> QED
  BY <1>4, <1>5 DEF RecordInv

(* Before the first record the record is empty and has no fields.          *)
LEMMA InitInv == Init => RecordInv
<1> SUFFICES ASSUME Init PROVE RecordInv
  OBVIOUS
<1>1. Default \in Strings
  BY Prefixed, EmptySeq DEF Default, Strings, Symbols
<1>2. <<>> \in Strings /\ <<>> \in Lists
  BY EmptySeq DEF Strings, Lists
<1>3. Words(<<>>) = <<>>
  <2>1. PICK from : /\ Words(<<>>) = from[1]
                    /\ \A p \in 1..(Len(<<>>) + 1) : from[p] = WordsAt(<<>>, from, p)
    BY <1>2, WordsFound
  <2>2. 1 \in 1..(Len(<<>>) + 1) /\ 1 > Len(<<>>)
    OBVIOUS
  <2>3. WordsAt(<<>>, from, 1) = <<>>
    BY <2>2 DEF WordsAt
  <2> QED
    BY <2>1, <2>2, <2>3
<1>4. built.how = "split" /\ built.sep = Default
  BY DEF Init, By
<1>5. Typed
  BY <1>1, <1>2, <1>4 DEF Init, Typed
<1>6. RecordAgrees
  BY <1>3, <1>4 DEF Init, RecordAgrees, split_record
<1> QED
  BY <1>5, <1>6 DEF RecordInv

(* No step of a program breaks the invariant.                              *)
LEMMA NextInv ==
  ASSUME RecordInv, [Next]_vars
  PROVE  RecordInv'
<1>1. Typed
  BY DEF RecordInv
<1>2. \A s \in Texts : s \in Strings
  BY AwkRecordAssumption DEF Strings
<1>3. \A sep \in Separators : sep \in Strings
  BY AwkRecordAssumption DEF Strings
<1>4. CASE \E s \in Texts, ending \in {<<>>, <<LF>>, <<CR, LF>>, <<CR>>} : SetRecord(s \o ending)
  <2>1. PICK s \in Texts, ending \in {<<>>, <<LF>>, <<CR, LF>>, <<CR>>} : SetRecord(s \o ending)
    BY <1>4
  <2>2. ending \in Seq(Symbols)
    <3>1. LF \in Symbols /\ CR \in Symbols
      BY DEF Symbols
    <3>2. <<>> \in Seq(Symbols) /\ <<LF>> \in Seq(Symbols) /\ <<CR>> \in Seq(Symbols)
      BY <3>1, EmptySeq, Prefixed
    <3>3. <<CR, LF>> \in Seq(Symbols)
      BY <3>1
    <3> QED
      BY <3>2, <3>3
  <2>3. s \o ending \in Strings
    BY <1>2, <2>2, ConcatProperties DEF Strings
  <2>4. Chomped(s \o ending) \in Strings
    BY <2>3, ChompedType
  <2>5. Resplit(Chomped(s \o ending)) /\ FS' = FS /\ OFS' = OFS
    BY <2>1 DEF SetRecord
  <2> QED
    BY <1>1, <2>4, <2>5, ResplitInv
<1>5. CASE \E s \in Texts : AssignRecord(s)
  <2>1. PICK s \in Texts : AssignRecord(s)
    BY <1>5
  <2>2. Resplit(s) /\ FS' = FS /\ OFS' = OFS
    BY <2>1 DEF AssignRecord
  <2> QED
    BY <1>1, <1>2, <2>2, ResplitInv
<1>6. CASE \E n \in 1..MaxField, s \in Texts : AssignField(n, s)
  <2>1. PICK n \in 1..MaxField, s \in Texts : AssignField(n, s)
    BY <1>6
  <2> DEFINE m == Max({n, Len(fields)})
             parts == [Resized(fields, m) EXCEPT ![n] = s]
  <2>2. n \in Nat /\ n >= 1 /\ Len(fields) \in Nat
    BY <1>1, AwkRecordAssumption DEF Typed, Lists
  <2>3. m \in {n, Len(fields)} /\ m >= n
    <3>1. n \in Int /\ Len(fields) \in Int
      BY <2>2
    <3> QED
      BY <3>1, MaxOfTwo
  <2>4. RebuildRecord(parts) /\ FS' = FS /\ OFS' = OFS
    BY <2>1 DEF AssignField
  <2> HIDE DEF m
  <2>5. m \in Nat /\ n \in 1..m
    BY <2>2, <2>3
  <2>6. parts \in Lists
    BY <1>1, <1>2, <2>5, ResizedType DEF Typed
  <2> HIDE DEF parts
  <2> QED
    BY <1>1, <2>4, <2>6, RebuildInv
<1>7. CASE AssignNegative
  BY <1>7 DEF AssignNegative, RecordInv, Typed, RecordAgrees
<1>8. CASE \E n \in -1..MaxField : AssignNF(n)
  <2>1. PICK n \in -1..MaxField : AssignNF(n)
    BY <1>8
  <2> DEFINE m == Max({n, 0})
             parts == Resized(fields, m)
  <2>2. n \in Int
    BY AwkRecordAssumption
  <2>3. m \in {n, 0} /\ m >= 0
    BY <2>2, MaxOfTwo
  <2>4. RebuildRecord(parts) /\ FS' = FS /\ OFS' = OFS
    BY <2>1 DEF AssignNF
  <2> HIDE DEF m
  <2>5. m \in Nat
    BY <2>2, <2>3
  <2>6. parts \in Lists
    BY <1>1, <2>5, ResizedType DEF Typed
  <2> HIDE DEF parts
  <2> QED
    BY <1>1, <2>4, <2>6, RebuildInv
<1>9. CASE \E sep \in Separators : AssignFS(sep) \/ AssignOFS(sep)
  BY <1>3, <1>9 DEF AssignFS, AssignOFS, RecordInv, Typed, RecordAgrees
<1>10. CASE UNCHANGED vars
  BY <1>10 DEF vars, RecordInv, Typed, RecordAgrees
<1> QED
  BY <1>4, <1>5, <1>6, <1>7, <1>8, <1>9, <1>10 DEF Next

(* RecordInv: FS, OFS, $0 and the fields are always text, and the record   *)
(* and its fields agree (set_record, set_field and the assignment of NF).  *)
THEOREM RecordInvHolds == Spec => []RecordInv
BY InitInv, NextInv, PTL DEF Spec

(* RecordAgrees (docs/awk.md:73-75): whatever a program assigns to $0, to  *)
(* fields, to NF and to the separators, and in whatever order, set_record, *)
(* set_field and the assignment of NF keep the record and its fields       *)
(* together.                                                               *)
THEOREM RecordAgreesHolds == Spec => []RecordAgrees
<1>1. RecordInv => RecordAgrees
  BY DEF RecordInv
<1> QED
  BY <1>1, RecordInvHolds, PTL

(* SplitIsExact (docs/awk.md:84-89): the fields that split_record makes    *)
(* are the runs between white space, all of them, once and in order; or    *)
(* every symbol; or the pieces between the separators, none of which       *)
(* contains one and which it joins to the record.                          *)
THEOREM SplitIsExactHolds == Spec => []SplitIsExact
<1>1. RecordInv => SplitIsExact
  <2> SUFFICES ASSUME RecordInv, built.how = "split"
               PROVE  SplitsExactly(fields, field0, built.sep)
    BY DEF SplitIsExact, SplitsExactly
  <2>1. fields = split_record(field0, built.sep)
    BY DEF RecordInv, RecordAgrees
  <2>2. field0 \in Strings /\ built.sep \in Strings
    BY DEF RecordInv, Typed
  <2> QED
    BY <2>1, <2>2, SplitRecord
<1> QED
  BY <1>1, RecordInvHolds, PTL

(* SplitInvertsJoin: a record that an assignment joined with a separator   *)
(* of one symbol, none of whose fields contains it, splits into the same   *)
(* fields again.                                                           *)
THEOREM SplitInvertsJoinHolds == Spec => []SplitInvertsJoin
<1>1. RecordInv => SplitInvertsJoin
  <2> SUFFICES ASSUME RecordInv, built.how = "join", Len(built.sep) = 1, built.sep # Default,
                      \A k \in DOMAIN fields :
                        \A p \in DOMAIN fields[k] : fields[k][p] # built.sep[1]
               PROVE  split_record(field0, built.sep) = IF fields = << <<>> >> THEN <<>> ELSE fields
    BY DEF SplitInvertsJoin
  <2>1. field0 = Join(fields, built.sep)
    BY DEF RecordInv, RecordAgrees
  <2>2. fields \in Lists /\ built.sep \in Strings
    BY DEF RecordInv, Typed
  <2>3. AllFree(built.sep[1], fields)
    <3>1. /\ DOMAIN fields = 1..Len(fields)
          /\ \A k \in 1..Len(fields) : DOMAIN fields[k] = 1..Len(fields[k])
      BY <2>2 DEF Lists, Strings
    <3> QED
      BY <3>1 DEF AllFree, Free
  <2> QED
    BY <2>1, <2>2, <2>3, SplitUndoesJoin
<1> QED
  BY <1>1, RecordInvHolds, PTL
=============================================================================
