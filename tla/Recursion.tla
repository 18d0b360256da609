------------------------------ MODULE Recursion ------------------------------
(***************************************************************************)
(* Recursive functions, for the proofs.  A recursive definition            *)
(*   f[x \in D] == e(f, x)                                                 *)
(* says that f is some function equal to [x \in D |-> e(f, x)], if there   *)
(* is one.  There is one when e reads f only where a rank is lower, and    *)
(* what holds of each value if it holds of those of lower rank holds of    *)
(* all.  Everything is stated with sets and functions, first-order.        *)
(***************************************************************************)
EXTENDS Integers, NaturalsInduction, WellFoundedInduction, TLAPS

(* < on the natural numbers as a well-founded relation.                    *)
LEMMA LessOnNat ==
  \E Less : /\ IsWellFoundedOn(Less, Nat)
            /\ \A t, r \in Nat : t < r => <<t, r>> \in Less
<1>1. \A t, r \in Nat : t < r => <<t, r>> \in OpToRel(<, Nat)
  BY DEF OpToRel
<1> QED
  BY <1>1, NatLessThanWellFounded, Zenon

(* A nonempty set of natural numbers has a least element.                  *)
LEMMA Least ==
  ASSUME NEW S, S \subseteq Nat, S # {}
  PROVE  \E r \in S : \A t \in S : t >= r
<1>1. PICK Less : /\ IsWellFoundedOn(Less, Nat)
                  /\ \A t, r \in Nat : t < r => <<t, r>> \in Less
  BY LessOnNat
<1>2. PICK r \in S : \A t \in S : ~ (<<t, r>> \in Less)
  <2>1. IsWellFoundedOn(Less, Nat)
    BY <1>1
  <2>2. \E r \in S : \A t \in S : ~ (<<t, r>> \in Less)
    BY <2>1, WFMin
  <2> QED
    BY <2>2
<1>3. ASSUME NEW t \in S PROVE t >= r
  <2>1. t \in Nat /\ r \in Nat /\ (t < r => <<t, r>> \in Less)
    BY <1>1
  <2>2. ~ (<<t, r>> \in Less)
    BY <1>2
  <2>3. ~ (t < r)
    BY <2>1, <2>2
  <2> QED
    BY <2>1, <2>3
<1> QED
  BY <1>3

(* What is in Good as soon as all of lower rank is, is in Good.            *)
LEMMA ByRank ==
  ASSUME NEW D, NEW rank \in [D -> Nat], NEW Good,
         \A o \in D : (\A q \in D : rank[q] < rank[o] => q \in Good) => o \in Good
  PROVE  \A o \in D : o \in Good
<1> SUFFICES ASSUME NEW x \in D, x \notin Good PROVE FALSE
  OBVIOUS
<1> DEFINE Bad == {rank[o] : o \in D \ Good}
<1>1. Bad \subseteq Nat /\ Bad # {}
  OBVIOUS
<1>2. PICK r \in Bad : \A t \in Bad : t >= r
  BY <1>1, Least
<1>3. PICK o \in D \ Good : r = rank[o]
  BY <1>2
<1>4. ASSUME NEW q \in D, rank[q] < rank[o] PROVE q \in Good
  <2> SUFFICES ASSUME q \notin Good PROVE FALSE
    OBVIOUS
  <2>1. rank[q] \in Bad /\ rank[q] \in Nat /\ rank[o] \in Nat
    OBVIOUS
  <2> QED
    BY <1>2, <1>3, <1>4, <2>1
<1> QED
  BY <1>3, <1>4

(* At o the function that is being defined is read at lower ranks only.    *)
ReadsLower(D, S, rank, G) ==
  \A o \in D : \A f, g \in [D -> S] :
    (\A q \in D : rank[q] < rank[o] => f[q] = g[q]) => G[o][f] = G[o][g]

Solves(f, D, G) == \A o \in D : f[o] = G[o][f]

(* A recursion that reads lower ranks only, with a bound on the ranks, has *)
(* a solution: one that is right up to some rank is made right at the next *)
(* one by reading it.                                                      *)
LEMMA Solution ==
  ASSUME NEW D, NEW S, S # {}, NEW N \in Nat, NEW rank \in [D -> 0..N],
         NEW G \in [D -> [[D -> S] -> S]],
         ReadsLower(D, S, rank, G)
  PROVE  \E f \in [D -> S] : Solves(f, D, G)
<1> DEFINE Right(f, n) == \A o \in D : rank[o] < n => f[o] = G[o][f]
           Reached == {n \in Nat : \E f \in [D -> S] : Right(f, n)}
<1>0. \A a, b \in Nat : a < b + 1 => a < b \/ a = b
  OBVIOUS
<1>1. 0 \in Reached
  <2>1. PICK s \in S : TRUE
    OBVIOUS
  <2>2. [o \in D |-> s] \in [D -> S] /\ \A o \in D : ~ rank[o] < 0
    BY <2>1
  <2> QED
    BY <2>2
<1>2. ASSUME NEW n \in Nat, n \in Reached PROVE n + 1 \in Reached
  <2>1. PICK f \in [D -> S] : Right(f, n)
    BY <1>2
  <2> DEFINE g == [o \in D |-> IF rank[o] = n THEN G[o][f] ELSE f[o]]
  <2>2. g \in [D -> S]
    OBVIOUS
  <2>3. \A o \in D : rank[o] < n => g[o] = f[o]
    OBVIOUS
  <2>4. \A o \in D : rank[o] = n => g[o] = G[o][f]
    OBVIOUS
  <2> HIDE DEF g
  <2>5. ASSUME NEW o \in D, rank[o] < n + 1 PROVE g[o] = G[o][g]
    <3>1. rank[o] \in Nat /\ \A q \in D : rank[q] \in Nat
      OBVIOUS
    <3>2. \A q \in D : rank[q] < rank[o] => f[q] = g[q]
      BY <2>3, <2>5, <3>1
    <3>3. G[o][f] = G[o][g]
      BY <2>2, <3>2 DEF ReadsLower
    <3>6. rank[o] < n \/ rank[o] = n
      BY <1>0, <2>5, <3>1, Zenon
    <3>4. CASE rank[o] < n
      BY <2>1, <2>3, <3>3, <3>4
    <3>5. CASE rank[o] = n
      BY <2>4, <3>3, <3>5
    <3> QED
      BY <3>4, <3>5, <3>6
  <2> QED
    BY <2>2, <2>5
<1> HIDE DEF Reached
<1>3. N + 1 \in Reached
  <2> DEFINE Missing == Nat \ Reached
  <2> SUFFICES ASSUME Missing # {} PROVE FALSE
    OBVIOUS
  <2>1. PICK m \in Missing : \A t \in Missing : t >= m
    BY Least
  <2>2. m \in Nat /\ m # 0 /\ m - 1 \in Nat
    BY <1>1, <2>1
  <2>3. m - 1 \in Reached
    BY <2>1, <2>2
  <2>4. m - 1 + 1 = m
    BY <2>2
  <2> QED
    BY <1>2, <2>1, <2>2, <2>3, <2>4
<1>4. PICK f \in [D -> S] : Right(f, N + 1)
  BY <1>3 DEF Reached
<1>5. \A o \in D : rank[o] < N + 1
  OBVIOUS
<1> QED
  BY <1>4, <1>5 DEF Solves

(* What holds at lo and at i if it holds at i - 1 holds up to n.           *)
LEMMA UpTo ==
  ASSUME NEW lo \in Nat, NEW n \in Nat, NEW Good, lo \in Good,
         \A i \in (lo + 1)..n : i - 1 \in Good => i \in Good
  PROVE  \A i \in lo..n : i \in Good
<1> DEFINE D == lo..n
           rank == [i \in D |-> i]
<1>1. rank \in [D -> Nat]
  OBVIOUS
<1>2. ASSUME NEW i \in D, \A q \in D : rank[q] < rank[i] => q \in Good PROVE i \in Good
  <2>1. CASE i = lo
    BY <2>1
  <2>2. CASE i # lo
    <3>1. i \in (lo + 1)..n /\ i - 1 \in D /\ rank[i - 1] < rank[i]
      BY <2>2
    <3> QED
      BY <1>2, <3>1
  <2> QED
    BY <2>1, <2>2
<1> HIDE DEF D, rank
<1>3. \A i \in D : i \in Good
  BY <1>1, <1>2, ByRank
<1> QED
  BY <1>3 DEF D

Climbs(f, a, lo, n, G) == \A i \in lo..n : f[i] = IF i = lo THEN a ELSE G[i][f[i - 1]]

(* The recursion that goes up one by one has a solution.                   *)
LEMMA Climb ==
  ASSUME NEW S, NEW a \in S, NEW lo \in Nat, NEW n \in Nat, NEW G \in [(lo + 1)..n -> [S -> S]]
  PROVE  \E f \in [lo..n -> S] : Climbs(f, a, lo, n, G)
<1> DEFINE D == lo..n
           rank == [i \in D |-> i]
           H == [i \in D |-> [f \in [D -> S] |-> IF i = lo THEN a ELSE G[i][f[i - 1]]]]
<1>1. rank \in [D -> 0..n] /\ S # {}
  OBVIOUS
<1>2. ASSUME NEW i \in D, i # lo PROVE i - 1 \in D /\ rank[i - 1] < rank[i] /\ i \in (lo + 1)..n
  BY <1>2
<1>3. ASSUME NEW i \in D, NEW f \in [D -> S]
      PROVE  (IF i = lo THEN a ELSE G[i][f[i - 1]]) \in S
  <2>1. CASE i = lo
    BY <2>1
  <2>2. CASE i # lo
    <3>1. i - 1 \in D /\ i \in (lo + 1)..n
      BY <1>2, <2>2
    <3>2. f[i - 1] \in S /\ G[i] \in [S -> S]
      BY <3>1
    <3> QED
      BY <2>2, <3>2
  <2> QED
    BY <2>1, <2>2
<1>4. H \in [D -> [[D -> S] -> S]]
  BY <1>3
<1>5. ASSUME NEW i \in D, NEW f \in [D -> S], NEW g \in [D -> S],
             \A q \in D : rank[q] < rank[i] => f[q] = g[q]
      PROVE  H[i][f] = H[i][g]
  <2>1. CASE i = lo
    BY <2>1
  <2>2. CASE i # lo
    <3>1. f[i - 1] = g[i - 1]
      BY <1>2, <1>5, <2>2
    <3> QED
      BY <2>2, <3>1
  <2> QED
    BY <2>1, <2>2
<1>6. ReadsLower(D, S, rank, H)
  BY <1>5 DEF ReadsLower
<1>7. PICK f \in [D -> S] : Solves(f, D, H)
  <2> HIDE DEF D, H, rank
  <2> QED
    BY <1>1, <1>4, <1>6, Solution
<1>8. \A i \in D : f[i] = IF i = lo THEN a ELSE G[i][f[i - 1]]
  BY <1>7 DEF Solves
<1> QED
  BY <1>8 DEF Climbs
=============================================================================
