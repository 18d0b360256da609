-------------------------- MODULE LineFilterProofs --------------------------
(***************************************************************************)
(* Proofs about LineFilter, for every input, every literal and every word  *)
(* that the literal search compares at once.                               *)
(*                                                                         *)
(* The first part is about the data: exclusive or of bytes, the lanes that *)
(* the SWAR subtraction flags, the search for a byte and for a literal,    *)
(* splitting a view into its lines, and sequences joined from what each    *)
(* view gives.                                                             *)
(*                                                                         *)
(* The inductive invariants are Shape and Progress.  Shape says what the   *)
(* plan is at each point of the optimizer, and where views and cursors     *)
(* lie.  Progress is the accumulator argument: what a command has yielded  *)
(* so far, followed by what it would yield of the views that remain, from  *)
(* the cursor on in the first of them, is what it yields of all it reads.  *)
(* At the end nothing remains, so each command has yielded what it means,  *)
(* and what the plan means is what the program means.                      *)
(*                                                                         *)
(* Progress is stated for the plan, not for the program: a fused filter    *)
(* yields, by definition, what the splitter and the filter together yield. *)
(* That the search from hit to hit does so is what its step has to show    *)
(* (FilterStep, FilterHit, MatchingMoves).                                 *)
(***************************************************************************)
EXTENDS LineFilter, Recursion, SequenceTheorems, FiniteSetTheorems

-----------------------------------------------------------------------------
(* Least and greatest elements, powers of two, exclusive or.               *)

(* The minimum of a nonempty set of natural numbers is its least element.  *)
LEMMA MinOf ==
  ASSUME NEW S, S \subseteq Nat, S # {}
  PROVE  Min(S) \in S /\ \A x \in S : Min(S) <= x
<1>1. PICK m \in S : \A x \in S : x >= m
  BY Least
<1>2. \E t \in S : \A x \in S : t <= x
  BY <1>1
<1> QED
  BY <1>2, Zenon DEF Min

(* A least element is the minimum.                                         *)
LEMMA MinIs ==
  ASSUME NEW S, S \subseteq Nat, NEW m \in S, \A x \in S : m <= x
  PROVE  Min(S) = m
<1>1. Min(S) \in S /\ \A x \in S : Min(S) <= x
  BY MinOf
<1>2. Min(S) <= m /\ m <= Min(S) /\ Min(S) \in Nat /\ m \in Nat
  BY <1>1
<1> QED
  BY <1>2

(* Power doubles.                                                          *)
Doubles == /\ Power \in [0..Width -> Nat]
           /\ Power[0] = 1
           /\ \A k \in 1..Width : Power[k] = 2 * Power[k - 1]

(* Power is defined, on 0..Width, and doubles from each bit to the next.   *)
LEMMA PowerDoubles == Doubles
<1> DEFINE Body(f) == [k \in 0..Width |-> IF k = 0 THEN 1 ELSE 2 * f[k - 1]]
           G == [k \in (0 + 1)..Width |-> [v \in Nat |-> 2 * v]]
<1>0. Width \in Nat
  BY LineFilterAssumption
<1>1. G \in [(0 + 1)..Width -> [Nat -> Nat]]
  OBVIOUS
<1>2. PICK f \in [0..Width -> Nat] : Climbs(f, 1, 0, Width, G)
  <2> HIDE DEF G
  <2> QED
    BY <1>0, <1>1, Climb
<1>3. \A k \in 0..Width : f[k] = IF k = 0 THEN 1 ELSE 2 * f[k - 1]
  <2> SUFFICES ASSUME NEW k \in 0..Width PROVE f[k] = IF k = 0 THEN 1 ELSE 2 * f[k - 1]
    OBVIOUS
  <2>1. f[k] = IF k = 0 THEN 1 ELSE G[k][f[k - 1]]
    BY <1>2 DEF Climbs
  <2>2. CASE k = 0
    BY <2>1, <2>2
  <2>3. CASE k # 0
    <3>1. k \in (0 + 1)..Width /\ k - 1 \in 0..Width
      BY <1>0, <2>3
    <3>2. f[k - 1] \in Nat
      BY <3>1
    <3>3. G[k][f[k - 1]] = 2 * f[k - 1]
      BY <3>1, <3>2
    <3> QED
      BY <2>1, <2>3, <3>3
  <2> QED
    BY <2>2, <2>3
<1>4. f = Body(f)
  BY <1>3
<1>5. Power = Body(Power)
  <2>1. \E g : g = Body(g)
    BY <1>4
  <2>2. Power = CHOOSE g : g = Body(g)
    BY DEF Power
  <2> HIDE DEF Body
  <2> QED
    BY <2>1, <2>2, Zenon
<1>6. \A k \in 0..Width : Power[k] = IF k = 0 THEN 1 ELSE 2 * Power[k - 1]
  BY <1>5
<1>7. \A k \in 0..Width : Power[k] \in Nat
  <2> DEFINE Good == {k \in 0..Width : Power[k] \in Nat}
  <2>1. 0 \in Good
    BY <1>0, <1>6
  <2>2. \A k \in (0 + 1)..Width : k - 1 \in Good => k \in Good
    BY <1>0, <1>6
  <2> HIDE DEF Good
  <2>3. \A k \in 0..Width : k \in Good
    BY <1>0, <2>1, <2>2, UpTo, ZenonT(30)
  <2> QED
    BY <2>3 DEF Good
<1>8. Power = [k \in 0..Width |-> Power[k]]
  BY <1>5
<1>9. Power \in [0..Width -> Nat]
  BY <1>7, <1>8
<1>10. Power[0] = 1 /\ \A k \in 1..Width : Power[k] = 2 * Power[k - 1]
  BY <1>0, <1>6
<1> QED
  BY <1>9, <1>10 DEF Doubles

(* A byte has at least two bits, and half of the bytes have the high one.  *)
LEMMA BaseIsEven ==
  \E half \in Nat \ {0} : Base = 2 * half /\ Base \div 2 = half
<1>1. Width \in Nat /\ Width >= 2
  BY LineFilterAssumption
<1>2. /\ Power[0] = 1
      /\ \A k \in 1..Width : Power[k] = 2 * Power[k - 1]
      /\ \A k \in 0..Width : Power[k] \in Nat
  BY PowerDoubles DEF Doubles
<1> DEFINE Good == {k \in 0..Width : Power[k] >= 1}
<1>3. 0 \in Good
  BY <1>1, <1>2
<1>4. ASSUME NEW k \in (0 + 1)..Width, k - 1 \in Good PROVE k \in Good
  <2>1. k \in 1..Width /\ k - 1 \in 0..Width
    BY <1>1
  <2>2. Power[k] = 2 * Power[k - 1] /\ Power[k - 1] \in Nat /\ Power[k - 1] >= 1
    BY <1>2, <1>4, <2>1
  <2> QED
    BY <2>1, <2>2
<1> HIDE DEF Good
<1>5. \A k \in 0..Width : k \in Good
  BY <1>1, <1>3, <1>4, UpTo, ZenonT(30)
<1>6. Width \in 1..Width /\ Width - 1 \in 0..Width
  BY <1>1
<1>7. Power[Width - 1] \in Nat /\ Power[Width - 1] >= 1 /\ Base = 2 * Power[Width - 1]
  BY <1>2, <1>5, <1>6 DEF Good, Base
<1>8. Base \div 2 = Power[Width - 1]
  BY <1>7
<1> QED
  BY <1>7, <1>8

(* The arguments of an exclusive or.                                       *)
Pairs == Byte \X Byte

(* The halves of two bytes are two bytes, smaller ones if they are not 0.  *)
Halves(p) == <<p[1] \div 2, p[2] \div 2>>

(* Shifting both bytes by a bit makes them smaller, until both are 0: the  *)
(* recursion of XorBits ends.                                              *)
LEMMA HalvesAreSmaller ==
  ASSUME NEW p \in Pairs, p # <<0, 0>>
  PROVE  /\ Halves(p) \in Pairs
         /\ Halves(p)[1] + Halves(p)[2] < p[1] + p[2]
<1>1. Base \in Nat
  BY BaseIsEven
<1>2. p[1] \in Byte /\ p[2] \in Byte /\ (p[1] # 0 \/ p[2] # 0)
  BY DEF Pairs
<1>3. p[1] \in Nat /\ p[2] \in Nat /\ p[1] < Base /\ p[2] < Base
  BY <1>1, <1>2 DEF Byte
<1>4. \A n \in Nat : n \div 2 \in Nat /\ n \div 2 <= n /\ (n # 0 => n \div 2 < n)
  OBVIOUS
<1>5. p[1] \div 2 \in Byte /\ p[2] \div 2 \in Byte
  BY <1>1, <1>3, <1>4 DEF Byte
<1>6. p[1] \div 2 + p[2] \div 2 < p[1] + p[2]
  BY <1>2, <1>3, <1>4
<1> QED
  BY <1>5, <1>6 DEF Halves, Pairs

(* A step of XorBits, with f for the bits above the lowest.                *)
XorAt(f, p) == IF p = <<0, 0>> THEN 0
               ELSE 2 * f[<<p[1] \div 2, p[2] \div 2>>] + (IF p[1] % 2 = p[2] % 2 THEN 0 ELSE 1)

(* f is the exclusive or of all pairs of bytes.                            *)
IsXor(f) == f \in [Pairs -> Nat] /\ \A p \in Pairs : f[p] = XorAt(f, p)

(* XorBits, one step at a time.                                            *)
LEMMA XorFound ==
  \E f : IsXor(f) /\ \A a, b \in Byte : XorBits(a, b) = f[<<a, b>>]
<1> DEFINE Body(f) == [p \in Byte \X Byte |-> XorAt(f, p)]
           N == 2 * Base
           rank == [p \in Pairs |-> p[1] + p[2]]
           G == [p \in Pairs |-> [f \in [Pairs -> Nat] |-> XorAt(f, p)]]
<1>1. Base \in Nat
  BY BaseIsEven
<1>2. N \in Nat
  BY <1>1
<1>3. rank \in [Pairs -> 0..N]
  <2> SUFFICES ASSUME NEW p \in Pairs PROVE p[1] + p[2] \in 0..N
    OBVIOUS
  <2>1. p[1] \in Byte /\ p[2] \in Byte
    BY DEF Pairs
  <2> QED
    BY <1>1, <2>1 DEF Byte
<1>4. ASSUME NEW f \in [Pairs -> Nat], NEW p \in Pairs PROVE XorAt(f, p) \in Nat
  <2>1. CASE p = <<0, 0>>
    BY <2>1 DEF XorAt
  <2>2. CASE p # <<0, 0>>
    <3>1. f[Halves(p)] \in Nat
      BY <2>2, HalvesAreSmaller
    <3>2. XorAt(f, p) = 2 * f[Halves(p)] + (IF p[1] % 2 = p[2] % 2 THEN 0 ELSE 1)
      BY <2>2 DEF XorAt, Halves
    <3> QED
      BY <3>1, <3>2
  <2> QED
    BY <2>1, <2>2
<1>5. G \in [Pairs -> [[Pairs -> Nat] -> Nat]]
  BY <1>4
<1>6. ASSUME NEW p \in Pairs, NEW f \in [Pairs -> Nat], NEW g \in [Pairs -> Nat],
             \A q \in Pairs : rank[q] < rank[p] => f[q] = g[q]
      PROVE  G[p][f] = G[p][g]
  <2>1. CASE p = <<0, 0>>
    BY <2>1 DEF XorAt
  <2>2. CASE p # <<0, 0>>
    <3>1. Halves(p) \in Pairs /\ rank[Halves(p)] < rank[p]
      BY <2>2, HalvesAreSmaller
    <3>2. f[Halves(p)] = g[Halves(p)]
      BY <1>6, <3>1
    <3>3. XorAt(f, p) = XorAt(g, p)
      BY <3>2 DEF XorAt, Halves
    <3> QED
      BY <3>3
  <2> QED
    BY <2>1, <2>2
<1>7. ReadsLower(Pairs, Nat, rank, G)
  BY <1>6 DEF ReadsLower
<1>8. PICK f \in [Pairs -> Nat] : Solves(f, Pairs, G)
  <2> HIDE DEF N, rank, G
  <2> QED
    BY <1>2, <1>3, <1>5, <1>7, Solution
<1>9. \A p \in Pairs : f[p] = XorAt(f, p)
  BY <1>8 DEF Solves
<1>10. f = Body(f)
  BY <1>9 DEF Pairs
<1> DEFINE xor == CHOOSE g : g = Body(g)
<1>11. xor = Body(xor)
  <2>1. \E g : g = Body(g)
    BY <1>10
  <2> HIDE DEF Body
  <2> QED
    BY <2>1, Zenon
<1>12. ASSUME NEW a \in Byte, NEW b \in Byte PROVE XorBits(a, b) = xor[<<a, b>>]
  BY Zenon DEF XorBits, XorAt
<1> HIDE DEF xor
<1>13. \A p \in Pairs : xor[p] = XorAt(xor, p)
  BY <1>11 DEF Pairs
<1> DEFINE Good == {p \in Pairs : xor[p] \in Nat}
<1>14. ASSUME NEW p \in Pairs, \A q \in Pairs : rank[q] < rank[p] => q \in Good
       PROVE  p \in Good
  <2>1. CASE p = <<0, 0>>
    BY <1>13, <2>1 DEF XorAt
  <2>2. CASE p # <<0, 0>>
    <3>1. Halves(p) \in Pairs /\ rank[Halves(p)] < rank[p]
      BY <2>2, HalvesAreSmaller
    <3>2. xor[Halves(p)] \in Nat
      BY <1>14, <3>1
    <3>3. xor[p] = 2 * xor[Halves(p)] + (IF p[1] % 2 = p[2] % 2 THEN 0 ELSE 1)
      BY <1>13, <2>2 DEF XorAt, Halves
    <3> QED
      BY <3>2, <3>3
  <2> QED
    BY <2>1, <2>2
<1>15. rank \in [Pairs -> Nat]
  BY <1>2, <1>3
<1> HIDE DEF rank, Good
<1>16. \A p \in Pairs : p \in Good
  BY <1>14, <1>15, ByRank
<1>17. xor = [p \in Pairs |-> xor[p]]
  BY <1>11 DEF Pairs
<1>18. xor \in [Pairs -> Nat]
  BY <1>16, <1>17 DEF Good
<1> QED
  BY <1>12, <1>13, <1>18 DEF IsXor

(* The exclusive or of two bytes is a byte, and 0 only if they are equal.  *)
LEMMA XorIsByte ==
  ASSUME NEW a \in Byte, NEW b \in Byte
  PROVE  XorBits(a, b) \in Byte /\ (XorBits(a, b) = 0 <=> a = b)
<1>1. Width \in Nat /\ Base \in Nat
  BY LineFilterAssumption, BaseIsEven
<1>2. /\ Power[0] = 1
      /\ \A k \in 1..Width : Power[k] = 2 * Power[k - 1]
      /\ \A k \in 0..Width : Power[k] \in Nat
  BY PowerDoubles DEF Doubles
<1>3. PICK f : IsXor(f) /\ \A m, n \in Byte : XorBits(m, n) = f[<<m, n>>]
  BY XorFound
<1> DEFINE Small(k, m) == m \in Byte /\ m < Power[k]
           Good == {k \in 0..Width :
                      \A m, n \in Byte : m < Power[k] /\ n < Power[k] =>
                        f[<<m, n>>] < Power[k] /\ (f[<<m, n>>] = 0 <=> m = n)}
<1>4. \A m, n \in Byte : <<m, n>> \in Pairs /\ f[<<m, n>>] \in Nat
  BY <1>3 DEF IsXor, Pairs
<1>5. \A m \in Byte : m \in Nat
  BY <1>1 DEF Byte
<1>6. f[<<0, 0>>] = 0 /\ 0 \in Byte
  <2>1. 0 \in Byte
    BY BaseIsEven DEF Byte
  <2>2. <<0, 0>> \in Pairs
    BY <2>1 DEF Pairs
  <2> QED
    BY <1>3, <2>1, <2>2 DEF IsXor, XorAt
<1>7. 0 \in Good
  <2>1. \A m \in Byte : m < Power[0] => m = 0
    BY <1>2, <1>5
  <2> QED
    BY <1>1, <1>2, <1>6, <2>1
<1>8. ASSUME NEW k \in (0 + 1)..Width, k - 1 \in Good PROVE k \in Good
  <2>1. k \in 1..Width /\ k - 1 \in 0..Width /\ k \in 0..Width
    BY <1>1
  <2>2. Power[k] = 2 * Power[k - 1] /\ Power[k - 1] \in Nat /\ Power[k] \in Nat
    BY <1>2, <2>1
  <2> SUFFICES ASSUME NEW m \in Byte, NEW n \in Byte, m < Power[k], n < Power[k]
               PROVE  f[<<m, n>>] < Power[k] /\ (f[<<m, n>>] = 0 <=> m = n)
    BY <2>1
  <2>3. CASE <<m, n>> = <<0, 0>>
    <3>1. m = 0 /\ n = 0
      BY <2>3
    <3> QED
      BY <1>6, <2>2, <3>1
  <2>4. CASE <<m, n>> # <<0, 0>>
    <3> DEFINE h == m \div 2
               l == n \div 2
               c == IF m % 2 = n % 2 THEN 0 ELSE 1
    <3>1. <<h, l>> \in Pairs
      BY <1>4, <2>4, HalvesAreSmaller DEF Halves
    <3>2. h \in Byte /\ l \in Byte
      BY <3>1 DEF Pairs
    <3>3. m \in Nat /\ n \in Nat
      BY <1>5
    <3>4. h < Power[k - 1] /\ l < Power[k - 1]
      BY <2>2, <3>3
    <3>5. f[<<m, n>>] = 2 * f[<<h, l>>] + c
      <4>1. f[<<m, n>>] = XorAt(f, <<m, n>>)
        BY <1>3, <1>4 DEF IsXor
      <4> QED
        BY <2>4, <4>1 DEF XorAt
    <3>6. f[<<h, l>>] < Power[k - 1] /\ (f[<<h, l>>] = 0 <=> h = l) /\ f[<<h, l>>] \in Nat
      <4> HIDE DEF h, l
      <4> QED
        BY <1>4, <1>8, <3>2, <3>4
    <3>7. c \in {0, 1} /\ (m = n <=> h = l /\ c = 0)
      BY <3>3
    <3> HIDE DEF h, l, c
    <3>8. 2 * f[<<h, l>>] + c < Power[k] /\ (2 * f[<<h, l>>] + c = 0 <=> f[<<h, l>>] = 0 /\ c = 0)
      BY <2>2, <3>6, <3>7
    <3> QED
      BY <3>5, <3>6, <3>7, <3>8
  <2> QED
    BY <2>3, <2>4
<1> HIDE DEF Good
<1>9. \A k \in 0..Width : k \in Good
  BY <1>1, <1>7, <1>8, UpTo, ZenonT(30)
<1>10. Width \in Good
  BY <1>1, <1>9
<1>11. a < Power[Width] /\ b < Power[Width]
  BY <1>1 DEF Byte, Base
<1>12. f[<<a, b>>] < Power[Width] /\ (f[<<a, b>>] = 0 <=> a = b) /\ f[<<a, b>>] \in Nat
  BY <1>4, <1>10, <1>11 DEF Good
<1>13. XorBits(a, b) = f[<<a, b>>]
  BY <1>3
<1> QED
  BY <1>1, <1>12, <1>13 DEF Byte, Base

-----------------------------------------------------------------------------
(* The search for a byte (find_byte).                                      *)

(* The length of the input; the input and the build are what Init makes    *)
(* them.                                                                   *)
Length == Cardinality(DOMAIN text)
TextOK == Length \in Nat /\ text \in [0..(Length - 1) -> Byte] /\ neon \in BOOLEAN

(* A lane of the difference has its high bit set, and that of the exclusive *)
(* or has not, just if the exclusive or is 0, when nothing is borrowed.    *)
LEMMA LaneHit ==
  ASSUME NEW x \in Byte
  PROVE  HighBit((x - 1 - 0) % Base) /\ ~ HighBit(x) <=> x = 0
<1>1. PICK half \in Nat \ {0} : Base = 2 * half /\ Base \div 2 = half
  BY BaseIsEven
<1>2. x \in Nat /\ x < Base /\ Base \in Nat /\ Base >= 2
  BY <1>1 DEF Byte
<1>3. CASE x = 0
  <2>1. (x - 1 - 0) % Base = Base - 1
    BY <1>2, <1>3
  <2> QED
    BY <1>1, <1>2, <1>3, <2>1 DEF HighBit
<1>4. CASE x # 0
  <2>1. (x - 1 - 0) % Base = x - 1
    BY <1>2, <1>4
  <2> QED
    BY <1>1, <1>2, <1>4, <2>1 DEF HighBit
<1> QED
  BY <1>3, <1>4

(* find_byte_swar: the lowest lane it flags is the lowest that holds the   *)
(* byte, although the borrow of one lane can make it flag a later one.     *)
LEMMA LowestLane ==
  ASSUME TextOK, NEW byte \in Byte, NEW p \in Nat, p + Lanes <= Length
  PROVE  /\ SwarLanes(byte, p) = {} <=> NeonLanes(byte, p) = {}
         /\ NeonLanes(byte, p) # {} => Min(SwarLanes(byte, p)) = Min(NeonLanes(byte, p))
<1> DEFINE xor == [k \in 0..(Lanes - 1) |-> XorBits(text[p + k], byte)]
           Body(f) == [k \in 0..Lanes |-> IF k = 0 THEN 0
                                          ELSE IF xor[k - 1] < 1 + f[k - 1] THEN 1 ELSE 0]
           borrow == CHOOSE g : g = Body(g)
           G == [k \in (0 + 1)..Lanes |-> [v \in Nat |-> IF xor[k - 1] < 1 + v THEN 1 ELSE 0]]
           Swar == {k \in 0..(Lanes - 1) :
                      HighBit((xor[k] - 1 - borrow[k]) % Base) /\ ~ HighBit(xor[k])}
           Neon == {k \in 0..(Lanes - 1) : text[p + k] = byte}
<1>1. SwarLanes(byte, p) = Swar /\ NeonLanes(byte, p) = Neon
  BY Zenon DEF SwarLanes, NeonLanes
<1>2. Lanes \in Nat /\ Lanes >= 1 /\ Length \in Nat
  BY LineFilterAssumption DEF TextOK
<1>3. ASSUME NEW k \in 0..(Lanes - 1)
      PROVE  xor[k] \in Byte /\ (xor[k] = 0 <=> text[p + k] = byte)
  <2>1. p + k \in 0..(Length - 1)
    BY <1>2
  <2>2. text[p + k] \in Byte
    BY <2>1 DEF TextOK
  <2> QED
    BY <2>2, XorIsByte
<1> HIDE DEF xor
<1>4. \E g : g = Body(g)
  <2>1. G \in [(0 + 1)..Lanes -> [Nat -> Nat]]
    OBVIOUS
  <2>2. PICK f \in [0..Lanes -> Nat] : Climbs(f, 0, 0, Lanes, G)
    <3> HIDE DEF G
    <3> QED
      BY <1>2, <2>1, Climb
  <2>3. ASSUME NEW k \in 0..Lanes PROVE f[k] = Body(f)[k]
    <3>1. f[k] = IF k = 0 THEN 0 ELSE G[k][f[k - 1]]
      BY <2>2 DEF Climbs
    <3>2. CASE k = 0
      BY <3>1, <3>2
    <3>3. CASE k # 0
      <4>1. k \in (0 + 1)..Lanes /\ f[k - 1] \in Nat
        BY <1>2, <3>3
      <4> QED
        BY <3>1, <3>3, <4>1
    <3> QED
      BY <3>2, <3>3
  <2>4. f = Body(f)
    BY <2>3
  <2> QED
    BY <2>4
<1>5. borrow = Body(borrow)
  <2> HIDE DEF Body
  <2> QED
    BY <1>4, Zenon
<1> HIDE DEF borrow
<1>6. \A k \in 0..Lanes : borrow[k] = IF k = 0 THEN 0
                                       ELSE IF xor[k - 1] < 1 + borrow[k - 1] THEN 1 ELSE 0
  BY <1>5
<1> HIDE DEF Body
<1> DEFINE Clean(k) == \A j \in 0..(k - 1) : xor[j] # 0
           Good == {k \in 0..Lanes : Clean(k) => borrow[k] = 0}
<1>7. \A k \in 0..Lanes : k \in Good
  <2>1. 0 \in Good
    BY <1>2, <1>6
  <2>2. ASSUME NEW k \in (0 + 1)..Lanes, k - 1 \in Good PROVE k \in Good
    <3> SUFFICES ASSUME Clean(k) PROVE borrow[k] = 0
      BY <1>2
    <3>1. k - 1 \in 0..(Lanes - 1) /\ k \in 0..Lanes /\ k # 0
      BY <1>2
    <3>2. Clean(k - 1) /\ xor[k - 1] # 0 /\ xor[k - 1] \in Byte
      BY <1>3, <3>1
    <3>3. borrow[k - 1] = 0
      BY <2>2, <3>2
    <3>4. Base \in Nat
      BY BaseIsEven
    <3>5. ~ xor[k - 1] < 1 + borrow[k - 1]
      BY <3>2, <3>3, <3>4 DEF Byte
    <3> QED
      BY <1>6, <3>1, <3>5
  <2> HIDE DEF Good
  <2> QED
    BY <1>2, <2>1, <2>2, UpTo, ZenonT(30)
<1>8. ASSUME NEW k \in 0..(Lanes - 1), Clean(k) PROVE k \in Swar <=> k \in Neon
  <2>1. borrow[k] = 0
    BY <1>2, <1>7, <1>8
  <2>2. xor[k] \in Byte /\ (xor[k] = 0 <=> k \in Neon)
    BY <1>3
  <2>3. HighBit((xor[k] - 1 - borrow[k]) % Base) /\ ~ HighBit(xor[k]) <=> xor[k] = 0
    BY <2>1, <2>2, LaneHit
  <2> QED
    BY <2>2, <2>3
<1>9. CASE Neon = {}
  <2>1. \A k \in 0..(Lanes - 1) : Clean(k)
    <3> SUFFICES ASSUME NEW k \in 0..(Lanes - 1), NEW j \in 0..(k - 1), xor[j] = 0 PROVE FALSE
      OBVIOUS
    <3>1. j \in 0..(Lanes - 1)
      BY <1>2
    <3> QED
      BY <1>3, <1>9, <3>1
  <2>2. Swar = {}
    BY <1>8, <1>9, <2>1
  <2> QED
    BY <1>1, <1>9, <2>2
<1>10. CASE Neon # {}
  <2>1. Neon \subseteq Nat /\ Swar \subseteq Nat
    BY <1>2
  <2> DEFINE m == Min(Neon)
  <2>2. m \in Neon /\ \A k \in Neon : m <= k
    <3> HIDE DEF Neon
    <3> QED
      BY <1>10, <2>1, MinOf
  <2> HIDE DEF m
  <2>3. m \in 0..(Lanes - 1)
    BY <2>2
  <2>4. \A k \in 0..(Lanes - 1) : k <= m => Clean(k)
    <3> SUFFICES ASSUME NEW k \in 0..(Lanes - 1), k <= m, NEW j \in 0..(k - 1), xor[j] = 0
                 PROVE  FALSE
      OBVIOUS
    <3>1. j \in 0..(Lanes - 1) /\ j < m
      BY <1>2, <2>3
    <3>2. j \in Neon
      BY <1>3, <3>1
    <3> QED
      BY <2>2, <2>3, <3>1, <3>2
  <2>5. m \in Swar
    BY <1>2, <1>8, <2>2, <2>3, <2>4
  <2>6. \A k \in Swar : m <= k
    <3> SUFFICES ASSUME NEW k \in Swar, k < m PROVE FALSE
      BY <2>1, <2>3
    <3>1. k \in 0..(Lanes - 1) /\ k <= m
      BY <2>3
    <3>2. k \in Neon
      BY <1>8, <2>4, <3>1
    <3> QED
      BY <2>2, <2>3, <3>1, <3>2
  <2>7. Min(Swar) = m
    <3> HIDE DEF Swar
    <3> QED
      BY <2>1, <2>5, <2>6, MinIs
  <2> QED
    BY <1>1, <1>10, <2>5, <2>7 DEF m
<1> QED
  BY <1>9, <1>10

(* A number in words and the rest, and words before others.                *)
LEMMA WordOf ==
  ASSUME NEW L \in Nat \ {0}, NEW d \in Nat
  PROVE  \E r \in 0..(L - 1) : d = (d \div L) * L + r /\ d \div L \in Nat
<1>1. (d \div L) * L <= d /\ d < ((d \div L) + 1) * L /\ d \div L \in Nat
  OBVIOUS
<1> DEFINE r == d - (d \div L) * L
<1>2. (d \div L) * L \in Nat /\ ((d \div L) + 1) * L = (d \div L) * L + L
  BY <1>1
<1>3. r \in 0..(L - 1) /\ d = (d \div L) * L + r
  BY <1>1, <1>2
<1> QED
  BY <1>1, <1>3

(* A word begins behind the end of each word before it.                    *)
LEMMA WordsInOrder ==
  ASSUME NEW L \in Nat \ {0}, NEW a \in Nat, NEW b \in Nat, a < b
  PROVE  a * L \in Nat /\ b * L \in Nat /\ a * L + L <= b * L
<1>1. (a + 1) * L = a * L + L
  OBVIOUS
<1>2. PICK c \in Nat : b = (a + 1) + c
  <2>1. b - (a + 1) \in Nat /\ b = (a + 1) + (b - (a + 1))
    OBVIOUS
  <2> QED
    BY <2>1
<1>3. b * L = (a + 1) * L + c * L /\ c * L \in Nat /\ a * L \in Nat
  BY <1>2
<1> QED
  BY <1>1, <1>3

(* The places of a byte.                                                   *)
Places(byte, from, to) == {p \in from..(to - 1) : text[p] = byte}

(* FindByte, by the processor with NEON or without, finds the first place. *)
LEMMA FindByteFinds ==
  ASSUME TextOK, NEW byte \in Byte, NEW to \in 0..Length, NEW from \in 0..to
  PROVE  FindByte(byte, from, to) =
           IF Places(byte, from, to) = {} THEN None ELSE Min(Places(byte, from, to))
<1> DEFINE hits(n) == IF neon THEN NeonLanes(byte, from + n * Lanes)
                      ELSE SwarLanes(byte, from + n * Lanes)
           q     == (to - from) \div Lanes
           found == {n \in 0..(q - 1) : hits(n) # {}}
           rest  == {p \in (from + Lanes * q)..(to - 1) : text[p] = byte}
           all   == Places(byte, from, to)
<1>1. FindByte(byte, from, to) =
        IF found # {} THEN from + Min(found) * Lanes + Min(hits(Min(found)))
        ELSE IF rest # {} THEN Min(rest) ELSE None
  BY Zenon DEF FindByte
<1>2. Lanes \in Nat \ {0} /\ Length \in Nat /\ to \in Nat /\ from \in Nat /\ from <= to
  BY LineFilterAssumption DEF TextOK
<1>3. to - from \in Nat
  BY <1>2
<1>4. q \in Nat /\ q * Lanes \in Nat /\ from + q * Lanes <= to /\ to < from + q * Lanes + Lanes
  <2>1. PICK r \in 0..(Lanes - 1) : to - from = q * Lanes + r /\ q \in Nat
    BY <1>2, <1>3, WordOf
  <2>2. q * Lanes \in Nat
    BY <1>2, <2>1
  <2> HIDE DEF q
  <2> QED
    BY <1>2, <2>1, <2>2
<1>5. Lanes * q = q * Lanes
  <2> HIDE DEF q
  <2> QED
    BY <1>2, <1>4
<1> HIDE DEF q
<1>6. ASSUME NEW n \in 0..(q - 1)
      PROVE  /\ n * Lanes \in Nat /\ from + n * Lanes + Lanes <= from + q * Lanes
             /\ from + n * Lanes \in Nat
             /\ hits(n) # {} <=> NeonLanes(byte, from + n * Lanes) # {}
             /\ hits(n) # {} => Min(hits(n)) = Min(NeonLanes(byte, from + n * Lanes))
  <2>1. n \in Nat /\ n < q
    BY <1>4
  <2>2. n * Lanes \in Nat /\ n * Lanes + Lanes <= q * Lanes
    BY <1>2, <1>4, <2>1, WordsInOrder
  <2> DEFINE p == from + n * Lanes
  <2>3. p \in Nat /\ p + Lanes <= from + q * Lanes /\ p + Lanes <= Length
    <3> HIDE DEF q
    <3> QED
      BY <1>2, <1>4, <2>2
  <2> HIDE DEF p
  <2>4. /\ SwarLanes(byte, p) = {} <=> NeonLanes(byte, p) = {}
        /\ NeonLanes(byte, p) # {} => Min(SwarLanes(byte, p)) = Min(NeonLanes(byte, p))
    BY <2>3, LowestLane
  <2>5. /\ hits(n) # {} <=> NeonLanes(byte, p) # {}
        /\ hits(n) # {} => Min(hits(n)) = Min(NeonLanes(byte, p))
    BY <2>4, Zenon DEF p
  <2> QED
    BY <2>2, <2>3, <2>5 DEF p
<1> HIDE DEF hits
<1>7. ASSUME NEW x \in all, x < from + q * Lanes
      PROVE  \E j \in found : \E r \in NeonLanes(byte, from + j * Lanes) : x = from + j * Lanes + r
  <2> DEFINE d == x - from
             j == d \div Lanes
  <2>1. x \in from..(to - 1) /\ text[x] = byte
    BY DEF Places
  <2>2. d \in Nat /\ x = from + d
    BY <1>2, <2>1
  <2> HIDE DEF d
  <2>3. PICK r \in 0..(Lanes - 1) : d = j * Lanes + r /\ j \in Nat
    BY <1>2, <2>2, WordOf
  <2> HIDE DEF j
  <2>4. j < q
    <3> SUFFICES ASSUME ~ j < q PROVE FALSE
      OBVIOUS
    <3>1. j = q \/ q < j
      BY <1>4, <2>3
    <3>2. q * Lanes <= j * Lanes
      <4>1. CASE j = q
        BY <1>4, <4>1
      <4>2. CASE q < j
        <5>1. q * Lanes + Lanes <= j * Lanes /\ j * Lanes \in Nat
          BY <1>2, <1>4, <2>3, <4>2, WordsInOrder
        <5> QED
          BY <1>2, <1>4, <5>1
      <4> QED
        BY <3>1, <4>1, <4>2
    <3>3. j * Lanes \in Nat
      BY <1>2, <2>3
    <3> QED
      BY <1>2, <1>4, <1>7, <2>2, <2>3, <3>2, <3>3
  <2>5. j \in 0..(q - 1)
    BY <1>4, <2>3, <2>4
  <2>6. from + j * Lanes + r = x
    <3>1. j * Lanes \in Nat
      BY <1>2, <2>3
    <3> QED
      BY <1>2, <2>2, <2>3, <3>1
  <2>7. r \in NeonLanes(byte, from + j * Lanes)
    BY <2>1, <2>6 DEF NeonLanes
  <2>8. j \in found
    BY <1>6, <2>5, <2>7
  <2> QED
    BY <2>6, <2>7, <2>8
<1>8. CASE found # {}
  <2>1. found \subseteq Nat
    BY <1>4
  <2> DEFINE w == Min(found)
             lanes == NeonLanes(byte, from + w * Lanes)
             l == Min(lanes)
  <2>2. w \in found /\ \A n \in found : w <= n
    <3> HIDE DEF found
    <3> QED
      BY <1>8, <2>1, MinOf
  <2> HIDE DEF w
  <2>3. w \in 0..(q - 1) /\ w \in Nat
    BY <2>1, <2>2
  <2>4. lanes # {} /\ Min(hits(w)) = l
    BY <1>6, <2>2, <2>3
  <2>5. lanes \subseteq 0..(Lanes - 1) /\ lanes \subseteq Nat
    BY <1>2 DEF NeonLanes
  <2>6. l \in lanes /\ \A r \in lanes : l <= r
    <3> HIDE DEF lanes
    <3> QED
      BY <2>4, <2>5, MinOf
  <2>7. l \in 0..(Lanes - 1) /\ text[from + w * Lanes + l] = byte
    BY <2>6 DEF NeonLanes
  <2> HIDE DEF l, lanes
  <2> DEFINE m == from + w * Lanes + l
  <2>8. w * Lanes \in Nat /\ from + w * Lanes + Lanes <= from + q * Lanes
    BY <1>6, <2>3
  <2>9. m \in Nat /\ m >= from /\ m < from + q * Lanes /\ m <= to - 1
    BY <1>2, <1>4, <2>7, <2>8
  <2>10. m \in all
    BY <1>2, <2>7, <2>9 DEF Places
  <2>11. \A x \in all : m <= x
    <3> SUFFICES ASSUME NEW x \in all, ~ m <= x PROVE FALSE
      OBVIOUS
    <3>1. x \in Nat /\ x < m
      BY <1>2, <2>9 DEF Places
    <3>2. x < from + q * Lanes
      BY <1>2, <1>4, <2>9, <3>1
    <3>3. PICK j \in found : \E r \in NeonLanes(byte, from + j * Lanes) : x = from + j * Lanes + r
      BY <1>7, <3>2
    <3>4. PICK r \in NeonLanes(byte, from + j * Lanes) : x = from + j * Lanes + r
      BY <3>3
    <3>5. j \in Nat /\ w <= j
      BY <2>1, <2>2
    <3>6. r \in Nat /\ r < Lanes
      BY <1>2, <3>4 DEF NeonLanes
    <3>7. CASE j = w
      <4>1. r \in lanes /\ l <= r
        BY <2>6, <3>4, <3>7 DEF lanes, l
      <4> QED
        BY <1>2, <2>7, <2>8, <3>1, <3>4, <3>6, <3>7, <4>1
    <3>8. CASE w < j
      <4>1. w * Lanes + Lanes <= j * Lanes /\ j * Lanes \in Nat
        BY <1>2, <2>3, <3>5, <3>8, WordsInOrder
      <4> QED
        BY <1>2, <2>7, <2>8, <3>1, <3>4, <3>6, <4>1
    <3> QED
      BY <2>3, <3>5, <3>7, <3>8
  <2>12. Min(all) = m /\ all # {}
    <3>1. all \subseteq Nat
      BY <1>2 DEF Places
    <3> HIDE DEF all, m
    <3> QED
      BY <2>10, <2>11, <3>1, MinIs
  <2>13. FindByte(byte, from, to) = from + w * Lanes + Min(hits(w))
    BY <1>1, <1>8 DEF w
  <2> QED
    BY <2>4, <2>12, <2>13
<1>9. CASE found = {}
  <2>1. \A x \in all : x >= from + q * Lanes
    <3> SUFFICES ASSUME NEW x \in all, x < from + q * Lanes PROVE FALSE
      <4>1. \A x \in all : x \in Nat
        BY <1>2 DEF Places
      <4>2. from + q * Lanes \in Nat
        BY <1>2, <1>4
      <4> QED
        BY <4>1, <4>2
    <3> QED
      BY <1>7, <1>9
  <2>2. \A x : x \in rest <=> x \in all
    <3>1. ASSUME NEW x \in rest PROVE x \in all
      BY <1>2, <1>4, <1>5 DEF Places
    <3>2. ASSUME NEW x \in all PROVE x \in rest
      BY <1>2, <1>4, <1>5, <2>1 DEF Places
    <3> QED
      BY <3>1, <3>2
  <2>3. rest = all
    BY <2>2
  <2> QED
    BY <1>1, <1>9, <2>3
<1> QED
  BY <1>8, <1>9

-----------------------------------------------------------------------------
(* The search for a literal (find).                                        *)

(* A step of Find at p, with f for the search further on.                  *)
SearchAt(f, needle, to, p) ==
  IF p > to - Len(needle) THEN None
  ELSE LET c == FindByte(needle[1], p, to) IN
       IF c = None \/ c > to - Len(needle) THEN None
       ELSE IF At(needle, c) THEN c ELSE f[c + 1]

(* The candidate of a step: the next place of the first byte.              *)
LEMMA Candidate ==
  ASSUME TextOK, NEW needle \in Seq(Byte) \ {<<>>}, NEW to \in 0..Length, NEW from \in 0..to,
         NEW p \in from..(to + 1), ~ p > to - Len(needle)
  PROVE  \/ /\ FindByte(needle[1], p, to) = None
            /\ \A q \in p..(to - Len(needle)) : ~ At(needle, q)
         \/ /\ FindByte(needle[1], p, to) \in p..(to - 1)
            /\ FindByte(needle[1], p, to) # None
            /\ \A q \in p..(to - Len(needle)) : At(needle, q) => FindByte(needle[1], p, to) <= q
<1> DEFINE all == Places(needle[1], p, to)
           c   == FindByte(needle[1], p, to)
<1>1. Length \in Nat /\ to \in Nat /\ from \in Nat /\ from <= to
  BY DEF TextOK
<1>2. Len(needle) \in Nat /\ Len(needle) >= 1 /\ needle[1] \in Byte
  OBVIOUS
<1>3. p \in 0..to
  BY <1>1, <1>2
<1>4. c = IF all = {} THEN None ELSE Min(all)
  BY <1>2, <1>3, FindByteFinds
<1>5. ASSUME NEW q \in p..(to - Len(needle)), At(needle, q) PROVE q \in all
  <2>1. q \in p..(to - 1)
    BY <1>1, <1>2, <1>3
  <2>2. 1 \in DOMAIN needle
    BY <1>2
  <2>3. text[q + 1 - 1] = needle[1]
    BY <1>5, <2>2 DEF At
  <2>4. q + 1 - 1 = q
    BY <1>3
  <2> QED
    BY <2>1, <2>3, <2>4 DEF Places
<1>6. CASE all = {}
  BY <1>4, <1>5, <1>6
<1>7. CASE all # {}
  <2>1. all \subseteq Nat /\ all \subseteq p..(to - 1)
    BY <1>1, <1>3 DEF Places
  <2>2. Min(all) \in all /\ \A q \in all : Min(all) <= q
    <3> HIDE DEF all
    <3> QED
      BY <1>7, <2>1, MinOf
  <2>3. c = Min(all)
    BY <1>4, <1>7
  <2>4. c \in p..(to - 1) /\ c # None
    BY <1>3, <2>1, <2>2, <2>3 DEF None
  <2> QED
    BY <1>5, <2>2, <2>3, <2>4
<1> QED
  BY <1>6, <1>7

(* Find finds the first place of the needle.                               *)
FirstOf(S) == IF S = {} THEN None ELSE Min(S)

(* Find finds the first place of the needle: the candidates that fail hide *)
(* no hit, for the search goes on one byte behind them and not behind the  *)
(* place where the comparison failed.                                      *)
LEMMA FindFinds ==
  ASSUME TextOK, NEW needle \in Seq(Byte) \ {<<>>}, NEW to \in 0..Length, NEW from \in 0..to
  PROVE  Find(needle, from, to) = FirstOf({p \in from..(to - Len(needle)) : At(needle, p)})
<1> DEFINE last == to - Len(needle)
           D == from..(to + 1)
           rank == [p \in D |-> (to + 1) - p]
           G == [p \in D |-> [f \in [D -> Int] |-> SearchAt(f, needle, to, p)]]
           Body(f) == [p \in D |-> SearchAt(f, needle, to, p)]
           search == CHOOSE g : g = Body(g)
           hits(p) == {q \in p..last : At(needle, q)}
<1>1. Length \in Nat /\ to \in Nat /\ from \in Nat /\ from <= to
  BY DEF TextOK
<1>2. Len(needle) \in Nat /\ Len(needle) >= 1
  OBVIOUS
<1>3. Find(needle, from, to) = search[from]
  BY Zenon DEF Find, SearchAt
<1>4. rank \in [D -> 0..(to + 1)] /\ to + 1 \in Nat /\ rank \in [D -> Nat]
  BY <1>1
<1>5. \A p, q \in D : rank[q] < rank[p] <=> q > p
  BY <1>1
<1>6. ASSUME NEW p \in D, NEW f
      PROVE  \/ SearchAt(f, needle, to, p) = None
             \/ /\ At(needle, SearchAt(f, needle, to, p))
                /\ SearchAt(f, needle, to, p) \in Int
             \/ \E c \in D : c \in p..last /\ c + 1 \in D /\ SearchAt(f, needle, to, p) = f[c + 1]
  <2> DEFINE c == FindByte(needle[1], p, to)
  <2>1. CASE p > last
    BY <2>1 DEF SearchAt
  <2>2. CASE ~ p > last
    <3>1. c = None \/ c \in p..(to - 1)
      BY <2>2, Candidate
    <3>2. SearchAt(f, needle, to, p) =
            IF c = None \/ c > last THEN None ELSE IF At(needle, c) THEN c ELSE f[c + 1]
      BY <2>2 DEF SearchAt
    <3> HIDE DEF c
    <3>3. CASE c = None \/ c > last
      BY <3>2, <3>3
    <3>4. CASE ~ (c = None \/ c > last)
      <4>1. c \in p..last /\ c \in D /\ c + 1 \in D /\ c \in Int
        BY <1>1, <1>2, <3>1, <3>4
      <4>2. CASE At(needle, c)
        BY <3>2, <3>4, <4>1, <4>2
      <4>3. CASE ~ At(needle, c)
        BY <3>2, <3>4, <4>1, <4>3
      <4> QED
        BY <4>2, <4>3
    <3> QED
      BY <3>3, <3>4
  <2> QED
    BY <2>1, <2>2
<1>7. ASSUME NEW p \in D, NEW f \in [D -> Int] PROVE SearchAt(f, needle, to, p) \in Int
  BY <1>6, <1>7 DEF None
<1>8. G \in [D -> [[D -> Int] -> Int]]
  BY <1>7
<1>9. ASSUME NEW p \in D, NEW f \in [D -> Int], NEW g \in [D -> Int],
             \A q \in D : rank[q] < rank[p] => f[q] = g[q]
      PROVE  G[p][f] = G[p][g]
  <2> DEFINE c == FindByte(needle[1], p, to)
  <2>1. CASE p > last
    BY <2>1 DEF SearchAt
  <2>2. CASE ~ p > last
    <3>1. c = None \/ c \in p..(to - 1)
      BY <2>2, Candidate
    <3>2. c # None /\ ~ c > last => f[c + 1] = g[c + 1]
      <4> HIDE DEF c
      <4>1. c # None => c + 1 \in D /\ c + 1 > p
        <5> SUFFICES ASSUME c # None PROVE c + 1 \in D /\ c + 1 > p
          OBVIOUS
        <5>1. c \in p..(to - 1) /\ p \in Int /\ p >= from
          BY <1>1, <3>1
        <5> QED
          BY <1>1, <5>1
      <4> HIDE DEF D, rank
      <4> QED
        BY <1>5, <1>9, <4>1
    <3>3. SearchAt(f, needle, to, p) = SearchAt(g, needle, to, p)
      BY <3>2 DEF SearchAt
    <3> QED
      BY <3>3
  <2> QED
    BY <2>1, <2>2
<1>10. ReadsLower(D, Int, rank, G)
  BY <1>9 DEF ReadsLower
<1>11. PICK f \in [D -> Int] : Solves(f, D, G)
  <2>1. Int # {}
    OBVIOUS
  <2> HIDE DEF D, rank, G
  <2> QED
    BY <1>4, <1>8, <1>10, <2>1, Solution
<1>12. \A p \in D : f[p] = SearchAt(f, needle, to, p)
  BY <1>11 DEF Solves
<1>13. f = Body(f)
  BY <1>12
<1>14. search = Body(search)
  <2>1. \E g : g = Body(g)
    BY <1>13
  <2> HIDE DEF Body
  <2> QED
    BY <2>1, Zenon
<1> HIDE DEF search
<1>15. \A p \in D : search[p] = SearchAt(search, needle, to, p)
  BY <1>14
<1> DEFINE Good == {p \in D : search[p] = FirstOf(hits(p))}
<1>16. ASSUME NEW p \in D, \A q \in D : rank[q] < rank[p] => q \in Good
       PROVE  p \in Good
  <2> DEFINE c == FindByte(needle[1], p, to)
  <2>1. search[p] = SearchAt(search, needle, to, p)
    BY <1>15
  <2>2. CASE p > last
    <3>1. hits(p) = {}
      BY <1>1, <1>2, <2>2
    <3> QED
      BY <2>1, <2>2, <3>1 DEF SearchAt, FirstOf
  <2>3. CASE ~ p > last
    <3>1. \/ c = None /\ \A q \in p..last : ~ At(needle, q)
          \/ c \in p..(to - 1) /\ c # None /\ \A q \in p..last : At(needle, q) => c <= q
      BY <2>3, Candidate
    <3>2. search[p] =
            IF c = None \/ c > last THEN None ELSE IF At(needle, c) THEN c ELSE search[c + 1]
      BY <2>1, <2>3 DEF SearchAt
    <3> HIDE DEF c
    <3>3. CASE c = None \/ c > last
      <4>1. hits(p) = {}
        BY <1>1, <1>2, <3>1, <3>3
      <4> QED
        BY <3>2, <3>3, <4>1 DEF FirstOf
    <3>4. CASE ~ (c = None \/ c > last)
      <4>1. c \in p..last /\ c \in Nat /\ p \in Nat /\ last \in Int
        BY <1>1, <1>2, <3>1, <3>4
      <4>2. CASE At(needle, c)
        <5>1. c \in hits(p) /\ \A q \in hits(p) : c <= q
          BY <3>1, <3>4, <4>1, <4>2
        <5>2. hits(p) \subseteq Nat
          BY <4>1
        <5>3. Min(hits(p)) = c
          <6> HIDE DEF hits
          <6> QED
            BY <5>1, <5>2, MinIs
        <5> QED
          BY <3>2, <3>4, <4>2, <5>1, <5>3 DEF FirstOf
      <4>3. CASE ~ At(needle, c)
        <5>1. c + 1 \in D /\ rank[c + 1] < rank[p]
          BY <1>1, <1>2, <4>1
        <5>2. search[c + 1] = FirstOf(hits(c + 1))
          BY <1>16, <5>1
        <5>3. \A q : q \in hits(p) <=> q \in hits(c + 1)
          <6>1. ASSUME NEW q, q \in hits(p) PROVE q \in hits(c + 1)
            <7>1. q \in p..last /\ At(needle, q)
              BY <6>1
            <7>2. c <= q /\ q # c
              BY <3>1, <3>4, <4>3, <7>1
            <7>3. q \in (c + 1)..last
              BY <4>1, <7>1, <7>2
            <7> QED
              BY <7>1, <7>3
          <6>2. ASSUME NEW q, q \in hits(c + 1) PROVE q \in hits(p)
            BY <4>1, <6>2
          <6> QED
            BY <6>1, <6>2
        <5>4. hits(p) = hits(c + 1)
          BY <5>3
        <5> QED
          BY <3>2, <3>4, <4>3, <5>2, <5>4
      <4> QED
        BY <4>2, <4>3
    <3> QED
      BY <3>3, <3>4
  <2> QED
    BY <2>2, <2>3
<1>17. \A p \in D : p \in Good
  <2> HIDE DEF D, rank, Good
  <2> QED
    BY <1>4, <1>16, ByRank
<1>18. from \in D
  BY <1>1
<1> QED
  BY <1>3, <1>17, <1>18

(* The maximum of a nonempty set of numbers up to b is its greatest        *)
(* element.                                                                *)
LEMMA MaxOf ==
  ASSUME NEW a \in Nat, NEW b \in Nat, NEW S, S \subseteq a..b, S # {}
  PROVE  Max(S) \in S /\ \A x \in S : x <= Max(S)
<1> DEFINE T == {b - x : x \in S}
<1>0. \A x \in S : x \in Nat /\ b - x \in Nat
  OBVIOUS
<1>1. T \subseteq Nat /\ T # {}
  BY <1>0
<1>2. PICK t \in T : \A u \in T : u >= t
  <2> HIDE DEF T
  <2> QED
    BY <1>1, Least
<1>3. PICK m \in S : t = b - m
  BY <1>2
<1>4. \A x \in S : m >= x
  BY <1>2, <1>3
<1>5. Max(S) \in S /\ \A x \in S : Max(S) >= x
  BY <1>4, Zenon DEF Max
<1> QED
  BY <1>5

-----------------------------------------------------------------------------
(* Literals.                                                               *)

(* Whether a regex matches at p, and where it does.                        *)
MatchAt(re, p) ==
  \A k \in DOMAIN re.needle :
    IF re.ignoreCase THEN Fold[text[p + k - 1]] = Fold[re.needle[k]]
                     ELSE text[p + k - 1] = re.needle[k]
HitsOf(re, from, to) == {p \in from..(to - Len(re.needle)) : MatchAt(re, p)}

(* What a literal is: it is not empty, and its case is ignored or is not.  *)
LEMMA RegexParts ==
  ASSUME NEW re \in Regexes
  PROVE  /\ re.needle \in Seq(Byte) \ {<<>>}
         /\ re.ignoreCase \in BOOLEAN
         /\ Len(re.needle) \in Nat /\ Len(re.needle) >= 1
         /\ DOMAIN re.needle = 1..Len(re.needle)
<1>1. re.needle \in Seq(Byte) \ {<<>>} /\ re.ignoreCase \in BOOLEAN
  BY LineFilterAssumption DEF Regexes
<1> QED
  BY <1>1

(* A search finds the first place, whichever of the two it is.             *)
LEMMA SearchFinds ==
  ASSUME TextOK, NEW re \in Regexes, NEW to \in 0..Length, NEW from \in 0..to
  PROVE  Search(re, from, to) = FirstOf(HitsOf(re, from, to))
<1>1. CASE re.ignoreCase
  <2>1. HitsOf(re, from, to) = {p \in from..(to - Len(re.needle)) :
                  \A k \in DOMAIN re.needle : Fold[text[p + k - 1]] = Fold[re.needle[k]]}
    BY <1>1 DEF HitsOf, MatchAt
  <2>2. Search(re, from, to) = MetaFind(re.needle, from, to)
    BY <1>1 DEF Search
  <2> QED
    BY <2>1, <2>2, Zenon DEF MetaFind, FirstOf
<1>2. CASE ~ re.ignoreCase
  <2>1. HitsOf(re, from, to) = {p \in from..(to - Len(re.needle)) : At(re.needle, p)}
    BY <1>2 DEF HitsOf, MatchAt, At
  <2>2. Search(re, from, to) = Find(re.needle, from, to)
    BY <1>2 DEF Search
  <2>3. re.needle \in Seq(Byte) \ {<<>>}
    BY RegexParts
  <2> QED
    BY <2>1, <2>2, <2>3, FindFinds
<1> QED
  BY <1>1, <1>2

(* Occurs asks whether there is a place where the regex matches.           *)
LEMMA OccursHit ==
  ASSUME NEW re, NEW view
  PROVE  Occurs(re, view) <=> HitsOf(re, view.from, view.to) # {}
<1>1. Occurs(re, view) <=> \E p \in view.from..(view.to - Len(re.needle)) : MatchAt(re, p)
  BY Zenon DEF Occurs, MatchAt
<1> QED
  BY <1>1 DEF HitsOf

(* The first hit, if there is one.                                         *)
LEMMA FirstHit ==
  ASSUME TextOK, NEW re \in Regexes, NEW to \in 0..Length, NEW from \in 0..to
  PROVE  \/ Search(re, from, to) = None /\ HitsOf(re, from, to) = {}
         \/ /\ Search(re, from, to) # None
            /\ Search(re, from, to) \in HitsOf(re, from, to)
            /\ \A p \in HitsOf(re, from, to) : Search(re, from, to) <= p
<1>1. Search(re, from, to) = FirstOf(HitsOf(re, from, to))
  BY SearchFinds
<1>2. CASE HitsOf(re, from, to) = {}
  BY <1>1, <1>2 DEF FirstOf
<1>3. CASE HitsOf(re, from, to) # {}
  <2>1. HitsOf(re, from, to) \subseteq Nat
    BY DEF HitsOf, TextOK
  <2>2. /\ Min(HitsOf(re, from, to)) \in HitsOf(re, from, to)
        /\ \A p \in HitsOf(re, from, to) : Min(HitsOf(re, from, to)) <= p
    BY <1>3, <2>1, MinOf
  <2>3. Search(re, from, to) = Min(HitsOf(re, from, to))
    BY <1>1, <1>3 DEF FirstOf
  <2>4. \A n \in Nat : n # None
    BY DEF None
  <2> QED
    BY <2>1, <2>2, <2>3, <2>4
<1> QED
  BY <1>2, <1>3

(* The commands that look at a view find the literal just if it occurs.    *)
LEMMA MatchesIfOccurs ==
  ASSUME TextOK, NEW re \in Regexes, NEW to \in 0..Length, NEW from \in 0..to
  PROVE  Matches(re, Span(from, to)) <=> Occurs(re, Span(from, to))
<1>1. Span(from, to).from = from /\ Span(from, to).to = to
  BY DEF Span
<1>2. Matches(re, Span(from, to)) <=> Search(re, from, to) # None
  BY <1>1 DEF Matches
<1>3. Occurs(re, Span(from, to)) <=> HitsOf(re, from, to) # {}
  BY <1>1, OccursHit
<1>4. Search(re, from, to) # None <=> HitsOf(re, from, to) # {}
  BY FirstHit
<1> QED
  BY <1>2, <1>3, <1>4

(* A literal without a newline does not match one, whatever case is        *)
(* ignored.                                                                *)
LEMMA NoNewlineInHit ==
  ASSUME TextOK, NEW re \in Regexes, IsPlain(re), NEW to \in 0..Length, NEW from \in 0..to,
         NEW p \in HitsOf(re, from, to)
  PROVE  \A q \in p..(p + Len(re.needle) - 1) : text[q] # NL
<1> SUFFICES ASSUME NEW q \in p..(p + Len(re.needle) - 1), text[q] = NL PROVE FALSE
  OBVIOUS
<1>1. /\ re.needle \in Seq(Byte) /\ re.ignoreCase \in BOOLEAN
      /\ Len(re.needle) \in Nat /\ DOMAIN re.needle = 1..Len(re.needle)
  BY RegexParts
<1>2. p \in from..(to - Len(re.needle)) /\ MatchAt(re, p) /\ Length \in Nat
  BY DEF HitsOf, TextOK
<1> DEFINE k == q - p + 1
<1>3. k \in DOMAIN re.needle /\ p + k - 1 = q
  BY <1>1, <1>2
<1> HIDE DEF k
<1>4. re.needle[k] \in Byte /\ re.needle[k] # NL
  BY <1>1, <1>3 DEF IsPlain
<1>5. IF re.ignoreCase THEN Fold[NL] = Fold[re.needle[k]] ELSE NL = re.needle[k]
  BY <1>2, <1>3 DEF MatchAt
<1>6. Fold[re.needle[k]] = Fold[NL] => re.needle[k] = NL
  BY <1>4, LineFilterAssumption
<1> QED
  BY <1>4, <1>5, <1>6

-----------------------------------------------------------------------------
(* Newlines.                                                               *)

(* FindByte gives the first newline, or None if there is none.             *)
LEMMA NextNewline ==
  ASSUME TextOK, NEW to \in 0..Length, NEW from \in 0..to
  PROVE  \/ /\ FindByte(NL, from, to) = None
            /\ \A q \in from..(to - 1) : text[q] # NL
         \/ /\ FindByte(NL, from, to) \in from..(to - 1) /\ FindByte(NL, from, to) # None
            /\ text[FindByte(NL, from, to)] = NL
            /\ \A q \in from..(FindByte(NL, from, to) - 1) : text[q] # NL
<1>1. FindByte(NL, from, to) =
        IF Places(NL, from, to) = {} THEN None ELSE Min(Places(NL, from, to))
  BY FindByteFinds, LineFilterAssumption
<1>2. CASE Places(NL, from, to) = {}
  BY <1>1, <1>2 DEF Places
<1>3. CASE Places(NL, from, to) # {}
  <2>1. Places(NL, from, to) \subseteq Nat
    BY DEF Places, TextOK
  <2> DEFINE m == Min(Places(NL, from, to))
  <2>2. m \in Places(NL, from, to) /\ \A q \in Places(NL, from, to) : m <= q
    BY <1>3, <2>1, MinOf
  <2>3. FindByte(NL, from, to) = m
    BY <1>1, <1>3
  <2> HIDE DEF m
  <2>4. m \in from..(to - 1) /\ text[m] = NL /\ m # None
    BY <2>2 DEF Places, None, TextOK
  <2>5. \A q \in from..(m - 1) : text[q] # NL
    <3> SUFFICES ASSUME NEW q \in from..(m - 1), text[q] = NL PROVE FALSE
      OBVIOUS
    <3>1. q \in from..(to - 1) /\ q < m
      BY <2>4 DEF TextOK
    <3>2. q \in Places(NL, from, to)
      BY <3>1 DEF Places
    <3> QED
      BY <2>2, <2>4, <3>1, <3>2 DEF TextOK
  <2> QED
    BY <2>3, <2>4, <2>5
<1> QED
  BY <1>2, <1>3

(* LastNewline gives the last newline before to, or None if there is none. *)
LEMMA NewlineBefore ==
  ASSUME TextOK, NEW to \in 0..Length, NEW from \in 0..to
  PROVE  \/ LastNewline(from, to) = None /\ \A q \in from..(to - 1) : text[q] # NL
         \/ /\ LastNewline(from, to) \in from..(to - 1) /\ LastNewline(from, to) # None
            /\ text[LastNewline(from, to)] = NL
            /\ \A q \in (LastNewline(from, to) + 1)..(to - 1) : text[q] # NL
<1>1. LastNewline(from, to) = IF Places(NL, from, to) = {} THEN None ELSE Max(Places(NL, from, to))
  BY DEF LastNewline, Places
<1>2. CASE Places(NL, from, to) = {}
  BY <1>1, <1>2 DEF Places
<1>3. CASE Places(NL, from, to) # {}
  <2>1. Places(NL, from, to) \subseteq from..to /\ from \in Nat /\ to \in Nat
    BY DEF Places, TextOK
  <2> DEFINE m == Max(Places(NL, from, to))
  <2>2. m \in Places(NL, from, to) /\ \A q \in Places(NL, from, to) : q <= m
    BY <1>3, <2>1, MaxOf
  <2>3. LastNewline(from, to) = m
    BY <1>1, <1>3
  <2> HIDE DEF m
  <2>4. m \in from..(to - 1) /\ text[m] = NL /\ m # None
    BY <2>2 DEF Places, None, TextOK
  <2>5. \A q \in (m + 1)..(to - 1) : text[q] # NL
    <3> SUFFICES ASSUME NEW q \in (m + 1)..(to - 1), text[q] = NL PROVE FALSE
      OBVIOUS
    <3>1. q \in from..(to - 1) /\ q > m
      BY <2>4 DEF TextOK
    <3>2. q \in Places(NL, from, to)
      BY <3>1 DEF Places
    <3> QED
      BY <2>2, <2>4, <3>1, <3>2 DEF TextOK
  <2> QED
    BY <2>3, <2>4, <2>5
<1> QED
  BY <1>2, <1>3

-----------------------------------------------------------------------------
(* Views.                                                                  *)

(* The views: slices of the input.                                         *)
Views == {v \in [from : 0..Length, to : 0..Length] : v.from <= v.to}

(* Two places in order make a view.                                        *)
LEMMA SpanIsView ==
  ASSUME NEW to \in 0..Length, NEW from \in 0..to, TextOK
  PROVE  Span(from, to) \in Views /\ Span(from, to).from = from /\ Span(from, to).to = to
<1>1. from \in 0..Length /\ from <= to
  BY DEF TextOK
<1> QED
  BY <1>1 DEF Span, Views

(* A view is the slice between its two places.                             *)
LEMMA ViewIsSpan ==
  ASSUME NEW v \in Views, TextOK
  PROVE  v = Span(v.from, v.to) /\ v.to \in 0..Length /\ v.from \in 0..v.to
<1>1. v \in [from : 0..Length, to : 0..Length] /\ v.from <= v.to
  BY DEF Views
<1> QED
  BY <1>1 DEF Span, TextOK

-----------------------------------------------------------------------------
(* Splitting.                                                              *)

(* A match of a splitter takes at least a byte.                            *)
LEMMA SplitEndRange ==
  ASSUME TextOK, NEW x \in Splitters, NEW to \in 0..Length, NEW q \in 0..(to - 1)
  PROVE  SplitEnd(x, q, to) = None \/ SplitEnd(x, q, to) \in (q + 1)..to
<1> DEFINE newlines == {r \in q..(to - 1) : text[r] = NL}
<1>1. Length \in Nat /\ to \in Nat /\ q \in Nat /\ q < to
  BY DEF TextOK
<1>2. newlines \subseteq q..(to - 1) /\ newlines \subseteq Nat /\ to - 1 \in Nat
  BY <1>1
<1>3. newlines # {} => Min(newlines) \in newlines /\ Max(newlines) \in newlines
  <2> HIDE DEF newlines
  <2> QED
    BY <1>1, <1>2, MinOf, MaxOf
<1>4. x.class \in {"dot", "notNewline", "none"}
  BY LineFilterAssumption
<1>5. CASE x.class = "none"
  <2>1. SplitEnd(x, q, to) = IF q \in newlines THEN q + 1 ELSE None
    BY <1>5 DEF SplitEnd
  <2> HIDE DEF newlines
  <2>2. q + 1 \in (q + 1)..to
    BY <1>1
  <2> QED
    BY <2>1, <2>2
<1>6. CASE x.class = "dot" /\ x.dotAll
  <2>1. SplitEnd(x, q, to) =
          IF x.optional THEN to ELSE IF newlines = {} THEN None ELSE Max(newlines) + 1
    BY <1>6 DEF SplitEnd
  <2>2. to \in (q + 1)..to
    BY <1>1
  <2>3. \A r \in newlines : r + 1 \in (q + 1)..to
    BY <1>1
  <2> HIDE DEF newlines
  <2> QED
    BY <1>3, <2>1, <2>2, <2>3
<1>7. CASE x.class # "none" /\ ~ (x.class = "dot" /\ x.dotAll)
  <2>1. SplitEnd(x, q, to) =
          IF newlines # {} THEN Min(newlines) + 1 ELSE IF x.optional THEN to ELSE None
    BY <1>7 DEF SplitEnd
  <2>2. to \in (q + 1)..to
    BY <1>1
  <2>3. \A r \in newlines : r + 1 \in (q + 1)..to
    BY <1>1
  <2> HIDE DEF newlines
  <2> QED
    BY <1>3, <2>1, <2>2, <2>3
<1> QED
  BY <1>5, <1>6, <1>7

(* The places from p on where the splitter matches.                        *)
Starts(x, p, to) == {q \in p..(to - 1) : SplitEnd(x, q, to) # None}

(* A step of Split at p, with f for the rest of the view.                  *)
SplitAt(f, x, p, to) ==
  IF Starts(x, p, to) = {} THEN <<>>
  ELSE <<Span(Min(Starts(x, p, to)), SplitEnd(x, Min(Starts(x, p, to)), to))>>
       \o f[SplitEnd(x, Min(Starts(x, p, to)), to)]

(* The next record, if there is one.                                       *)
LEMMA NextRecord ==
  ASSUME TextOK, NEW x \in Splitters, NEW to \in 0..Length, NEW p \in 0..to,
         Starts(x, p, to) # {}
  PROVE  /\ Min(Starts(x, p, to)) \in Starts(x, p, to)
         /\ Min(Starts(x, p, to)) \in p..(to - 1)
         /\ SplitEnd(x, Min(Starts(x, p, to)), to) \in (p + 1)..to
         /\ Span(Min(Starts(x, p, to)), SplitEnd(x, Min(Starts(x, p, to)), to)) \in Views
<1> DEFINE m == Min(Starts(x, p, to))
           e == SplitEnd(x, m, to)
<1>1. Starts(x, p, to) \subseteq Nat /\ Length \in Nat /\ to \in Nat /\ p \in Nat
  BY DEF Starts, TextOK
<1>2. m \in Starts(x, p, to)
  BY <1>1, MinOf
<1>3. m \in p..(to - 1) /\ e # None
  BY <1>2 DEF Starts
<1> HIDE DEF m
<1>4. e \in (m + 1)..to
  BY <1>1, <1>3, SplitEndRange
<1> HIDE DEF e
<1>5. e \in 0..Length /\ m \in 0..e /\ e \in (p + 1)..to
  BY <1>1, <1>3, <1>4
<1>6. Span(m, e) \in Views
  BY <1>5, SpanIsView
<1> QED
  BY <1>2, <1>3, <1>5, <1>6 DEF m, e

(* The recursion inside Split, for all ends of a view.                     *)
Splitting(x, from, to) == CHOOSE g : g = [p \in from..to |-> SplitAt(g, x, p, to)]

(* Split, one record at a time: what follows the first record is what      *)
(* splitting the rest of the view gives.                                   *)
LEMMA SplitFound ==
  ASSUME TextOK, NEW x \in Splitters, NEW to \in 0..Length
  PROVE  \E f \in [0..to -> Seq(Views)] :
           \A p \in 0..to : f[p] = SplitAt(f, x, p, to) /\ Split(x, Span(p, to)) = f[p]
<1> DEFINE D == 0..to
           S == Seq(Views)
           rank == [p \in D |-> to - p]
           G == [p \in D |-> [f \in [D -> S] |-> SplitAt(f, x, p, to)]]
<1>1. Length \in Nat /\ to \in Nat
  BY DEF TextOK
<1>2. rank \in [D -> 0..to] /\ S # {} /\ \A p, q \in D : rank[q] < rank[p] <=> q > p
  <2>1. S # {}
    BY EmptySeq
  <2> HIDE DEF S
  <2> QED
    BY <1>1, <2>1
<1>3. ASSUME NEW p \in D, Starts(x, p, to) # {}
      PROVE  /\ SplitEnd(x, Min(Starts(x, p, to)), to) \in D
             /\ SplitEnd(x, Min(Starts(x, p, to)), to) > p
             /\ SplitEnd(x, Min(Starts(x, p, to)), to) \in Nat
  <2>1. SplitEnd(x, Min(Starts(x, p, to)), to) \in (p + 1)..to
    BY <1>3, NextRecord
  <2> QED
    BY <1>1, <2>1
<1>4. ASSUME NEW p \in D, NEW f \in [D -> S] PROVE SplitAt(f, x, p, to) \in S
  <2>1. CASE Starts(x, p, to) = {}
    <3>1. <<>> \in S
      BY EmptySeq
    <3> QED
      BY <2>1, <3>1 DEF SplitAt
  <2>2. CASE Starts(x, p, to) # {}
    <3> DEFINE m == Min(Starts(x, p, to))
               e == SplitEnd(x, m, to)
    <3>1. Span(m, e) \in Views /\ e \in D
      BY <1>3, <2>2, NextRecord
    <3>2. SplitAt(f, x, p, to) = <<Span(m, e)>> \o f[e]
      BY <2>2 DEF SplitAt
    <3> HIDE DEF m, e
    <3>3. f[e] \in Seq(Views) /\ <<Span(m, e)>> \in Seq(Views)
      BY <3>1
    <3>4. <<Span(m, e)>> \o f[e] \in Seq(Views)
      BY <3>3, ConcatProperties
    <3> QED
      BY <3>2, <3>4
  <2> QED
    BY <2>1, <2>2
<1>5. G \in [D -> [[D -> S] -> S]]
  <2> HIDE DEF S
  <2> QED
    BY <1>4
<1>6. ASSUME NEW p \in D, NEW f, NEW g,
             \A q \in D : q > p => f[q] = g[q]
      PROVE  SplitAt(f, x, p, to) = SplitAt(g, x, p, to)
  BY <1>3, <1>6 DEF SplitAt
<1>7. ASSUME NEW p \in D, NEW f \in [D -> S], NEW g \in [D -> S],
             \A q \in D : rank[q] < rank[p] => f[q] = g[q]
      PROVE  G[p][f] = G[p][g]
  <2>1. \A q \in D : q > p => f[q] = g[q]
    <3> HIDE DEF D, rank
    <3> QED
      BY <1>2, <1>7
  <2>2. SplitAt(f, x, p, to) = SplitAt(g, x, p, to)
    BY <1>6, <2>1
  <2> HIDE DEF S
  <2> QED
    BY <2>2
<1>8. ReadsLower(D, S, rank, G)
  <2> HIDE DEF D, S, rank, G
  <2> QED
    BY <1>7 DEF ReadsLower
<1>9. PICK f \in [D -> S] : Solves(f, D, G)
  <2> HIDE DEF D, S, rank, G
  <2> QED
    BY <1>1, <1>2, <1>5, <1>8, Solution
<1>10. \A p \in D : f[p] = SplitAt(f, x, p, to)
  <2> HIDE DEF S
  <2> QED
    BY <1>9 DEF Solves
<1>11. ASSUME NEW a \in D PROVE Split(x, Span(a, to)) = f[a]
  <2> DEFINE Part == a..to
             Body(g) == [p \in Part |-> SplitAt(g, x, p, to)]
             from == Splitting(x, a, to)
             whole == [p \in Part |-> f[p]]
             partRank == [p \in Part |-> to - p]
             Good == {p \in Part : from[p] = f[p]}
  <2>1. Split(x, Span(a, to)) = from[a]
    <3>1. \A v : Split(x, v) = Splitting(x, v.from, v.to)[v.from]
      BY Zenon DEF Split, Splitting, SplitAt, Starts
    <3>2. Span(a, to).from = a /\ Span(a, to).to = to
      BY DEF Span
    <3> QED
      BY <3>1, <3>2, Zenon
  <2>2. Part \subseteq D /\ \A p \in Part : \A q \in D : q > p => q \in Part
    BY <1>1
  <2>3. \A p \in Part : whole[p] = SplitAt(whole, x, p, to)
    <3> SUFFICES ASSUME NEW p \in Part PROVE f[p] = SplitAt(whole, x, p, to)
      OBVIOUS
    <3>1. \A q \in D : q > p => f[q] = whole[q]
      BY <2>2
    <3>2. SplitAt(f, x, p, to) = SplitAt(whole, x, p, to)
      BY <1>6, <2>2, <3>1
    <3> QED
      BY <1>10, <2>2, <3>2
  <2>4. whole = Body(whole)
    BY <2>3
  <2>5. from = Body(from)
    <3>1. \E g : g = Body(g)
      BY <2>4
    <3>2. from = CHOOSE g : g = Body(g)
      BY DEF Splitting
    <3> HIDE DEF Body, from
    <3> QED
      BY <3>1, <3>2, Zenon
  <2> HIDE DEF from
  <2>6. \A p \in Part : from[p] = SplitAt(from, x, p, to)
    BY <2>5
  <2>7. partRank \in [Part -> Nat] /\ \A p, q \in Part : partRank[q] < partRank[p] <=> q > p
    BY <1>1
  <2>8. ASSUME NEW p \in Part, \A q \in Part : partRank[q] < partRank[p] => q \in Good
        PROVE  p \in Good
    <3>1. \A q \in D : q > p => from[q] = f[q]
      BY <2>2, <2>7, <2>8
    <3>2. SplitAt(from, x, p, to) = SplitAt(f, x, p, to)
      BY <1>6, <2>2, <3>1
    <3> QED
      BY <1>10, <2>2, <2>6, <3>2
  <2>9. \A p \in Part : p \in Good
    <3> HIDE DEF Part, partRank, Good
    <3> QED
      BY <2>7, <2>8, ByRank
  <2>10. a \in Part
    BY <1>1
  <2> QED
    BY <2>1, <2>9, <2>10
<1> QED
  BY <1>10, <1>11

(* Split gives views: none if the splitter matches nowhere, else its first *)
(* match and what splitting gives behind it.                               *)
LEMMA SplitStep ==
  ASSUME TextOK, NEW x \in Splitters, NEW to \in 0..Length, NEW p \in 0..to
  PROVE  /\ Split(x, Span(p, to)) \in Seq(Views)
         /\ Starts(x, p, to) = {} => Split(x, Span(p, to)) = <<>>
         /\ Starts(x, p, to) # {} =>
              LET m == Min(Starts(x, p, to))
                  e == SplitEnd(x, m, to)
              IN  Split(x, Span(p, to)) = <<Span(m, e)>> \o Split(x, Span(e, to))
<1>1. PICK f \in [0..to -> Seq(Views)] :
        \A a \in 0..to : f[a] = SplitAt(f, x, a, to) /\ Split(x, Span(a, to)) = f[a]
  BY SplitFound
<1>2. f[p] \in Seq(Views) /\ f[p] = SplitAt(f, x, p, to) /\ Split(x, Span(p, to)) = f[p]
  BY <1>1
<1>3. CASE Starts(x, p, to) = {}
  BY <1>2, <1>3 DEF SplitAt
<1>4. CASE Starts(x, p, to) # {}
  <2> DEFINE m == Min(Starts(x, p, to))
             e == SplitEnd(x, m, to)
  <2>1. e \in (p + 1)..to
    BY <1>4, NextRecord
  <2>2. e \in 0..to
    BY <2>1 DEF TextOK
  <2>3. f[p] = <<Span(m, e)>> \o f[e]
    BY <1>2, <1>4 DEF SplitAt
  <2>4. Split(x, Span(e, to)) = f[e]
    BY <1>1, <2>2
  <2> QED
    BY <1>2, <1>4, <2>3, <2>4
<1> QED
  BY <1>2, <1>3, <1>4

(* What splits a view into its lines.                                      *)
LineSplitter(x) == x \in Splitters /\ x.class # "none" /\ ~ (x.class = "dot" /\ x.dotAll)

(* A line splitter matches up to the next newline, which FindByte finds;   *)
(* without one, up to the end of the view if the newline is optional.      *)
LEMMA LineEnd ==
  ASSUME TextOK, NEW x, LineSplitter(x), NEW to \in 0..Length, NEW q \in 0..to
  PROVE  SplitEnd(x, q, to) = IF FindByte(NL, q, to) # None THEN FindByte(NL, q, to) + 1
                              ELSE IF x.optional THEN to ELSE None
<1> DEFINE newlines == {r \in q..(to - 1) : text[r] = NL}
<1>1. SplitEnd(x, q, to) =
        IF newlines # {} THEN Min(newlines) + 1 ELSE IF x.optional THEN to ELSE None
  BY DEF SplitEnd, LineSplitter
<1>2. FindByte(NL, q, to) = IF newlines = {} THEN None ELSE Min(newlines)
  BY FindByteFinds, LineFilterAssumption DEF Places
<1>3. newlines # {} => Min(newlines) # None
  <2>1. newlines \subseteq Nat /\ \A n \in Nat : n # None
    BY DEF TextOK, None
  <2> HIDE DEF newlines
  <2> QED
    BY <2>1, MinOf
<1> HIDE DEF newlines
<1> QED
  BY <1>1, <1>2, <1>3

(* The lines of the rest of a view, one at a time.                         *)
LEMMA LineStep ==
  ASSUME TextOK, NEW x, LineSplitter(x), NEW to \in 0..Length, NEW p \in 0..to
  PROVE  /\ p = to => Split(x, Span(p, to)) = <<>>
         /\ p < to /\ FindByte(NL, p, to) # None =>
              Split(x, Span(p, to)) = <<Span(p, FindByte(NL, p, to) + 1)>>
                                      \o Split(x, Span(FindByte(NL, p, to) + 1, to))
         /\ p < to /\ FindByte(NL, p, to) = None =>
              Split(x, Span(p, to)) = IF x.optional THEN <<Span(p, to)>> ELSE <<>>
<1> DEFINE nl == FindByte(NL, p, to)
<1>0. x \in Splitters /\ Length \in Nat /\ to \in Nat /\ p \in Nat /\ to \in 0..to
  BY DEF LineSplitter, TextOK
<1>1. ASSUME NEW q \in 0..to, q = to PROVE Split(x, Span(q, to)) = <<>>
  <2>1. Starts(x, q, to) = {}
    BY <1>0, <1>1 DEF Starts
  <2> QED
    BY <1>0, <2>1, SplitStep
<1>2. ASSUME p < to, SplitEnd(x, p, to) # None
      PROVE  Split(x, Span(p, to)) = <<Span(p, SplitEnd(x, p, to))>>
                                     \o Split(x, Span(SplitEnd(x, p, to), to))
  <2>1. p \in Starts(x, p, to) /\ Starts(x, p, to) \subseteq Nat
        /\ \A q \in Starts(x, p, to) : p <= q
    BY <1>0, <1>2 DEF Starts
  <2>2. Min(Starts(x, p, to)) = p /\ Starts(x, p, to) # {}
    BY <2>1, MinIs
  <2> QED
    BY <1>0, <2>2, SplitStep
<1>3. CASE p = to
  BY <1>0, <1>1, <1>3
<1>4. CASE p < to /\ nl # None
  <2>1. SplitEnd(x, p, to) = nl + 1
    BY <1>4, LineEnd
  <2>2. nl \in p..(to - 1)
    BY <1>4, NextNewline
  <2> HIDE DEF nl
  <2>3. nl + 1 # None
    BY <1>0, <2>2 DEF None
  <2> QED
    BY <1>0, <1>2, <1>4, <2>1, <2>3 DEF nl
<1>5. CASE p < to /\ nl = None
  <2>1. \A q \in p..(to - 1) : text[q] # NL
    BY <1>5, NextNewline
  <2>2. ASSUME NEW q \in p..(to - 1) PROVE SplitEnd(x, q, to) = IF x.optional THEN to ELSE None
    <3>1. q \in 0..to
      BY <1>0
    <3>2. FindByte(NL, q, to) = None
      <4> SUFFICES ASSUME FindByte(NL, q, to) # None PROVE FALSE
        OBVIOUS
      <4>1. FindByte(NL, q, to) \in q..(to - 1) /\ text[FindByte(NL, q, to)] = NL
        BY <3>1, NextNewline
      <4>2. FindByte(NL, q, to) \in p..(to - 1)
        BY <1>0, <4>1
      <4> QED
        BY <2>1, <4>1, <4>2
    <3> QED
      BY <3>1, <3>2, LineEnd
  <2>3. CASE x.optional
    <3>1. SplitEnd(x, p, to) = to /\ to # None
      BY <1>0, <1>5, <2>2, <2>3 DEF None
    <3>2. Split(x, Span(p, to)) = <<Span(p, to)>> \o Split(x, Span(to, to))
      BY <1>2, <1>5, <3>1
    <3>3. Split(x, Span(to, to)) = <<>>
      BY <1>0, <1>1
    <3>4. Span(p, to) \in Views
      BY SpanIsView
    <3>5. <<Span(p, to)>> \o <<>> = <<Span(p, to)>>
      <4>1. <<Span(p, to)>> \in Seq(Views)
        BY <3>4
      <4> QED
        BY <4>1, ConcatEmptySeq
    <3> QED
      BY <1>0, <1>5, <2>3, <3>2, <3>3, <3>5
  <2>4. CASE ~ x.optional
    <3>1. Starts(x, p, to) = {}
      BY <2>2, <2>4 DEF Starts
    <3>2. Split(x, Span(p, to)) = <<>>
      BY <1>0, <3>1, SplitStep
    <3> QED
      BY <1>0, <1>5, <2>4, <3>2
  <2> QED
    BY <2>3, <2>4
<1>6. p = to \/ p < to
  BY <1>0
<1> QED
  BY <1>3, <1>4, <1>5, <1>6, <1>0

-----------------------------------------------------------------------------
(* Sequences of sequences.                                                 *)

(* What holds of the empty sequence, and of a sequence if it holds of its  *)
(* tail, holds of all.                                                     *)
LEMMA ByTail ==
  ASSUME NEW T, NEW Good, <<>> \in Good,
         \A s \in Seq(T) : s # <<>> /\ Tail(s) \in Good => s \in Good
  PROVE  \A s \in Seq(T) : s \in Good
<1> DEFINE Right == {n \in Nat : \A s \in Seq(T) : Len(s) = n => s \in Good}
<1>1. 0 \in Right
  BY EmptySeq
<1>2. ASSUME NEW n \in Nat, NEW m \in (0 + 1)..n, m - 1 \in Right PROVE m \in Right
  <2> SUFFICES ASSUME NEW s \in Seq(T), Len(s) = m PROVE s \in Good
    OBVIOUS
  <2>1. s # <<>> /\ m \in Nat /\ m # 0
    BY EmptySeq
  <2>2. Tail(s) \in Seq(T) /\ Len(Tail(s)) = m - 1
    BY <2>1, HeadTailProperties
  <2> QED
    BY <1>2, <2>1, <2>2
<1>3. ASSUME NEW s \in Seq(T) PROVE s \in Good
  <2>1. Len(s) \in Nat /\ 0 \in Nat
    OBVIOUS
  <2>2. \A m \in (0 + 1)..Len(s) : m - 1 \in Right => m \in Right
    <3> HIDE DEF Right
    <3> QED
      BY <1>2, <2>1
  <2>3. \A m \in 0..Len(s) : m \in Right
    <3> HIDE DEF Right
    <3> QED
      BY <1>1, <2>1, <2>2, UpTo, ZenonT(30)
  <2> QED
    BY <2>1, <2>3
<1> QED
  BY <1>3

(* The head and the tail of a concatenation are those of its first part.   *)
LEMMA HeadTailConcat ==
  ASSUME NEW S, NEW s \in Seq(S), NEW t \in Seq(S), s # <<>>
  PROVE  s \o t # <<>> /\ Head(s \o t) = Head(s) /\ Tail(s \o t) = Tail(s) \o t
<1>1. /\ Tail(s) \in Seq(S) /\ Len(Tail(s)) = Len(s) - 1
      /\ \A j \in 1..Len(Tail(s)) : Tail(s)[j] = s[j + 1]
  BY HeadTailProperties
<1>2. /\ s \o t \in Seq(S) /\ Len(s \o t) = Len(s) + Len(t)
      /\ \A j \in 1..(Len(s) + Len(t)) : (s \o t)[j] = IF j <= Len(s) THEN s[j] ELSE t[j - Len(s)]
  BY ConcatProperties
<1>3. Len(s) \in Nat /\ Len(t) \in Nat /\ Len(s) >= 1
  BY EmptySeq
<1>4. s \o t # <<>>
  BY <1>2, <1>3, EmptySeq
<1>5. Head(s \o t) = Head(s)
  <2>1. (s \o t)[1] = s[1]
    BY <1>2, <1>3
  <2> QED
    BY <1>2, <1>4, <2>1
<1>6. /\ Tail(s \o t) \in Seq(S) /\ Len(Tail(s \o t)) = Len(s \o t) - 1
      /\ \A j \in 1..Len(Tail(s \o t)) : Tail(s \o t)[j] = (s \o t)[j + 1]
  BY <1>2, <1>4, HeadTailProperties
<1>7. /\ Tail(s) \o t \in Seq(S) /\ Len(Tail(s) \o t) = Len(Tail(s)) + Len(t)
      /\ \A j \in 1..(Len(Tail(s)) + Len(t)) :
           (Tail(s) \o t)[j] = IF j <= Len(Tail(s)) THEN Tail(s)[j] ELSE t[j - Len(Tail(s))]
  BY <1>1, ConcatProperties
<1>8. Len(Tail(s \o t)) = Len(Tail(s) \o t)
  BY <1>1, <1>2, <1>3, <1>6, <1>7
<1>9. ASSUME NEW j \in 1..Len(Tail(s \o t)) PROVE Tail(s \o t)[j] = (Tail(s) \o t)[j]
  <2>1. j \in Nat /\ j >= 1 /\ j <= Len(s) + Len(t) - 1 /\ j + 1 \in 1..(Len(s) + Len(t))
        /\ j \in 1..(Len(Tail(s)) + Len(t))
    BY <1>1, <1>2, <1>3, <1>6
  <2>2. Tail(s \o t)[j] = IF j + 1 <= Len(s) THEN s[j + 1] ELSE t[(j + 1) - Len(s)]
    BY <1>2, <1>6, <2>1
  <2>3. (Tail(s) \o t)[j] = IF j <= Len(Tail(s)) THEN Tail(s)[j] ELSE t[j - Len(Tail(s))]
    BY <1>7, <2>1
  <2>4. CASE j <= Len(Tail(s))
    <3>1. j + 1 <= Len(s) /\ Tail(s)[j] = s[j + 1]
      BY <1>1, <1>3, <2>1, <2>4
    <3> QED
      BY <2>2, <2>3, <2>4, <3>1
  <2>5. CASE ~ j <= Len(Tail(s))
    <3>1. ~ j + 1 <= Len(s) /\ j - Len(Tail(s)) = (j + 1) - Len(s)
      BY <1>1, <1>3, <2>1, <2>5
    <3> QED
      BY <2>2, <2>3, <2>5, <3>1
  <2> QED
    BY <2>4, <2>5
<1>10. Tail(s \o t) = Tail(s) \o t
  BY <1>6, <1>7, <1>8, <1>9, SeqEqual
<1> QED
  BY <1>4, <1>5, <1>10

-----------------------------------------------------------------------------
(* Sequences joined.                                                       *)

(* f joins longer and longer beginnings of ss.                             *)
IsFlat(f, ss) == f = [j \in 1..Len(ss) |-> IF j = 1 THEN ss[j] ELSE f[j - 1] \o ss[j]]

(* FlattenSeq, one sequence at a time.                                     *)
LEMMA FlatFound ==
  ASSUME NEW V, NEW ss \in Seq(Seq(V)), ss # <<>>
  PROVE  \E f : /\ f \in [1..Len(ss) -> Seq(V)]
                /\ f[1] = ss[1]
                /\ \A j \in 2..Len(ss) : f[j] = f[j - 1] \o ss[j]
                /\ FlattenSeq(ss) = f[Len(ss)]
<1> DEFINE n == Len(ss)
           G == [j \in (1 + 1)..n |-> [v \in Seq(V) |-> v \o ss[j]]]
           flat == CHOOSE g : IsFlat(g, ss)
<1>1. n \in Nat /\ n >= 1 /\ \A j \in 1..n : ss[j] \in Seq(V)
  BY EmptySeq
<1>2. \A j \in 1..n : \A v \in Seq(V) : v \o ss[j] \in Seq(V)
  BY <1>1, ConcatProperties
<1> HIDE DEF n
<1>3. G \in [(1 + 1)..n -> [Seq(V) -> Seq(V)]]
  <2>1. \A j \in (1 + 1)..n : j \in 1..n
    BY <1>1
  <2> QED
    BY <1>2, <2>1
<1>4. PICK f \in [1..n -> Seq(V)] : Climbs(f, ss[1], 1, n, G)
  <2>1. ss[1] \in Seq(V) /\ 1 \in Nat
    BY <1>1
  <2> HIDE DEF G
  <2> QED
    BY <1>1, <1>3, <2>1, Climb
<1>5. ASSUME NEW j \in 1..n PROVE f[j] = IF j = 1 THEN ss[j] ELSE f[j - 1] \o ss[j]
  <2>1. f[j] = IF j = 1 THEN ss[1] ELSE G[j][f[j - 1]]
    BY <1>4 DEF Climbs
  <2>2. CASE j = 1
    BY <2>1, <2>2
  <2>3. CASE j # 1
    <3>1. j \in (1 + 1)..n /\ j - 1 \in 1..n
      BY <1>1, <2>3
    <3>2. f[j - 1] \in Seq(V)
      BY <3>1
    <3>3. G[j][f[j - 1]] = f[j - 1] \o ss[j]
      BY <3>1, <3>2
    <3> QED
      BY <2>1, <2>3, <3>3
  <2> QED
    BY <2>2, <2>3
<1>6. IsFlat(f, ss)
  BY <1>5 DEF IsFlat, n
<1>7. IsFlat(flat, ss)
  BY <1>6, Zenon
<1>8. FlattenSeq(ss) = flat[n]
  <2>1. Len(ss) # 0
    BY <1>1 DEF n
  <2> QED
    BY <2>1, Zenon DEF FlattenSeq, IsFlat, n
<1> HIDE DEF flat
<1>9. flat = [j \in 1..n |-> IF j = 1 THEN ss[j] ELSE flat[j - 1] \o ss[j]]
  BY <1>7 DEF IsFlat, n
<1>10. \A j \in 1..n : flat[j] = IF j = 1 THEN ss[j] ELSE flat[j - 1] \o ss[j]
  BY <1>9
<1> DEFINE Good == {j \in 1..n : flat[j] \in Seq(V)}
<1>11. \A j \in 1..n : j \in Good
  <2>1. 1 \in Good
    <3>1. 1 \in 1..n
      BY <1>1
    <3>2. flat[1] = ss[1] /\ ss[1] \in Seq(V)
      BY <1>1, <1>10, <3>1
    <3> QED
      BY <3>1, <3>2
  <2>2. ASSUME NEW j \in (1 + 1)..n, j - 1 \in Good PROVE j \in Good
    <3>1. j \in 1..n /\ j # 1 /\ flat[j - 1] \in Seq(V)
      BY <1>1, <2>2
    <3>2. flat[j] = flat[j - 1] \o ss[j]
      BY <1>10, <3>1
    <3>3. flat[j] \in Seq(V)
      BY <1>2, <3>1, <3>2
    <3> QED
      BY <3>1, <3>3
  <2>3. 1 \in Nat
    OBVIOUS
  <2> HIDE DEF Good
  <2> QED
    BY <1>1, <2>1, <2>2, <2>3, UpTo, ZenonT(30)
<1>12. flat \in [1..n -> Seq(V)]
  <2>1. flat = [j \in 1..n |-> flat[j]]
    BY <1>9
  <2> QED
    BY <1>11, <2>1
<1>13. flat[1] = ss[1]
  BY <1>1, <1>10
<1>14. ASSUME NEW j \in 2..n PROVE flat[j] = flat[j - 1] \o ss[j]
  <2>1. j \in 1..n /\ j # 1
    BY <1>1
  <2> QED
    BY <1>10, <2>1
<1> QED
  BY <1>8, <1>12, <1>13, <1>14 DEF n

(* Of no sequences the concatenation is empty.                             *)
LEMMA FlatEmpty == \A ss : Len(ss) = 0 => FlattenSeq(ss) = ss
  BY DEF FlattenSeq

(* FlattenSeq from the front.                                              *)
LEMMA FlatFirst ==
  ASSUME NEW V, NEW ss \in Seq(Seq(V)), ss # <<>>
  PROVE  /\ FlattenSeq(ss) = Head(ss) \o FlattenSeq(Tail(ss))
         /\ Head(ss) \in Seq(V)
<1> DEFINE n == Len(ss)
           tt == Tail(ss)
<1>1. n \in Nat /\ n >= 1 /\ \A j \in 1..n : ss[j] \in Seq(V)
  BY EmptySeq
<1>2. PICK f : /\ f \in [1..n -> Seq(V)]
               /\ f[1] = ss[1]
               /\ \A j \in 2..n : f[j] = f[j - 1] \o ss[j]
               /\ FlattenSeq(ss) = f[n]
  BY FlatFound
<1>3. /\ tt \in Seq(Seq(V)) /\ Len(tt) = n - 1
      /\ \A j \in 1..Len(tt) : tt[j] = ss[j + 1]
  BY HeadTailProperties
<1>4. Head(ss) = ss[1] /\ ss[1] \in Seq(V)
  BY <1>1
<1> HIDE DEF n, tt
<1>5. CASE n = 1
  <2>1. tt = <<>>
    BY <1>3, <1>5, EmptySeq
  <2>2. FlattenSeq(<<>>) = <<>>
    BY FlatEmpty
  <2>3. ss[1] \o <<>> = ss[1]
    BY <1>4, ConcatEmptySeq
  <2> QED
    BY <1>2, <1>4, <1>5, <2>1, <2>2, <2>3 DEF tt
<1>6. CASE n # 1
  <2> DEFINE m == n - 1
  <2>1. m \in Nat /\ m >= 1 /\ m + 1 = n /\ Len(tt) = m
    BY <1>1, <1>3, <1>6
  <2> HIDE DEF m
  <2>2. tt # <<>>
    BY <2>1, EmptySeq
  <2>3. PICK g : /\ g \in [1..m -> Seq(V)]
                 /\ g[1] = tt[1]
                 /\ \A j \in 2..m : g[j] = g[j - 1] \o tt[j]
                 /\ FlattenSeq(tt) = g[m]
    BY <1>3, <2>1, <2>2, FlatFound
  <2> DEFINE Good == {j \in 1..m : f[j + 1] = ss[1] \o g[j]}
  <2>4. 1 \in Good
    <3>1. 2 \in 2..n /\ 1 + 1 = 2 /\ 2 - 1 = 1 /\ 1 \in 1..Len(tt) /\ 1 \in 1..m
      BY <1>1, <1>6, <2>1
    <3>2. f[2] = f[1] \o ss[2] /\ tt[1] = ss[2]
      BY <1>2, <1>3, <3>1
    <3> QED
      BY <1>2, <2>3, <3>1, <3>2
  <2>5. ASSUME NEW j \in (1 + 1)..m, j - 1 \in Good PROVE j \in Good
    <3>1. j \in 2..m /\ j \in 1..m /\ j + 1 \in 2..n /\ (j + 1) - 1 = j /\ (j - 1) + 1 = j
          /\ j - 1 \in 1..m
      BY <2>1
    <3>2. f[j + 1] = f[j] \o ss[j + 1] /\ tt[j] = ss[j + 1]
      <4>1. f[j + 1] = f[(j + 1) - 1] \o ss[j + 1]
        BY <1>2, <3>1
      <4> QED
        BY <1>3, <2>1, <3>1, <4>1
    <3>3. f[j] = ss[1] \o g[j - 1]
      BY <2>5, <3>1
    <3>4. g[j] = g[j - 1] \o tt[j] /\ g[j - 1] \in Seq(V) /\ tt[j] \in Seq(V)
      <4>1. tt[j] \in Seq(V)
        BY <1>3, <2>1, <3>1
      <4> QED
        BY <2>3, <3>1, <4>1
    <3>5. (ss[1] \o g[j - 1]) \o tt[j] = ss[1] \o (g[j - 1] \o tt[j])
      <4>1. \A a, b, c \in Seq(V) : (a \o b) \o c = a \o (b \o c)
        BY ConcatAssociative
      <4> QED
        BY <1>4, <3>4, <4>1, Zenon
    <3> QED
      BY <3>1, <3>2, <3>3, <3>4, <3>5
  <2>6. \A j \in 1..m : j \in Good
    <3>1. 1 \in Nat
      OBVIOUS
    <3> HIDE DEF Good
    <3> QED
      BY <2>1, <2>4, <2>5, <3>1, UpTo, ZenonT(30)
  <2>7. m \in 1..m
    BY <2>1
  <2>8. f[n] = ss[1] \o g[m]
    BY <2>1, <2>6, <2>7
  <2> QED
    BY <1>2, <1>4, <2>3, <2>8 DEF tt
<1> QED
  BY <1>5, <1>6

(* f gives a sequence over V for each element of T.                        *)
Yields(f, T, V) == \A v \in T : f[v] \in Seq(V)

(* What f gives for each of vs, one after the other.                       *)
Gather(f, vs) == FlattenSeq([k \in DOMAIN vs |-> f[vs[k]]])

(* Nothing gives nothing.                                                  *)
LEMMA GatherEmpty == ASSUME NEW f PROVE Gather(f, <<>>) = <<>>
<1>1. [k \in DOMAIN <<>> |-> f[<<>>[k]]] = <<>>
  OBVIOUS
<1>2. Len(<<>>) = 0
  OBVIOUS
<1> QED
  BY <1>1, <1>2, FlatEmpty DEF Gather

(* Gather gives what f gives for the first element, then the rest.         *)
LEMMA GatherFirst ==
  ASSUME NEW T, NEW V, NEW f, Yields(f, T, V), NEW vs \in Seq(T), vs # <<>>
  PROVE  /\ Gather(f, vs) = f[Head(vs)] \o Gather(f, Tail(vs))
         /\ f[Head(vs)] \in Seq(V)
         /\ Tail(vs) \in Seq(T)
<1> DEFINE n == Len(vs)
           ss == [k \in 1..n |-> f[vs[k]]]
<1>1. n \in Nat /\ n >= 1 /\ DOMAIN vs = 1..n /\ (\A j \in 1..n : vs[j] \in T) /\ Head(vs) = vs[1]
  BY EmptySeq
<1>2. /\ Tail(vs) \in Seq(T) /\ Len(Tail(vs)) = n - 1 /\ DOMAIN Tail(vs) = 1..(n - 1)
      /\ \A j \in 1..(n - 1) : Tail(vs)[j] = vs[j + 1]
  <2>1. /\ Tail(vs) \in Seq(T) /\ Len(Tail(vs)) = n - 1
        /\ \A j \in 1..Len(Tail(vs)) : Tail(vs)[j] = vs[j + 1]
    BY HeadTailProperties
  <2>2. DOMAIN Tail(vs) = 1..Len(Tail(vs))
    BY <2>1, LenProperties
  <2> QED
    BY <2>1, <2>2
<1> HIDE DEF n
<1>b. \A k \in 1..n : f[vs[k]] \in Seq(V)
  BY <1>1 DEF Yields
<1>3. ss \in Seq(Seq(V)) /\ Len(ss) = n
  BY <1>1, <1>b
<1>4. ss # <<>>
  <2> HIDE DEF ss
  <2>1. Len(ss) # 0
    BY <1>1, <1>3
  <2> QED
    BY <1>3, <2>1, EmptySeq
<1>5. Head(ss) = f[Head(vs)]
  <2>1. Head(ss) = ss[1] /\ 1 \in 1..n
    BY <1>1, <1>3
  <2> QED
    BY <1>1, <2>1
<1>6. Tail(ss) = [k \in 1..(n - 1) |-> f[Tail(vs)[k]]]
  <2>1. /\ Tail(ss) \in Seq(Seq(V)) /\ Len(Tail(ss)) = n - 1
        /\ \A j \in 1..Len(Tail(ss)) : Tail(ss)[j] = ss[j + 1]
    BY <1>3, <1>4, HeadTailProperties
  <2>2. ASSUME NEW k \in 1..(n - 1) PROVE Tail(ss)[k] = f[Tail(vs)[k]]
    <3>1. k + 1 \in 1..n /\ k \in 1..Len(Tail(ss))
      <4> HIDE DEF ss
      <4> QED
        BY <1>1, <2>1
    <3>2. ss[k + 1] = f[vs[k + 1]]
      BY <3>1
    <3> QED
      BY <1>2, <2>1, <3>1, <3>2
  <2>3. Tail(ss) = [k \in 1..(n - 1) |-> Tail(ss)[k]]
    <3>1. Tail(ss) \in [1..(n - 1) -> Seq(V)]
      BY <2>1, LenProperties
    <3> HIDE DEF ss
    <3> QED
      BY <3>1
  <2> HIDE DEF ss
  <2> QED
    BY <2>2, <2>3
<1>7. Gather(f, vs) = FlattenSeq(ss) /\ Gather(f, Tail(vs)) = FlattenSeq(Tail(ss))
  BY <1>1, <1>2, <1>6 DEF Gather
<1> HIDE DEF ss
<1>8. FlattenSeq(ss) = Head(ss) \o FlattenSeq(Tail(ss)) /\ Head(ss) \in Seq(V)
  BY <1>3, <1>4, FlatFirst
<1> QED
  BY <1>2, <1>5, <1>7, <1>8

(* What Gather gives is a sequence over V, as what f gives.                *)
LEMMA GatherType ==
  ASSUME NEW T, NEW V, NEW f, Yields(f, T, V)
  PROVE  \A vs \in Seq(T) : Gather(f, vs) \in Seq(V)
<1> DEFINE Good == {vs \in Seq(T) : Gather(f, vs) \in Seq(V)}
<1>1. <<>> \in Good
  BY EmptySeq, GatherEmpty
<1>2. ASSUME NEW vs \in Seq(T), vs # <<>>, Tail(vs) \in Good PROVE vs \in Good
  <2>1. Gather(f, vs) = f[Head(vs)] \o Gather(f, Tail(vs)) /\ f[Head(vs)] \in Seq(V)
    BY <1>2, GatherFirst
  <2>2. f[Head(vs)] \o Gather(f, Tail(vs)) \in Seq(V)
    BY <1>2, <2>1, ConcatProperties
  <2> QED
    BY <2>1, <2>2
<1> HIDE DEF Good
<1>3. \A vs \in Seq(T) : vs \in Good
  BY <1>1, <1>2, ByTail
<1> QED
  BY <1>3 DEF Good

(* Gather distributes over concatenation.                                  *)
LEMMA GatherConcat ==
  ASSUME NEW T, NEW V, NEW f, Yields(f, T, V), NEW t \in Seq(T)
  PROVE  \A s \in Seq(T) : Gather(f, s \o t) = Gather(f, s) \o Gather(f, t)
<1> DEFINE Good == {s \in Seq(T) : Gather(f, s \o t) = Gather(f, s) \o Gather(f, t)}
<1>0. Gather(f, t) \in Seq(V)
  BY GatherType
<1>a. \A vs \in Seq(T) : vs # <<>> => /\ Gather(f, vs) = f[Head(vs)] \o Gather(f, Tail(vs))
                                       /\ f[Head(vs)] \in Seq(V)
                                       /\ Tail(vs) \in Seq(T)
  <2> HIDE DEF Good
  <2> QED
    BY GatherFirst
<1>1. <<>> \in Good
  <2>1. <<>> \o t = t /\ <<>> \o Gather(f, t) = Gather(f, t) /\ <<>> \in Seq(T)
    BY <1>0, ConcatEmptySeq
  <2>2. Gather(f, <<>>) = <<>>
    BY GatherEmpty
  <2> QED
    BY <2>1, <2>2
<1>2. ASSUME NEW s \in Seq(T), s # <<>>, Tail(s) \in Good PROVE s \in Good
  <2>1. s \o t # <<>> /\ Head(s \o t) = Head(s) /\ Tail(s \o t) = Tail(s) \o t /\ s \o t \in Seq(T)
    BY <1>2, HeadTailConcat, ConcatProperties
  <2>2. /\ Gather(f, s) = f[Head(s)] \o Gather(f, Tail(s)) /\ f[Head(s)] \in Seq(V)
        /\ Tail(s) \in Seq(T)
    <3> HIDE DEF Good
    <3> QED
      BY <1>2, <1>a
  <2>3. Gather(f, s \o t) = f[Head(s)] \o Gather(f, Tail(s) \o t)
    <3>1. Gather(f, s \o t) = f[Head(s \o t)] \o Gather(f, Tail(s \o t))
      <4> DEFINE both == s \o t
      <4>1. both \in Seq(T) /\ both # <<>>
        BY <2>1
      <4> HIDE DEF both, Good
      <4>2. Gather(f, both) = f[Head(both)] \o Gather(f, Tail(both))
        BY <4>1, <1>a
      <4> QED
        BY <4>2 DEF both
    <3> QED
      BY <2>1, <3>1
  <2>4. Gather(f, Tail(s) \o t) = Gather(f, Tail(s)) \o Gather(f, t)
    BY <1>2
  <2>5. Gather(f, Tail(s)) \in Seq(V)
    BY <2>2, GatherType
  <2>6. f[Head(s)] \o (Gather(f, Tail(s)) \o Gather(f, t)) =
        (f[Head(s)] \o Gather(f, Tail(s))) \o Gather(f, t)
    <3>1. \A a, b, c \in Seq(V) : (a \o b) \o c = a \o (b \o c)
      BY ConcatAssociative
    <3> QED
      BY <1>0, <2>2, <2>5, <3>1, Zenon
  <2> QED
    BY <2>2, <2>3, <2>4, <2>6
<1> HIDE DEF Good
<1>3. \A s \in Seq(T) : s \in Good
  BY <1>1, <1>2, ByTail
<1> QED
  BY <1>3 DEF Good

(* The filters and the splitters as functions of one view.                 *)
Selects(re, present) == [v \in Views |-> IF Occurs(re, v) = present THEN <<v>> ELSE <<>>]
Splits(x)            == [v \in Views |-> Split(x, v)]

(* A filter gives views.                                                   *)
LEMMA SelectsType ==
  ASSUME NEW re, NEW present
  PROVE  Yields(Selects(re, present), Views, Views)
<1> SUFFICES ASSUME NEW v \in Views PROVE Selects(re, present)[v] \in Seq(Views)
  BY DEF Yields
<1>1. <<>> \in Seq(Views) /\ <<v>> \in Seq(Views)
  OBVIOUS
<1>2. Selects(re, present)[v] = IF Occurs(re, v) = present THEN <<v>> ELSE <<>>
  BY Zenon DEF Selects
<1> QED
  BY <1>1, <1>2, Zenon

(* A splitter gives views.                                                 *)
LEMMA SplitsType ==
  ASSUME TextOK, NEW x \in Splitters
  PROVE  Yields(Splits(x), Views, Views)
<1> SUFFICES ASSUME NEW v \in Views PROVE Splits(x)[v] \in Seq(Views)
  BY DEF Yields
<1>1. Splits(x)[v] = Split(x, v)
  BY DEF Splits
<1>2. v = Span(v.from, v.to) /\ v.to \in 0..Length /\ v.from \in 0..v.to
  BY ViewIsSpan
<1>3. Split(x, Span(v.from, v.to)) \in Seq(Views)
  BY <1>2, SplitStep
<1> QED
  BY <1>1, <1>2, <1>3

(* LinesWith, the words of the property, gathers what a filter selects.    *)
LEMMA LinesWithIs ==
  ASSUME NEW lines \in Seq(Views), NEW re, NEW present
  PROVE  LinesWith(lines, re, present) = Gather(Selects(re, present), lines)
<1>1. \A k \in DOMAIN lines : lines[k] \in Views
  OBVIOUS
<1>2. \A k \in DOMAIN lines : Selects(re, present)[lines[k]] =
        IF Occurs(re, lines[k]) = present THEN <<lines[k]>> ELSE <<>>
  BY <1>1, Zenon DEF Selects
<1>3. [k \in DOMAIN lines |-> Selects(re, present)[lines[k]]] =
      [k \in DOMAIN lines |-> IF Occurs(re, lines[k]) = present THEN <<lines[k]>> ELSE <<>>]
  BY <1>2, Zenon
<1> QED
  BY <1>3, Zenon DEF LinesWith, Gather

(* Gather on a sequence that starts with v.                                *)
StepsBy(f, T) == \A v \in T : \A vs \in Seq(T) : Gather(f, <<v>> \o vs) = f[v] \o Gather(f, vs)

(* Gather takes one element after the other, whatever f is.                *)
LEMMA GatherNext ==
  ASSUME NEW T, NEW V, NEW f, Yields(f, T, V)
  PROVE  StepsBy(f, T)
<1> SUFFICES ASSUME NEW v \in T, NEW vs \in Seq(T)
             PROVE  Gather(f, <<v>> \o vs) = f[v] \o Gather(f, vs)
  BY DEF StepsBy
<1>1. <<v>> \in Seq(T) /\ <<v>> # <<>> /\ Head(<<v>>) = v /\ Tail(<<v>>) = <<>>
  OBVIOUS
<1> DEFINE all == <<v>> \o vs
<1>2. all # <<>> /\ Head(all) = v /\ Tail(all) = <<>> \o vs /\ all \in Seq(T)
  BY <1>1, HeadTailConcat, ConcatProperties
<1>3. <<>> \o vs = vs
  BY ConcatEmptySeq
<1> HIDE DEF all
<1>4. Gather(f, all) = f[Head(all)] \o Gather(f, Tail(all))
  BY <1>2, GatherFirst
<1> QED
  BY <1>2, <1>3, <1>4 DEF all

-----------------------------------------------------------------------------
(* What a filter selects of the lines of a view from p on.                 *)

(* The lines from p on that are selected.                                  *)
Filtered(x, re, present, p, to) == Gather(Selects(re, present), Split(x, Span(p, to)))

(* They are views.                                                         *)
LEMMA FilteredType ==
  ASSUME TextOK, NEW x \in Splitters, NEW re, NEW present, NEW to \in 0..Length, NEW p \in 0..to
  PROVE  Filtered(x, re, present, p, to) \in Seq(Views)
<1>1. Split(x, Span(p, to)) \in Seq(Views)
  BY SplitStep
<1>2. Yields(Selects(re, present), Views, Views)
  BY SelectsType
<1>3. \A vs \in Seq(Views) : Gather(Selects(re, present), vs) \in Seq(Views)
  BY <1>2, GatherType
<1> QED
  BY <1>1, <1>3 DEF Filtered

(* One line.                                                               *)
LEMMA FilterStep ==
  ASSUME TextOK, NEW x, LineSplitter(x), NEW re, NEW present,
         NEW to \in 0..Length, NEW p \in 0..to
  PROVE  /\ p = to => Filtered(x, re, present, p, to) = <<>>
         /\ p < to /\ FindByte(NL, p, to) # None =>
              /\ Occurs(re, Span(p, FindByte(NL, p, to) + 1)) = present =>
                   Filtered(x, re, present, p, to) =
                     <<Span(p, FindByte(NL, p, to) + 1)>>
                     \o Filtered(x, re, present, FindByte(NL, p, to) + 1, to)
              /\ Occurs(re, Span(p, FindByte(NL, p, to) + 1)) # present =>
                   Filtered(x, re, present, p, to) =
                     Filtered(x, re, present, FindByte(NL, p, to) + 1, to)
         /\ p < to /\ FindByte(NL, p, to) = None =>
              Filtered(x, re, present, p, to) =
                IF x.optional /\ Occurs(re, Span(p, to)) = present THEN <<Span(p, to)>> ELSE <<>>
<1> DEFINE sel == Selects(re, present)
           nl  == FindByte(NL, p, to)
<1>0. x \in Splitters /\ Length \in Nat /\ to \in Nat /\ p \in Nat
  BY DEF LineSplitter, TextOK
<1>1. Yields(sel, Views, Views) /\ Gather(sel, <<>>) = <<>>
  BY SelectsType, GatherEmpty
<1>2. ASSUME NEW v \in Views
      PROVE  /\ Occurs(re, v) = present => sel[v] = <<v>>
             /\ Occurs(re, v) # present => sel[v] = <<>>
  BY Zenon DEF Selects
<1> HIDE DEF sel
<1>g. \A vs \in Seq(Views) : Gather(sel, vs) \in Seq(Views)
  BY <1>1, GatherType
<1>n. \A v \in Views : \A vs \in Seq(Views) : Gather(sel, <<v>> \o vs) = sel[v] \o Gather(sel, vs)
  <2>1. StepsBy(sel, Views)
    BY <1>1, GatherNext
  <2> QED
    BY <2>1 DEF StepsBy
<1>3. ASSUME NEW v \in Views, NEW vs \in Seq(Views)
      PROVE  Gather(sel, <<v>> \o vs) = sel[v] \o Gather(sel, vs) /\ Gather(sel, vs) \in Seq(Views)
  BY <1>g, <1>n
<1>4. CASE p = to
  <2>1. Split(x, Span(p, to)) = <<>>
    BY <1>4, LineStep
  <2> QED
    BY <1>0, <1>1, <1>4, <2>1 DEF Filtered, sel
<1>5. CASE p < to /\ nl # None
  <2>1. Split(x, Span(p, to)) = <<Span(p, nl + 1)>> \o Split(x, Span(nl + 1, to))
    BY <1>5, LineStep
  <2>2. nl \in p..(to - 1)
    BY <1>5, NextNewline
  <2> HIDE DEF nl
  <2>3. nl + 1 \in 0..to /\ nl + 1 \in 0..Length /\ p \in 0..(nl + 1)
    BY <1>0, <2>2
  <2>4. Span(p, nl + 1) \in Views /\ Split(x, Span(nl + 1, to)) \in Seq(Views)
    BY <1>0, <2>3, SpanIsView, SplitStep
  <2> DEFINE rest == Gather(sel, Split(x, Span(nl + 1, to)))
  <2>5. Filtered(x, re, present, p, to) = sel[Span(p, nl + 1)] \o rest /\ rest \in Seq(Views)
    BY <1>3, <2>1, <2>4 DEF Filtered, sel
  <2>6. rest = Filtered(x, re, present, nl + 1, to)
    BY DEF Filtered, sel
  <2> HIDE DEF rest
  <2>7. <<>> \o rest = rest
    BY <2>5, ConcatEmptySeq
  <2>8. /\ Occurs(re, Span(p, nl + 1)) = present => sel[Span(p, nl + 1)] = <<Span(p, nl + 1)>>
        /\ Occurs(re, Span(p, nl + 1)) # present => sel[Span(p, nl + 1)] = <<>>
    BY <1>2, <2>4
  <2>9. /\ Occurs(re, Span(p, nl + 1)) = present =>
             Filtered(x, re, present, p, to) = <<Span(p, nl + 1)>> \o Filtered(x, re, present, nl + 1, to)
        /\ Occurs(re, Span(p, nl + 1)) # present =>
             Filtered(x, re, present, p, to) = Filtered(x, re, present, nl + 1, to)
    BY <2>5, <2>6, <2>7, <2>8, Zenon
  <2> QED
    BY <1>0, <1>5, <2>9 DEF nl
<1>6. CASE p < to /\ nl = None
  <2>1. Split(x, Span(p, to)) = IF x.optional THEN <<Span(p, to)>> ELSE <<>>
    BY <1>6, LineStep
  <2>2. Span(p, to) \in Views /\ <<>> \in Seq(Views)
    BY SpanIsView
  <2>3. CASE x.optional
    <3>1. <<Span(p, to)>> = <<Span(p, to)>> \o <<>>
      BY <2>2
    <3>2. Filtered(x, re, present, p, to) = sel[Span(p, to)] \o <<>>
      BY <1>1, <1>3, <2>1, <2>2, <2>3, <3>1 DEF Filtered, sel
    <3>3. <<>> \o <<>> = <<>>
      OBVIOUS
    <3>4. /\ Occurs(re, Span(p, to)) = present => sel[Span(p, to)] = <<Span(p, to)>>
          /\ Occurs(re, Span(p, to)) # present => sel[Span(p, to)] = <<>>
      BY <1>2, <2>2
    <3>5. Filtered(x, re, present, p, to) =
            IF x.optional /\ Occurs(re, Span(p, to)) = present THEN <<Span(p, to)>> ELSE <<>>
      BY <2>3, <3>1, <3>2, <3>3, <3>4, Zenon
    <3> QED
      BY <1>0, <1>6, <3>5
  <2>4. CASE ~ x.optional
    <3>1. Filtered(x, re, present, p, to) = <<>>
      BY <1>1, <2>1, <2>4 DEF Filtered, sel
    <3> QED
      BY <1>0, <1>6, <2>4, <3>1
  <2> QED
    BY <2>3, <2>4
<1>7. p = to \/ p < to
  BY <1>0
<1> QED
  BY <1>4, <1>5, <1>6, <1>7

(* A part of a text has no hits but those of the text.                     *)
LEMMA HitsWithin ==
  ASSUME NEW re \in Regexes, NEW a \in Nat, NEW b \in Nat, NEW c \in Nat, NEW d \in Nat, a <= b, c <= d
  PROVE  HitsOf(re, b, c) \subseteq HitsOf(re, a, d)
<1>1. Len(re.needle) \in Nat
  BY RegexParts
<1>2. \A q \in b..(c - Len(re.needle)) : q \in a..(d - Len(re.needle))
  BY <1>1
<1> QED
  BY <1>2 DEF HitsOf

(* One line, for the lines with a hit.                                     *)
LEMMA HitStep ==
  ASSUME TextOK, NEW x, LineSplitter(x), NEW re \in Regexes,
         NEW to \in 0..Length, NEW p \in 0..to
  PROVE  /\ p = to => Filtered(x, re, TRUE, p, to) = <<>>
         /\ p < to /\ FindByte(NL, p, to) # None =>
              /\ HitsOf(re, p, FindByte(NL, p, to) + 1) # {} =>
                   Filtered(x, re, TRUE, p, to) =
                     <<Span(p, FindByte(NL, p, to) + 1)>>
                     \o Filtered(x, re, TRUE, FindByte(NL, p, to) + 1, to)
              /\ HitsOf(re, p, FindByte(NL, p, to) + 1) = {} =>
                   Filtered(x, re, TRUE, p, to) =
                     Filtered(x, re, TRUE, FindByte(NL, p, to) + 1, to)
         /\ p < to /\ FindByte(NL, p, to) = None =>
              Filtered(x, re, TRUE, p, to) =
                IF x.optional /\ HitsOf(re, p, to) # {} THEN <<Span(p, to)>> ELSE <<>>
<1> DEFINE nl == FindByte(NL, p, to)
<1>1. ASSUME NEW a, NEW b
      PROVE  (Occurs(re, Span(a, b)) = TRUE) <=> HitsOf(re, a, b) # {}
  <2> DEFINE v == Span(a, b)
  <2>1. v.from = a /\ v.to = b
    BY DEF Span
  <2> HIDE DEF v
  <2>2. Occurs(re, v) <=> HitsOf(re, a, b) # {}
    BY <2>1, OccursHit
  <2>3. Occurs(re, v) \in BOOLEAN
    BY Zenon DEF Occurs
  <2> QED
    BY <2>2, <2>3, Zenon DEF v
<1>2. /\ p = to => Filtered(x, re, TRUE, p, to) = <<>>
      /\ p < to /\ nl # None =>
           /\ Occurs(re, Span(p, nl + 1)) = TRUE =>
                Filtered(x, re, TRUE, p, to) = <<Span(p, nl + 1)>> \o Filtered(x, re, TRUE, nl + 1, to)
           /\ Occurs(re, Span(p, nl + 1)) # TRUE =>
                Filtered(x, re, TRUE, p, to) = Filtered(x, re, TRUE, nl + 1, to)
      /\ p < to /\ nl = None =>
           Filtered(x, re, TRUE, p, to) =
             IF x.optional /\ Occurs(re, Span(p, to)) = TRUE THEN <<Span(p, to)>> ELSE <<>>
  BY FilterStep
<1> HIDE DEF nl
<1>3. /\ p = to => Filtered(x, re, TRUE, p, to) = <<>>
      /\ p < to /\ nl # None =>
           /\ HitsOf(re, p, nl + 1) # {} =>
                Filtered(x, re, TRUE, p, to) = <<Span(p, nl + 1)>> \o Filtered(x, re, TRUE, nl + 1, to)
           /\ HitsOf(re, p, nl + 1) = {} =>
                Filtered(x, re, TRUE, p, to) = Filtered(x, re, TRUE, nl + 1, to)
      /\ p < to /\ nl = None =>
           Filtered(x, re, TRUE, p, to) =
             IF x.optional /\ HitsOf(re, p, to) # {} THEN <<Span(p, to)>> ELSE <<>>
  BY <1>1, <1>2, Zenon
<1> QED
  BY <1>3 DEF nl

(* No hit: no line.                                                        *)
LEMMA FilterNone ==
  ASSUME TextOK, NEW x, LineSplitter(x), NEW re \in Regexes, NEW to \in 0..Length
  PROVE  \A p \in 0..to : HitsOf(re, p, to) = {} => Filtered(x, re, TRUE, p, to) = <<>>
<1> DEFINE D == 0..to
           rank == [p \in D |-> to - p]
           Good == {p \in D : HitsOf(re, p, to) = {} => Filtered(x, re, TRUE, p, to) = <<>>}
<1>0. to \in Nat
  BY DEF TextOK
<1>1. rank \in [D -> Nat]
  BY <1>0
<1>2. ASSUME NEW p \in D, \A q \in D : rank[q] < rank[p] => q \in Good PROVE p \in Good
  <2> SUFFICES ASSUME HitsOf(re, p, to) = {} PROVE Filtered(x, re, TRUE, p, to) = <<>>
    OBVIOUS
  <2> DEFINE nl == FindByte(NL, p, to)
  <2>1. CASE p = to
    BY <2>1, HitStep
  <2>2. CASE p < to /\ nl # None
    <3>1. nl \in p..(to - 1)
      BY <2>2, NextNewline
    <3> HIDE DEF nl
    <3>2. nl + 1 \in D /\ nl + 1 <= to /\ p <= nl + 1 /\ nl + 1 \in Nat /\ p \in Nat /\ to - (nl + 1) < to - p
      BY <1>0, <3>1
    <3>3. HitsOf(re, p, nl + 1) = {} /\ HitsOf(re, nl + 1, to) = {}
      <4>1. HitsOf(re, p, nl + 1) \subseteq HitsOf(re, p, to)
        BY <1>0, <3>2, HitsWithin
      <4>2. HitsOf(re, nl + 1, to) \subseteq HitsOf(re, p, to)
        BY <1>0, <3>2, HitsWithin
      <4> QED
        BY <4>1, <4>2
    <3>4. rank[nl + 1] < rank[p]
      BY <3>2
    <3>5. Filtered(x, re, TRUE, nl + 1, to) = <<>>
      <4>1. nl + 1 \in Good
        BY <1>2, <3>2, <3>4
      <4> QED
        BY <3>3, <4>1
    <3>6. Filtered(x, re, TRUE, p, to) = Filtered(x, re, TRUE, nl + 1, to)
      BY <2>2, <3>3, HitStep DEF nl
    <3> QED
      BY <3>5, <3>6
  <2>3. CASE p < to /\ nl = None
    BY <2>3, HitStep
  <2>4. p = to \/ p < to
    BY <1>0
  <2> QED
    BY <2>1, <2>2, <2>3, <2>4
<1> HIDE DEF D, rank, Good
<1>3. \A p \in D : p \in Good
  BY <1>1, <1>2, ByRank
<1> QED
  BY <1>3 DEF D, Good

(* The lines before the first hit are not selected.                        *)
LEMMA FilterSkip ==
  ASSUME TextOK, NEW x, LineSplitter(x), NEW re \in Regexes, NEW to \in 0..Length, NEW s \in 0..to
  PROVE  \A p \in 0..s : p = s \/ text[s - 1] = NL =>
           ((\A h \in HitsOf(re, p, to) : h >= s) =>
              Filtered(x, re, TRUE, p, to) = Filtered(x, re, TRUE, s, to))
<1> DEFINE D == 0..s
           rank == [p \in D |-> s - p]
           Good == {p \in D : p = s \/ text[s - 1] = NL =>
                                ((\A h \in HitsOf(re, p, to) : h >= s) =>
                                   Filtered(x, re, TRUE, p, to) = Filtered(x, re, TRUE, s, to))}
<1>0. to \in Nat /\ s \in Nat /\ s <= to
  BY DEF TextOK
<1>1. rank \in [D -> Nat]
  BY <1>0
<1>2. ASSUME NEW p \in D, \A q \in D : rank[q] < rank[p] => q \in Good PROVE p \in Good
  <2> SUFFICES ASSUME p = s \/ text[s - 1] = NL, \A h \in HitsOf(re, p, to) : h >= s
               PROVE  Filtered(x, re, TRUE, p, to) = Filtered(x, re, TRUE, s, to)
    OBVIOUS
  <2>1. CASE p = s
    BY <2>1
  <2>2. CASE p # s
    <3> DEFINE nl == FindByte(NL, p, to)
    <3>1. p < s /\ p < to /\ s - 1 \in p..(to - 1) /\ text[s - 1] = NL /\ p \in Nat /\ p \in 0..to
      BY <1>0, <2>2
    <3>2. nl # None /\ nl \in p..(s - 1)
      <4>1. \/ nl = None /\ \A q \in p..(to - 1) : text[q] # NL
            \/ nl \in p..(to - 1) /\ nl # None /\ \A q \in p..(nl - 1) : text[q] # NL
        BY <3>1, NextNewline
      <4> HIDE DEF nl
      <4>2. nl # None /\ nl \in p..(to - 1) /\ \A q \in p..(nl - 1) : text[q] # NL
        BY <3>1, <4>1
      <4>3. ~ s - 1 \in p..(nl - 1)
        BY <3>1, <4>2
      <4> QED
        BY <1>0, <3>1, <4>2, <4>3
    <3> HIDE DEF nl
    <3>3. nl + 1 \in D /\ nl + 1 <= to /\ p <= nl + 1 /\ nl + 1 \in Nat /\ s - (nl + 1) < s - p
      BY <1>0, <3>1, <3>2
    <3>4. HitsOf(re, p, nl + 1) = {}
      <4>1. HitsOf(re, p, nl + 1) \subseteq HitsOf(re, p, to)
        BY <1>0, <3>1, <3>3, HitsWithin
      <4>2. Len(re.needle) \in Nat /\ Len(re.needle) >= 1
        BY RegexParts
      <4>3. \A h \in p..((nl + 1) - Len(re.needle)) : h < s
        BY <1>0, <3>1, <3>2, <4>2
      <4>4. \A h \in HitsOf(re, p, nl + 1) : h \in p..((nl + 1) - Len(re.needle))
        BY Zenon DEF HitsOf
      <4>5. ASSUME NEW h \in HitsOf(re, p, nl + 1) PROVE FALSE
        <5>1. h < s /\ h >= s /\ h \in Int
          BY <4>1, <4>3, <4>4
        <5> QED
          BY <1>0, <5>1
      <4> QED
        BY <4>5
    <3>5. Filtered(x, re, TRUE, nl + 1, to) = Filtered(x, re, TRUE, s, to)
      <4>1. rank[nl + 1] < rank[p]
        BY <3>3
      <4>2. nl + 1 \in Good
        BY <1>2, <3>3, <4>1
      <4>3. HitsOf(re, nl + 1, to) \subseteq HitsOf(re, p, to)
        BY <1>0, <3>1, <3>3, HitsWithin
      <4> QED
        BY <3>1, <4>2, <4>3
    <3>6. Filtered(x, re, TRUE, p, to) = Filtered(x, re, TRUE, nl + 1, to)
      BY <3>1, <3>2, <3>4, HitStep DEF nl
    <3> QED
      BY <3>5, <3>6
  <2> QED
    BY <2>1, <2>2
<1> HIDE DEF D, rank, Good
<1>3. \A p \in D : p \in Good
  BY <1>1, <1>2, ByRank
<1> QED
  BY <1>3 DEF D, Good

(* Of the lines from p on, the first that the pipeline selects is the one  *)
(* from start to the newline nl.                                           *)
FirstLine(x, re, p, to, start, nl) ==
  /\ nl # None => Filtered(x, re, TRUE, p, to) =
                    Cons(Span(start, nl + 1), Filtered(x, re, TRUE, nl + 1, to))
  /\ nl = None => Filtered(x, re, TRUE, p, to) = IF x.optional THEN <<Span(start, to)>> ELSE <<>>

(* The hit that the search returns, its line and what comes after it: what *)
(* the search-then-extend loop emits is the next line that the pipeline    *)
(* selects.                                                                *)
LEMMA FilterHit ==
  ASSUME TextOK, NEW x, LineSplitter(x), NEW re \in Regexes, IsPlain(re),
         NEW to \in 0..Length, NEW p \in 0..to,
         NEW hit, hit = Search(re, p, to), hit # None,
         NEW start, start = IF LastNewline(p, hit) = None THEN p ELSE LastNewline(p, hit) + 1
  PROVE  FirstLine(x, re, p, to, start, FindByte(NL, hit, to))
<1> DEFINE n  == Len(re.needle)
           nl == FindByte(NL, hit, to)
           here == FindByte(NL, start, to)
<1>0. to \in Nat /\ p \in Nat /\ Length \in Nat /\ n \in Nat /\ n >= 1 /\ to <= Length /\ p <= to
  BY RegexParts DEF TextOK
<1> HIDE DEF n
<1>1. hit \in HitsOf(re, p, to) /\ \A h \in HitsOf(re, p, to) : hit <= h
  BY FirstHit
<1>2. hit \in p..(to - n)
  BY <1>1, Zenon DEF HitsOf, n
<1>3. hit \in p..(to - 1) /\ hit \in Nat /\ hit \in 0..to /\ hit \in 0..Length /\ p \in 0..hit
  BY <1>0, <1>2
<1>4. /\ start \in p..hit
      /\ start = p \/ text[start - 1] = NL
      /\ \A q \in start..(hit - 1) : text[q] # NL
  <2> DEFINE back == LastNewline(p, hit)
  <2>1. \/ back = None /\ \A q \in p..(hit - 1) : text[q] # NL
        \/ /\ back \in p..(hit - 1) /\ back # None
           /\ text[back] = NL
           /\ \A q \in (back + 1)..(hit - 1) : text[q] # NL
    BY <1>3, NewlineBefore
  <2>2. start = IF back = None THEN p ELSE back + 1
    OBVIOUS
  <2> HIDE DEF back
  <2>3. CASE back = None
    BY <1>3, <2>1, <2>2, <2>3
  <2>4. CASE back # None
    <3>1. back \in p..(hit - 1) /\ text[back] = NL /\ start = back + 1
          /\ \A q \in (back + 1)..(hit - 1) : text[q] # NL
      BY <2>1, <2>2, <2>4
    <3>2. start \in p..hit /\ start - 1 = back
      BY <1>0, <1>3, <3>1
    <3> QED
      BY <3>1, <3>2
  <2> QED
    BY <2>3, <2>4
<1>5. start \in Nat /\ start \in 0..to /\ start < to /\ p \in 0..start /\ start \in 0..Length
  BY <1>0, <1>3, <1>4
<1>6. Filtered(x, re, TRUE, p, to) = Filtered(x, re, TRUE, start, to)
  <2>1. \A h \in HitsOf(re, p, to) : h >= start
    <3>2. \A h \in HitsOf(re, p, to) : h \in p..(to - n)
      BY Zenon DEF HitsOf, n
    <3> QED
      BY <1>0, <1>1, <1>3, <1>4, <3>2
  <2> QED
    <3>1. start \in 0..to /\ p \in 0..start
      BY <1>5
    <3>2. \A q \in 0..start : q = start \/ text[start - 1] = NL =>
             ((\A h \in HitsOf(re, q, to) : h >= start) =>
                Filtered(x, re, TRUE, q, to) = Filtered(x, re, TRUE, start, to))
      BY <3>1, FilterSkip
    <3> QED
      BY <1>4, <2>1, <3>1, <3>2
<1>7. hit \in HitsOf(re, start, to)
  <2>1. hit \in start..(to - n)
    BY <1>0, <1>2, <1>4
  <2>2. MatchAt(re, hit)
    BY <1>1, Zenon DEF HitsOf
  <2> QED
    BY <2>1, <2>2, Zenon DEF HitsOf, n
<1>8. \A q \in hit..(hit + n - 1) : text[q] # NL
  BY <1>1, NoNewlineInHit DEF n
<1>9. here = nl /\ (nl # None => nl \in hit..(to - 1) /\ nl >= hit + n)
  <2>1. \/ nl = None /\ \A q \in hit..(to - 1) : text[q] # NL
        \/ nl \in hit..(to - 1) /\ nl # None /\ text[nl] = NL /\ \A q \in hit..(nl - 1) : text[q] # NL
    BY <1>3, NextNewline
  <2>2. \/ here = None /\ \A q \in start..(to - 1) : text[q] # NL
        \/ here \in start..(to - 1) /\ here # None /\ text[here] = NL /\ \A q \in start..(here - 1) : text[q] # NL
    BY <1>5, NextNewline
  <2> HIDE DEF nl, here
  <2>3. CASE nl = None
    <3>1. \A q \in start..(to - 1) : text[q] # NL
      BY <1>3, <1>4, <2>1, <2>3
    <3> QED
      BY <2>2, <2>3, <3>1
  <2>4. CASE nl # None
    <3>1. nl \in hit..(to - 1) /\ text[nl] = NL /\ \A q \in hit..(nl - 1) : text[q] # NL
      BY <2>1, <2>4
    <3>2. nl \in start..(to - 1)
      BY <1>3, <1>4, <3>1
    <3>3. here \in start..(to - 1) /\ text[here] = NL /\ \A q \in start..(here - 1) : text[q] # NL
      BY <2>2, <3>1, <3>2
    <3>4. ~ here \in start..(hit - 1) /\ ~ here \in hit..(nl - 1) /\ ~ nl \in start..(here - 1)
      BY <1>4, <3>1, <3>3
    <3>5. here = nl
      BY <1>3, <1>4, <3>1, <3>2, <3>3, <3>4
    <3>6. ~ nl \in hit..(hit + n - 1)
      BY <1>8, <3>1
    <3>7. nl >= hit + n
      BY <1>0, <1>3, <3>1, <3>6
    <3> QED
      BY <3>1, <3>5, <3>7
  <2> QED
    BY <2>3, <2>4
<1>10. HitsOf(re, start, to) # {}
  BY <1>7
<1>11. CASE nl # None
  <2> HIDE DEF nl
  <2>1. nl \in hit..(to - 1) /\ nl >= hit + n /\ here = nl
    BY <1>9, <1>11
  <2>2. hit \in start..((nl + 1) - n)
    BY <1>0, <1>3, <1>4, <2>1
  <2>3. hit \in HitsOf(re, start, nl + 1)
    <3>1. MatchAt(re, hit)
      BY <1>1, Zenon DEF HitsOf
    <3> QED
      BY <2>2, <3>1, Zenon DEF HitsOf, n
  <2>4. HitsOf(re, start, here + 1) # {} /\ here # None
    BY <1>11, <2>1, <2>3
  <2>5. Filtered(x, re, TRUE, start, to) = <<Span(start, here + 1)>> \o Filtered(x, re, TRUE, here + 1, to)
    <3>1. /\ start < to
          /\ FindByte(NL, start, to) # None
          /\ HitsOf(re, start, FindByte(NL, start, to) + 1) # {}
      BY <1>5, <2>4
    <3>2. start \in 0..to
      BY <1>5
    <3> QED
      BY ONLY TextOK, LineSplitter(x), re \in Regexes, to \in 0..Length, <3>1, <3>2, HitStep, Zenon
  <2> HIDE DEF here
  <2>6. Filtered(x, re, TRUE, p, to) = Cons(Span(start, nl + 1), Filtered(x, re, TRUE, nl + 1, to))
    BY <1>6, <2>1, <2>5 DEF Cons
  <2> QED
    BY <1>11, <2>6 DEF nl, FirstLine
<1>12. CASE nl = None
  <2>1. here = None
    BY <1>9, <1>12
  <2>2. Filtered(x, re, TRUE, start, to) = IF x.optional THEN <<Span(start, to)>> ELSE <<>>
    BY <1>5, <1>10, <2>1, HitStep
  <2> QED
    BY <1>6, <1>12, <2>2 DEF FirstLine
<1> QED
  BY <1>11, <1>12

(* The parts of a program: a splitter, a filter and perhaps the last       *)
(* filter.                                                                 *)
ProgramOK ==
  /\ program[1] \in Splitters
  /\ program[2].op \in {"g", "v", "binder"}
  /\ program[2].re \in Regexes
  /\ \/ Len(program) = 2 /\ program = <<program[1], program[2]>>
     \/ Len(program) = 3 /\ program = <<program[1], program[2], LastFilter>>

(* The programs of Init are of this form.                                  *)
LEMMA ProgramParts == ASSUME program \in Programs PROVE ProgramOK
<1>1. PICK x \in Splitters, f \in Filters : program = <<x, f>> \/ program = <<x, f, LastFilter>>
  BY DEF Programs
<1>2. f.op \in {"g", "v", "binder"} /\ f.re \in Regexes
  BY DEF Filters
<1>3. program[1] = x /\ program[2] = f
  BY <1>1
<1>4. CASE program = <<x, f>>
  BY <1>2, <1>3, <1>4 DEF ProgramOK
<1>5. CASE program = <<x, f, LastFilter>>
  BY <1>2, <1>3, <1>5 DEF ProgramOK
<1> QED
  BY <1>1, <1>4, <1>5

-----------------------------------------------------------------------------
(* What the optimizer makes of the first two commands.                     *)
FusesLiteral ==
  IsLineSplit(program[1]) /\ program[2].op \in {"g", "v"} /\ LineSafeLiteral(program[2].re)

(* The optimizer fuses a case-insensitive literal behind g only.           *)
FusesIgnoreCase ==
  /\ IsLineSplit(program[1]) /\ program[2].op = "g"
  /\ program[2].re.ignoreCase /\ IsPlain(program[2].re)

(* It fuses the binder only at the end of the program.                     *)
FusesPrint ==
  /\ IsLineSplit(program[1]) /\ program[2].op = "binder"
  /\ Len(program) = 2 /\ LineSafeLiteral(program[2].re)

(* It fuses the first two commands in these cases.                         *)
Fuses == FusesLiteral \/ FusesIgnoreCase \/ FusesPrint

(* The commands it puts in place of the first two.                         *)
FirstTwo ==
  IF FusesLiteral THEN <<Fused("lineFilter", program[2], program[1])>>
  ELSE IF FusesIgnoreCase THEN <<Fused("regexLineFilter", program[2], program[1])>>
  ELSE IF FusesPrint THEN <<Fused("lineFilter", program[2], program[1]), [op |-> "p"]>>
  ELSE <<program[1], program[2]>>

(* The plan it arrives at.                                                 *)
Optimized == IF Len(program) = 3 THEN Append(FirstTwo, LastFilter) ELSE FirstTwo

(* Where the optimizer is with its plan.                                   *)
Planning ==
  /\ i \in 1..(Len(program) + 1)
  /\ i = 1 => plan = <<>>
  /\ i = 2 => plan = <<program[1]>> /\ ~ Fuses
  /\ i = 3 => plan = FirstTwo
  /\ i = 4 => plan = Optimized
  /\ pc # "optimize" => i = Len(program) + 1

(* A command of a plan.                                                    *)
Command(c) ==
  /\ c.op \in {"x", "g", "v", "binder", "p", "lineFilter", "regexLineFilter"}
  /\ c.op = "x" => c \in Splitters
  /\ c.op \in {"g", "v", "binder", "lineFilter", "regexLineFilter"} => c.re \in Regexes
  /\ c.op \in {"lineFilter", "regexLineFilter"} =>
       /\ IsLineSplit(program[1]) /\ IsPlain(c.re)
       /\ c.invert \in BOOLEAN
       /\ c.requireNewline = ~ program[1].optional
  /\ c.op = "lineFilter" => ~ c.re.ignoreCase
  /\ c.op = "regexLineFilter" => ~ c.invert

(* What a splitter is made of.                                             *)
LEMMA SplitterParts ==
  ASSUME NEW x \in Splitters
  PROVE  /\ x.op = "x" /\ x.class \in {"dot", "notNewline", "none"}
         /\ x.optional \in BOOLEAN /\ x.dotAll \in BOOLEAN
BY LineFilterAssumption

(* The last filter is a command that looks at views one at a time.         *)
LEMMA LastIsCommand ==
  /\ Command(LastFilter) /\ LastFilter.op = "g"
  /\ LastFilter.re \in Regexes /\ ~ LastFilter.re.ignoreCase
<1>1. LastFilter.op = "g" /\ LastFilter.re = [needle |-> Downstream, ignoreCase |-> FALSE]
  BY DEF LastFilter
<1>2. LastFilter.re \in Regexes /\ ~ LastFilter.re.ignoreCase
  BY <1>1, LineFilterAssumption DEF Regexes
<1> QED
  BY <1>1, <1>2 DEF Command

(* What the optimizer makes of a line splitter and a plain literal is a    *)
(* command, with the literal of the filter, and inverted just if it is v.  *)
LEMMA FusedIsCommand ==
  ASSUME NEW op \in {"lineFilter", "regexLineFilter"}, ProgramOK,
         IsLineSplit(program[1]), IsPlain(program[2].re),
         op = "lineFilter" => ~ program[2].re.ignoreCase,
         op = "regexLineFilter" => program[2].op = "g"
  PROVE  /\ Command(Fused(op, program[2], program[1]))
         /\ Fused(op, program[2], program[1]).op = op
         /\ Fused(op, program[2], program[1]).re = program[2].re
         /\ Fused(op, program[2], program[1]).invert <=> program[2].op = "v"
<1> DEFINE c == Fused(op, program[2], program[1])
<1>1. c.op = op /\ c.re = program[2].re
  BY DEF Fused
<1>2. c.invert = (program[2].op = "v")
  BY Zenon DEF Fused
<1>3. c.requireNewline = ~ program[1].optional
  BY Zenon DEF Fused, RequireNewline
<1> HIDE DEF c
<1>4. c.invert \in BOOLEAN /\ (c.invert <=> program[2].op = "v")
  BY <1>2, Zenon
<1>5. op = "regexLineFilter" => ~ c.invert
  BY <1>4
<1>6. Command(c)
  BY <1>1, <1>3, <1>4, <1>5 DEF Command, ProgramOK
<1> QED
  BY <1>1, <1>4, <1>6 DEF c

(* A short sequence with one more element.                                 *)
LEMMA Appended ==
  ASSUME NEW a, NEW b, NEW c
  PROVE  Append(<<>>, a) = <<a>> /\ Append(<<a>>, b) = <<a, b>> /\ Append(<<a, b>>, c) = <<a, b, c>>
<1> DEFINE S == {a, b, c}
<1>1. /\ <<a>> \in Seq(S) /\ <<a, b>> \in Seq(S) /\ <<a, b, c>> \in Seq(S)
      /\ a \in S /\ b \in S /\ c \in S
  OBVIOUS
<1>2. Len(<<a>>) = 1 /\ Len(<<a, b>>) = 2 /\ Len(<<a, b, c>>) = 3
  OBVIOUS
<1> HIDE DEF S
<1>3. Append(<<a>>, b) = <<a, b>>
  <2> DEFINE s == Append(<<a>>, b)
  <2>1. s \in Seq(S) /\ Len(s) = 2 /\ (\A k \in 1..1 : s[k] = <<a>>[k]) /\ s[1 + 1] = b
    BY <1>1, <1>2, AppendProperties
  <2> HIDE DEF s
  <2>2. s[1] = a /\ s[2] = b
    BY <2>1
  <2>3. \A k \in 1..2 : s[k] = <<a, b>>[k]
    BY <2>2
  <2>4. s = <<a, b>>
    BY <1>1, <1>2, <2>1, <2>3, SeqEqual
  <2> QED
    BY <2>4 DEF s
<1>4. Append(<<a, b>>, c) = <<a, b, c>>
  <2> DEFINE s == Append(<<a, b>>, c)
  <2>1. s \in Seq(S) /\ Len(s) = 3 /\ (\A k \in 1..2 : s[k] = <<a, b>>[k]) /\ s[2 + 1] = c
    BY <1>1, <1>2, AppendProperties
  <2> HIDE DEF s
  <2>2. s[1] = a /\ s[2] = b /\ s[3] = c
    BY <2>1
  <2>3. \A k \in 1..3 : s[k] = <<a, b, c>>[k]
    BY <2>2
  <2>4. s = <<a, b, c>>
    BY <1>1, <1>2, <2>1, <2>3, SeqEqual
  <2> QED
    BY <2>4 DEF s
<1>5. Append(<<>>, a) = <<a>>
  OBVIOUS
<1> QED
  BY <1>3, <1>4, <1>5

(* The plans there are.                                                    *)
LEMMA PlansAre ==
  ASSUME ProgramOK
  PROVE  \/ /\ FusesLiteral \/ FusesIgnoreCase
            /\ \E c : /\ Command(c) /\ c.op \in {"lineFilter", "regexLineFilter"}
                      /\ c.re = program[2].re /\ (c.invert <=> program[2].op = "v")
                      /\ program[2].op \in {"g", "v"}
                      /\ \/ Len(program) = 2 /\ Optimized = <<c>>
                         \/ Len(program) = 3 /\ Optimized = <<c, LastFilter>>
         \/ /\ FusesPrint
            /\ \E c : /\ Command(c) /\ c.op \in {"lineFilter", "regexLineFilter"}
                      /\ c.re = program[2].re /\ ~ c.invert
                      /\ program[2].op = "binder" /\ Len(program) = 2
                      /\ Optimized = <<c, [op |-> "p"]>>
         \/ /\ ~ Fuses
            /\ Command(program[1]) /\ Command(program[2])
            /\ \/ Len(program) = 2 /\ Optimized = <<program[1], program[2]>>
               \/ Len(program) = 3 /\ Optimized = <<program[1], program[2], LastFilter>>
<1>1. Len(program) \in {2, 3}
  BY DEF ProgramOK
<1>2. CASE FusesLiteral \/ FusesIgnoreCase
  <2>1. PICK op \in {"lineFilter", "regexLineFilter"} :
          /\ FirstTwo = <<Fused(op, program[2], program[1])>>
          /\ op = "lineFilter" => ~ program[2].re.ignoreCase
          /\ op = "regexLineFilter" => program[2].op = "g"
    <3>1. CASE FusesLiteral
      BY <3>1 DEF FirstTwo, FusesLiteral, LineSafeLiteral
    <3>2. CASE ~ FusesLiteral
      BY <1>2, <3>2 DEF FirstTwo, FusesIgnoreCase
    <3> QED
      BY <3>1, <3>2
  <2> DEFINE c == Fused(op, program[2], program[1])
  <2>2. IsLineSplit(program[1]) /\ IsPlain(program[2].re) /\ program[2].op \in {"g", "v"}
    BY <1>2 DEF FusesLiteral, FusesIgnoreCase, LineSafeLiteral
  <2>3. Command(c) /\ c.op = op /\ c.re = program[2].re /\ (c.invert <=> program[2].op = "v")
    BY <2>1, <2>2, FusedIsCommand
  <2> HIDE DEF c
  <2>4. FirstTwo = <<c>>
    BY <2>1 DEF c
  <2>5. \/ Len(program) = 2 /\ Optimized = <<c>>
        \/ Len(program) = 3 /\ Optimized = <<c, LastFilter>>
    <3>1. Append(<<c>>, LastFilter) = <<c, LastFilter>>
      BY Appended
    <3> QED
      BY <1>1, <2>4, <3>1 DEF Optimized
  <2> QED
    BY <1>2, <2>2, <2>3, <2>5
<1>3. CASE FusesPrint
  <2> DEFINE c == Fused("lineFilter", program[2], program[1])
  <2>1. /\ IsLineSplit(program[1]) /\ IsPlain(program[2].re) /\ ~ program[2].re.ignoreCase
        /\ program[2].op = "binder" /\ Len(program) = 2
    BY <1>3 DEF FusesPrint, LineSafeLiteral
  <2>2. Command(c) /\ c.op = "lineFilter" /\ c.re = program[2].re /\ (c.invert <=> program[2].op = "v")
    BY <2>1, FusedIsCommand
  <2>3. Optimized = <<c, [op |-> "p"]>>
    <3>1. ~ FusesLiteral /\ ~ FusesIgnoreCase
      BY <2>1 DEF FusesLiteral, FusesIgnoreCase
    <3> QED
      BY <1>3, <2>1, <3>1 DEF Optimized, FirstTwo
  <2> HIDE DEF c
  <2>4. ~ c.invert
    BY <2>1, <2>2
  <2> QED
    BY <1>3, <2>1, <2>2, <2>3, <2>4
<1>4. CASE ~ Fuses
  <2>1. FirstTwo = <<program[1], program[2]>>
    BY <1>4 DEF FirstTwo, Fuses
  <2>2. \/ Len(program) = 2 /\ Optimized = <<program[1], program[2]>>
        \/ Len(program) = 3 /\ Optimized = <<program[1], program[2], LastFilter>>
    <3>1. Append(<<program[1], program[2]>>, LastFilter) = <<program[1], program[2], LastFilter>>
      BY Appended
    <3> QED
      BY <1>1, <2>1, <3>1 DEF Optimized
  <2>3. Command(program[1])
    <3>1. program[1].op = "x" /\ program[1] \in Splitters
      BY SplitterParts DEF ProgramOK
    <3> QED
      BY <3>1 DEF Command
  <2>4. Command(program[2])
    BY DEF Command, ProgramOK
  <2> QED
    BY <1>4, <2>2, <2>3, <2>4
<1> QED
  BY <1>2, <1>3, <1>4 DEF Fuses

(* A plan has one to three commands.                                       *)
LEMMA CommandsOfPlan ==
  ASSUME ProgramOK
  PROVE  Len(Optimized) \in 1..3 /\ \A k \in 1..Len(Optimized) : Command(Optimized[k])
<1>1. Command(LastFilter) /\ Command([op |-> "p"])
  <2>1. Command([op |-> "p"])
    BY DEF Command
  <2> QED
    BY <2>1, LastIsCommand
<1>2. \/ \E c : Command(c) /\ (Optimized = <<c>> \/ Optimized = <<c, LastFilter>> \/ Optimized = <<c, [op |-> "p"]>>)
      \/ /\ Command(program[1]) /\ Command(program[2])
         /\ Optimized = <<program[1], program[2]>> \/ Optimized = <<program[1], program[2], LastFilter>>
  BY PlansAre
<1> DEFINE last == LastFilter
           print == [op |-> "p"]
<1> HIDE DEF last, print
<1>3. ASSUME NEW c, Command(c), Optimized = <<c>> \/ Optimized = <<c, last>> \/ Optimized = <<c, print>>
      PROVE  Len(Optimized) \in 1..3 /\ \A k \in 1..Len(Optimized) : Command(Optimized[k])
  <2>1. CASE Optimized = <<c>>
    BY <1>3, <2>1
  <2>2. CASE Optimized = <<c, last>>
    BY <1>1, <1>3, <2>2 DEF last
  <2>3. CASE Optimized = <<c, print>>
    BY <1>1, <1>3, <2>3 DEF print
  <2> QED
    BY <1>3, <2>1, <2>2, <2>3
<1>4. ASSUME Command(program[1]), Command(program[2]),
             Optimized = <<program[1], program[2]>> \/ Optimized = <<program[1], program[2], last>>
      PROVE  Len(Optimized) \in 1..3 /\ \A k \in 1..Len(Optimized) : Command(Optimized[k])
  <2> DEFINE a == program[1]
             b == program[2]
  <2> HIDE DEF a, b
  <2>1. CASE Optimized = <<a, b>>
    BY <1>4, <2>1 DEF a, b
  <2>2. CASE Optimized = <<a, b, last>>
    BY <1>1, <1>4, <2>2 DEF a, b, last
  <2> QED
    BY <1>4, <2>1, <2>2 DEF a, b
<1> QED
  BY <1>2, <1>3, <1>4 DEF last, print

-----------------------------------------------------------------------------
(* The invariant of the types.                                             *)

(* The commands that the optimizer introduces.                             *)
FusedOps == {"lineFilter", "regexLineFilter"}

(* What no step changes.                                                   *)
Given == TextOK /\ ProgramOK /\ inputViews \in Seq(Views)

(* What no step changes stays good, and the views are the same views.      *)
LEMMA GivenStays ==
  ASSUME Given, UNCHANGED <<text, neon, program, inputViews>>
  PROVE  Given' /\ Views' = Views /\ Length' = Length
<1>1. text' = text /\ neon' = neon /\ program' = program /\ inputViews' = inputViews
  OBVIOUS
<1>2. Length' = Length
  BY <1>1 DEF Length
<1>3. Views' = Views
  BY <1>2 DEF Views
<1>4. TextOK'
  BY <1>1, <1>2 DEF TextOK, Given
<1>5. ProgramOK'
  BY <1>1 DEF ProgramOK, Given
<1> QED
  BY <1>1, <1>2, <1>3, <1>4, <1>5 DEF Given

(* What the optimizer aims at depends on the program alone.                *)
LEMMA PlanStays ==
  ASSUME program' = program
  PROVE  /\ FirstTwo' = FirstTwo /\ Optimized' = Optimized
         /\ Fuses' <=> Fuses
         /\ IsLineSplit(program[1])' <=> IsLineSplit(program[1])
         /\ \A c : Command(c)' <=> Command(c)
<1>1. /\ FusesLiteral' <=> FusesLiteral
      /\ FusesIgnoreCase' <=> FusesIgnoreCase
      /\ FusesPrint' <=> FusesPrint
      /\ IsLineSplit(program[1])' <=> IsLineSplit(program[1])
  BY DEF FusesLiteral, FusesIgnoreCase, FusesPrint, IsLineSplit, LineSafeLiteral, IsPlain
<1>2. FirstTwo' = FirstTwo
  <2>1. \A op : Fused(op, program[2], program[1])' = Fused(op, program[2], program[1])
    BY Zenon
  <2> QED
    BY <1>1, <2>1 DEF FirstTwo
<1>3. Optimized' = Optimized
  BY <1>2 DEF Optimized
<1>4. \A c : Command(c)' <=> Command(c)
  BY <1>1 DEF Command
<1> QED
  BY <1>1, <1>2, <1>3, <1>4 DEF Fuses

(* At its end the optimizer has made its plan.                             *)
LEMMA PlanLength ==
  ASSUME ProgramOK, Planning
  PROVE  /\ Len(plan) \in 0..3 /\ Len(program) \in 2..3
         /\ i = Len(program) + 1 => plan = Optimized
<1>1. Len(program) \in 2..3
  BY DEF ProgramOK
<1>2. Len(FirstTwo) \in 0..2
  BY DEF FirstTwo
<1>3. Len(Optimized) \in 1..3
  BY CommandsOfPlan
<1>4. i \in 1..4 /\ (i = 4 => Len(program) = 3)
  <2> DEFINE n == Len(program)
  <2>1. i \in 1..(n + 1) /\ n \in 2..3
    BY <1>1 DEF Planning
  <2> HIDE DEF n
  <2>2. i \in 1..4 /\ (i = 4 => n = 3)
    BY <2>1
  <2> QED
    BY <2>2 DEF n
<1>5. i = Len(program) + 1 => plan = Optimized
  BY <1>1, <1>4 DEF Planning, Optimized
<1>6. Len(plan) \in 0..3
  <2>1. CASE i = 1
    BY <2>1 DEF Planning
  <2>2. CASE i = 2
    BY <2>2 DEF Planning
  <2>3. CASE i = 3
    BY <1>2, <2>3 DEF Planning
  <2>4. CASE i = 4
    BY <1>3, <2>4 DEF Planning
  <2> QED
    BY <1>4, <2>1, <2>2, <2>3, <2>4
<1> QED
  BY <1>1, <1>5, <1>6

(* The inductive invariant of the types: all views lie in the input, the   *)
(* plan is on its way to what the optimizer aims at, each state of pc goes *)
(* with the command that runs, and a cursor is set only while a fused      *)
(* filter reads a view, in it and behind its beginning.                    *)
Shape ==
  /\ Given
  /\ Planning
  /\ views \in Seq(Views) /\ kept \in Seq(Views) /\ printed \in Seq(Views)
  /\ pc \in {"optimize", "run", "done"}
  /\ pc = "optimize" => /\ stage = 1 /\ views = inputViews
                        /\ kept = <<>> /\ printed = <<>> /\ cursor = None
  /\ pc = "run" => stage \in 1..Len(plan)
  /\ pc = "done" => stage = Len(plan) + 1
  /\ cursor # None =>
       /\ pc = "run" /\ plan[stage].op \in FusedOps /\ views # <<>>
       /\ cursor \in (Head(views).from + 1)..Head(views).to

(* It holds of the beginning, where the input is one view or two.          *)
LEMMA InitShape == Init => Shape
<1> SUFFICES ASSUME Init PROVE Shape
  OBVIOUS
<1>1. PICK n \in 0..MaxLen : text \in [0..(n - 1) -> Byte]
  BY Zenon DEF Init
<1>2. Length = n /\ n \in Nat
  <2>1. DOMAIN text = 0..(n - 1) /\ n \in Nat
    BY <1>1, LineFilterAssumption
  <2>2. Cardinality(0..(n - 1)) = n
    <3>1. 0 \in Int /\ n - 1 \in Int
      BY <2>1
    <3>2. Cardinality(0..(n - 1)) = IF 0 > n - 1 THEN 0 ELSE (n - 1) - 0 + 1
      BY <3>1, FS_Interval
    <3> QED
      BY <2>1, <3>2
  <2> QED
    BY <2>1, <2>2 DEF Length
<1>3. TextOK
  BY <1>1, <1>2 DEF TextOK, Init
<1>4. ProgramOK
  BY ProgramParts DEF Init
<1>5. inputViews \in Seq(Views)
  <2>1. PICK m \in 0..Length :
          inputViews = IF m = 0 THEN <<Span(0, Length)>> ELSE <<Span(0, m), Span(m, Length)>>
    BY Zenon DEF Init, Length
  <2>2. 0 \in 0..Length /\ Length \in 0..Length /\ 0 \in 0..m
    BY <1>2
  <2>3. Span(0, Length) \in Views /\ Span(0, m) \in Views /\ Span(m, Length) \in Views
    BY <1>3, <2>2, SpanIsView
  <2> QED
    BY <2>1, <2>3
<1>6. Planning
  <2>1. Len(program) \in 2..3
    BY <1>4 DEF ProgramOK
  <2> QED
    BY <2>1 DEF Planning, Init
<1>7. <<>> \in Seq(Views)
  OBVIOUS
<1> QED
  BY <1>3, <1>4, <1>5, <1>6, <1>7 DEF Shape, Given, Init

(* The parts of a program, and where the optimizer is in it.               *)
LEMMA ProgramLen == ASSUME ProgramOK, Planning
  PROVE /\ Len(program) \in 2..3 /\ i \in 1..(Len(program) + 1)
        /\ program[1].op = "x" /\ program[2].op \in {"g", "v", "binder"}
        /\ Len(program) = 3 => program[3] = LastFilter
<1>1. program[1].op = "x"
  BY SplitterParts DEF ProgramOK
<1>2. Len(program) \in 2..3 /\ i \in 1..(Len(program) + 1)
  BY PlanLength DEF Planning
<1>3. Len(program) = 3 => program[3] = LastFilter
  BY DEF ProgramOK
<1> QED
  BY <1>1, <1>2, <1>3 DEF ProgramOK

(* Short sequences behind the empty one.                                   *)
LEMMA Joined == \A a, b : <<>> \o <<a>> = <<a>> /\ <<>> \o <<a, b>> = <<a, b>>
<1> SUFFICES ASSUME NEW a, NEW b PROVE <<>> \o <<a>> = <<a>> /\ <<>> \o <<a, b>> = <<a, b>>
  OBVIOUS
<1>1. <<a>> \in Seq({a, b}) /\ <<a, b>> \in Seq({a, b})
  OBVIOUS
<1> QED
  BY <1>1, ConcatEmptySeq

(* The optimizer makes the plan that it should.                            *)
LEMMA OptimizerPlans ==
  ASSUME ProgramOK, Planning, program' = program,
         FuseLiteral \/ FuseIgnoreCase \/ FusePrint \/ Keep \/ Start
  PROVE  Planning'
<1> DEFINE n == Len(program)
<1>1. /\ n \in 2..3 /\ i \in 1..(n + 1)
      /\ program[1].op = "x" /\ program[2].op \in {"g", "v", "binder"}
      /\ n = 3 => program[3] = LastFilter
  BY ProgramLen
<1> HIDE DEF n
<1>2. FirstTwo' = FirstTwo /\ Optimized' = Optimized /\ (Fuses' <=> Fuses)
  BY PlanStays
<1>3. SUFFICES /\ i' \in 1..(n + 1)
               /\ i' = 1 => plan' = <<>>
               /\ i' = 2 => plan' = <<program[1]>> /\ ~ Fuses
               /\ i' = 3 => plan' = FirstTwo
               /\ i' = 4 => plan' = Optimized
               /\ pc' # "optimize" => i' = n + 1
  BY <1>2 DEF Planning, n
<1>4. ASSUME NEW op \in SUBSET {"g", "v", "binder"}, Fusible(op)
      PROVE  i = 1 /\ pc = "optimize" /\ plan = <<>> /\ IsLineSplit(program[1]) /\ program[2].op \in op
  <2>1. pc = "optimize" /\ i < n /\ IsLineSplit(program[i]) /\ program[i + 1].op \in op
    BY <1>4 DEF Fusible, n
  <2>2. i # 2
    <3>1. IsLineSplit(program[2]) => program[2].op = "x"
      BY DEF IsLineSplit
    <3> QED
      BY <1>1, <2>1, <3>1
  <2>3. i = 1
    BY <1>1, <2>1, <2>2
  <2> QED
    BY <2>1, <2>3 DEF Planning
<1>5. ASSUME NEW commands, Replace(commands), i = 1, pc = "optimize", plan = <<>>, commands = FirstTwo
      PROVE  i' = 3 /\ plan' = FirstTwo /\ pc' = "optimize"
  <2>1. i' = 3 /\ pc' = "optimize" /\ plan' = plan \o commands
    BY <1>5 DEF Replace
  <2>2. <<>> \o FirstTwo = FirstTwo
    <3>1. \A c, d : <<>> \o <<c>> = <<c>> /\ <<>> \o <<c, d>> = <<c, d>>
      BY Joined
    <3> QED
      BY <3>1, Zenon DEF FirstTwo
  <2> QED
    BY <1>5, <2>1, <2>2
<1>6. CASE FuseLiteral
  <2>1. i = 1 /\ pc = "optimize" /\ plan = <<>> /\ IsLineSplit(program[1]) /\ program[2].op \in {"g", "v"}
    BY <1>4, <1>6 DEF FuseLiteral
  <2>2. FusesLiteral /\ Replace(<<Fused("lineFilter", program[2], program[1])>>)
    BY <1>6, <2>1 DEF FuseLiteral, FusesLiteral
  <2>3. FirstTwo = <<Fused("lineFilter", program[2], program[1])>>
    BY <2>2 DEF FirstTwo
  <2> QED
    BY <1>1, <1>5, <2>1, <2>2, <2>3
<1>7. CASE FuseIgnoreCase
  <2>1. i = 1 /\ pc = "optimize" /\ plan = <<>> /\ IsLineSplit(program[1]) /\ program[2].op = "g"
    BY <1>4, <1>7 DEF FuseIgnoreCase
  <2>2. /\ FusesIgnoreCase /\ ~ FusesLiteral
        /\ Replace(<<Fused("regexLineFilter", program[2], program[1])>>)
    BY <1>7, <2>1 DEF FuseIgnoreCase, FusesIgnoreCase, FusesLiteral, LineSafeLiteral
  <2>3. FirstTwo = <<Fused("regexLineFilter", program[2], program[1])>>
    BY <2>2 DEF FirstTwo
  <2> QED
    BY <1>1, <1>5, <2>1, <2>2, <2>3
<1>8. CASE FusePrint
  <2>1. i = 1 /\ pc = "optimize" /\ plan = <<>> /\ IsLineSplit(program[1]) /\ program[2].op = "binder"
    BY <1>4, <1>8 DEF FusePrint
  <2>2. /\ FusesPrint /\ ~ FusesLiteral /\ ~ FusesIgnoreCase
        /\ Replace(<<Fused("lineFilter", program[2], program[1]), [op |-> "p"]>>)
    BY <1>8, <2>1 DEF FusePrint, FusesPrint, FusesIgnoreCase, FusesLiteral
  <2>3. FirstTwo = <<Fused("lineFilter", program[2], program[1]), [op |-> "p"]>>
    BY <2>2 DEF FirstTwo
  <2> QED
    BY <1>1, <1>5, <2>1, <2>2, <2>3
<1>9. CASE Keep
  <2>1. pc = "optimize" /\ i <= n /\ plan' = Append(plan, program[i]) /\ i' = i + 1 /\ pc' = pc
    BY <1>9 DEF Keep, n
  <2>2. CASE i = 1
    <3>1. ~ Fuses
      BY <1>1, <1>9, <2>2 DEF Keep, Fuses, FusesLiteral, FusesIgnoreCase, FusesPrint, n
    <3>2. plan' = <<program[1]>>
      BY <2>1, <2>2, Appended DEF Planning
    <3>3. i' = 2 /\ i' \in 1..(n + 1) /\ pc' = "optimize"
      BY <1>1, <2>1, <2>2
    <3> QED
      BY <3>1, <3>2, <3>3
  <2>3. CASE i = 2
    <3>1. plan = <<program[1]>> /\ ~ Fuses
      BY <2>3 DEF Planning
    <3>2. plan' = <<program[1], program[2]>>
      BY <2>1, <2>3, <3>1, Appended
    <3>3. FirstTwo = <<program[1], program[2]>>
      BY <3>1 DEF FirstTwo, Fuses
    <3>4. i' = 3 /\ i' \in 1..(n + 1) /\ pc' = "optimize"
      BY <1>1, <2>1, <2>3
    <3> QED
      BY <3>2, <3>3, <3>4
  <2>4. CASE i = 3
    <3>1. n = 3 /\ plan = FirstTwo
      BY <1>1, <2>1, <2>4 DEF Planning
    <3>2. plan' = Optimized
      BY <1>1, <2>1, <2>4, <3>1 DEF Optimized, n
    <3>3. i' = 4 /\ i' \in 1..(n + 1) /\ pc' = "optimize"
      BY <1>1, <2>1, <2>4, <3>1
    <3> QED
      BY <3>2, <3>3
  <2> QED
    BY <1>1, <2>1, <2>2, <2>3, <2>4
<1>10. CASE Start
  <2>1. i' = i /\ plan' = plan /\ i > n
    BY <1>10 DEF Start, n
  <2>2. i = n + 1
    BY <1>1, <2>1
  <2> QED
    BY <1>1, <2>1, <2>2 DEF Planning, n
<1> QED
  BY <1>6, <1>7, <1>8, <1>9, <1>10

-----------------------------------------------------------------------------
(* The steps of the fused filters.                                         *)

(* Where a hit, its line and the newline behind it lie.                    *)
LEMMA HitRange ==
  ASSUME TextOK, NEW re \in Regexes, NEW to \in 0..Length, NEW p \in 0..to,
         NEW hit, hit = Search(re, p, to), hit # None,
         NEW start, start = IF LastNewline(p, hit) = None THEN p ELSE LastNewline(p, hit) + 1
  PROVE  /\ hit \in p..(to - 1) /\ start \in p..hit
         /\ FindByte(NL, hit, to) # None => FindByte(NL, hit, to) \in hit..(to - 1)
<1>0. to \in Nat /\ p \in Nat /\ Length \in Nat /\ to <= Length /\ p <= to
      /\ Len(re.needle) \in Nat /\ Len(re.needle) >= 1
  BY RegexParts DEF TextOK
<1>1. hit \in HitsOf(re, p, to)
  BY FirstHit
<1>2. hit \in p..(to - Len(re.needle))
  BY <1>1, Zenon DEF HitsOf
<1>3. hit \in p..(to - 1) /\ hit \in 0..to /\ hit \in 0..Length /\ p \in 0..hit
  BY <1>0, <1>2
<1>4. LastNewline(p, hit) = None \/ LastNewline(p, hit) \in p..(hit - 1)
  BY <1>3, NewlineBefore
<1>5. start \in p..hit
  <2> DEFINE back == LastNewline(p, hit)
  <2>1. start = IF back = None THEN p ELSE back + 1
    OBVIOUS
  <2> HIDE DEF back
  <2>2. back = None \/ back \in p..(hit - 1)
    BY <1>4 DEF back
  <2> QED
    BY <1>0, <1>3, <2>1, <2>2
<1>6. FindByte(NL, hit, to) # None => FindByte(NL, hit, to) \in hit..(to - 1)
  BY <1>3, NextNewline
<1> QED
  BY <1>3, <1>5, <1>6

(* A fused filter reads its first view from the cursor.                    *)
LEMMA FusedReads ==
  ASSUME Shape, Running(FusedOps)
  PROVE  /\ plan = Optimized /\ stage \in 1..Len(plan)
         /\ Command(plan[stage]) /\ plan[stage].op \in FusedOps
         /\ Head(views) \in Views /\ Tail(views) \in Seq(Views) /\ views # <<>>
         /\ Head(views).to \in 0..Length /\ Head(views).to \in Nat
         /\ Head(views).from \in 0..Head(views).to
         /\ Position \in Head(views).from..Head(views).to
         /\ Position \in 0..Head(views).to
<1>1. pc = "run" /\ views # <<>> /\ plan[stage].op \in FusedOps /\ TextOK /\ ProgramOK
  BY DEF Running, Shape, Given
<1>2. plan = Optimized
  BY <1>1, PlanLength DEF Shape, Planning
<1>3. stage \in 1..Len(plan) /\ Command(plan[stage])
  BY <1>1, <1>2, CommandsOfPlan DEF Shape
<1>4. Head(views) \in Views /\ Tail(views) \in Seq(Views)
  BY <1>1, HeadTailProperties DEF Shape
<1>5. Head(views).to \in 0..Length /\ Head(views).from \in 0..Head(views).to /\ Length \in Nat
  BY <1>1, <1>4, ViewIsSpan DEF TextOK
<1> DEFINE from == Head(views).from
           to   == Head(views).to
<1>6. cursor = None \/ cursor \in (from + 1)..to
  BY DEF Shape
<1>7. Position = IF cursor = None THEN from ELSE cursor
  BY DEF Position
<1> HIDE DEF from, to
<1>8. to \in 0..Length /\ from \in 0..to /\ Length \in Nat
  BY <1>5 DEF from, to
<1>9. to \in Nat /\ Position \in from..to /\ Position \in 0..to
  BY <1>6, <1>7, <1>8
<1> QED
  BY <1>1, <1>2, <1>3, <1>4, <1>5, <1>9 DEF from, to

(* The steps of a fused filter: it is done with its view, or it emits a    *)
(* line and goes on behind it, or it goes on behind a line.                *)
Leaves         == views' = Tail(views) /\ cursor' = None /\ kept' = kept

(* A line is emitted, or passed by, and the filter goes on at next.        *)
Emits(v, next) == kept' = Append(kept, v) /\ cursor' = next /\ views' = views
Passes(next)   == cursor' = next /\ views' = views /\ kept' = kept

(* What the pipeline selects of the first view from p on.                  *)
Rest(p) == Filtered(program[1], plan[stage].re, ~ plan[stage].invert, p, Head(views).to)

(* Behind the last line there is nothing.                                  *)
LEMMA NothingLeft ==
  ASSUME Shape, Running(FusedOps), LineSplitter(program[1])
  PROVE  Rest(Head(views).to) = <<>> /\ \A v \in Views : <<v>> = Cons(v, Rest(Head(views).to))
<1> DEFINE to == Head(views).to
<1>1. to \in 0..Length /\ to \in Nat /\ TextOK
  BY FusedReads DEF Shape, Given
<1>2. to \in 0..to
  BY <1>1
<1>3. Rest(to) = <<>>
  <2> HIDE DEF to
  <2>1. \A re, present : Filtered(program[1], re, present, to, to) = <<>>
    BY <1>1, <1>2, FilterStep
  <2> QED
    BY <2>1, Zenon DEF Rest, to
<1>4. \A v \in Views : Cons(v, <<>>) = <<v>>
  BY DEF Cons
<1> QED
  BY <1>3, <1>4

(* Each step emits what the pipeline selects.                              *)
Moves ==
  \/ Leaves /\ (LineSplitter(program[1]) => Rest(Position) = <<>>)
  \/ \E v \in Views : \E next \in (Position + 1)..Head(views).to :
       Emits(v, next) /\ (LineSplitter(program[1]) => Rest(Position) = Cons(v, Rest(next)))
  \/ \E next \in (Position + 1)..Head(views).to :
       Passes(next) /\ (LineSplitter(program[1]) => Rest(Position) = Rest(next))

(* KeepMatching leaves its view when nothing of it is left to select, and  *)
(* otherwise emits the next line selected: from the first hit back to the  *)
(* newline before it and on to the newline behind it is the first line     *)
(* with a hit, and the lines before it have none.                          *)
LEMMA MatchingMoves == ASSUME Shape, KeepMatching PROVE Moves
<1> DEFINE p  == Position
           to == Head(views).to
           re == plan[stage].re
           x  == program[1]
<1>1. Running(FusedOps) /\ ~ plan[stage].invert
  BY DEF KeepMatching, FusedOps
<1>2. /\ Command(plan[stage]) /\ plan[stage].op \in FusedOps
      /\ to \in 0..Length /\ p \in 0..to /\ TextOK /\ to \in Nat
  BY <1>1, FusedReads DEF Shape, Given
<1>3. re \in Regexes /\ IsPlain(re) /\ plan[stage].requireNewline = ~ x.optional /\ plan[stage].invert \in BOOLEAN
  BY <1>2 DEF Command, FusedOps
<1>x. x.optional \in BOOLEAN
  BY SplitterParts DEF Shape, Given, ProgramOK
<1>r. \A q : Rest(q) = Filtered(x, re, TRUE, q, to)
  <2>1. (~ plan[stage].invert) = TRUE
    BY <1>1, <1>3
  <2> QED
    BY <2>1, Zenon DEF Rest
<1> DEFINE hit == Search(re, p, to)
<1>4. IF p >= to \/ hit = None THEN LeaveView ELSE Extend(hit)
  BY Zenon DEF KeepMatching
<1>5. LeaveView => Leaves
  BY DEF LeaveView, Leaves
<1>6. ASSUME LineSplitter(x), p >= to \/ hit = None PROVE Rest(p) = <<>>
  <2>1. CASE p >= to
    <3>1. p = to
      BY <1>2, <2>1
    <3> QED
      BY <1>1, <1>2, <1>6, <3>1, NothingLeft
  <2>2. CASE hit = None
    <3> HIDE DEF p, to, re, x
    <3>1. HitsOf(re, p, to) = {}
      BY <1>2, <1>3, <2>2, FirstHit
    <3>2. Filtered(x, re, TRUE, p, to) = <<>>
      BY <1>2, <1>3, <1>6, <3>1, FilterNone
    <3> QED
      BY <1>r, <3>2
  <2> QED
    BY <1>6, <2>1, <2>2
<1>7. ASSUME hit # None, Extend(hit)
      PROVE  \/ Leaves /\ (LineSplitter(x) => Rest(p) = <<>>)
             \/ \E v \in Views : \E next \in (p + 1)..to :
                  Emits(v, next) /\ (LineSplitter(x) => Rest(p) = Cons(v, Rest(next)))
  <2> DEFINE start == IF LastNewline(p, hit) = None THEN p ELSE LastNewline(p, hit) + 1
             nl == FindByte(NL, hit, to)
  <2>1. hit \in p..(to - 1) /\ start \in p..hit /\ (nl # None => nl \in hit..(to - 1))
    <3> HIDE DEF p, to, re
    <3> QED
      BY <1>2, <1>3, <1>7, HitRange
  <2>2. IF nl # None THEN Emit(Span(start, nl + 1), nl + 1)
        ELSE IF plan[stage].requireNewline THEN LeaveView
        ELSE Emit(Span(start, to), to)
    BY <1>7, Zenon DEF Extend
  <2>3. Length \in Nat
    BY <1>2 DEF TextOK
  <2>f. ASSUME LineSplitter(x)
        PROVE  /\ nl # None => Rest(p) = Cons(Span(start, nl + 1), Rest(nl + 1))
               /\ nl = None => Rest(p) = IF x.optional THEN <<Span(start, to)>> ELSE <<>>
    <3> HIDE DEF p, to, re, x
    <3>1. FirstLine(x, re, p, to, start, nl)
      BY <1>2, <1>3, <1>7, <2>f, FilterHit
    <3> HIDE DEF nl, start
    <3> QED
      BY <1>r, <3>1, Zenon DEF FirstLine
  <2>n. LineSplitter(x) => \A v \in Views : <<v>> = Cons(v, Rest(to))
    BY <1>1, NothingLeft
  <2> HIDE DEF p, to, re, x, hit, start, nl
  <2>4. start \in 0..to /\ to \in (p + 1)..to
    BY <1>2, <2>1, <2>3
  <2>5. nl # None => nl + 1 \in (p + 1)..to /\ nl + 1 \in 0..Length /\ start \in 0..(nl + 1)
    BY <1>2, <2>1, <2>3
  <2>6. \A v, next : Emit(v, next) => Emits(v, next)
    BY DEF Emit, Emits
  <2>7. CASE nl # None
    <3>1. Emits(Span(start, nl + 1), nl + 1)
      BY <2>2, <2>6, <2>7
    <3>2. Span(start, nl + 1) \in Views
      BY <1>2, <2>5, <2>7, SpanIsView
    <3>3. LineSplitter(x) => Rest(p) = Cons(Span(start, nl + 1), Rest(nl + 1))
      BY <2>7, <2>f
    <3>4. nl + 1 \in (p + 1)..to
      BY <2>5, <2>7
    <3> QED
      BY <3>1, <3>2, <3>3, <3>4, Zenon
  <2>8. CASE nl = None
    <3>1. Span(start, to) \in Views
      BY <1>2, <2>4, SpanIsView
    <3>2. CASE x.optional
      <4>1. Emits(Span(start, to), to)
        BY <1>3, <2>2, <2>6, <2>8, <3>2
      <4>2. LineSplitter(x) => Rest(p) = Cons(Span(start, to), Rest(to))
        BY <2>8, <2>f, <2>n, <3>1, <3>2
      <4> QED
        BY <2>4, <3>1, <4>1, <4>2, Zenon
    <3>3. CASE ~ x.optional
      BY <1>3, <1>5, <2>2, <2>8, <2>f, <3>3
    <3> QED
      BY <3>2, <3>3
  <2> QED
    BY <2>7, <2>8
<1> HIDE DEF p, to, re, hit, x
<1>8. \/ Leaves /\ (LineSplitter(x) => Rest(p) = <<>>)
      \/ \E v \in Views : \E next \in (p + 1)..to :
           Emits(v, next) /\ (LineSplitter(x) => Rest(p) = Cons(v, Rest(next)))
  BY <1>4, <1>5, <1>6, <1>7, Zenon
<1> QED
  BY <1>8, Zenon DEF p, to, x, Moves

(* KeepOthers looks at one line at a time, and emits it or passes it by    *)
(* just as the two commands would.                                         *)
LEMMA OthersMove == ASSUME Shape, KeepOthers PROVE Moves
<1> DEFINE p  == Position
           to == Head(views).to
           re == plan[stage].re
           x  == program[1]
           nl == FindByte(NL, p, to)
           next == IF nl = None THEN to ELSE nl + 1
<1>1. Running(FusedOps) /\ plan[stage].invert /\ plan[stage].op = "lineFilter"
  BY DEF KeepOthers, FusedOps, Running
<1>2. /\ Command(plan[stage]) /\ plan[stage].op \in FusedOps
      /\ to \in 0..Length /\ p \in 0..to /\ TextOK /\ to \in Nat
  BY <1>1, FusedReads DEF Shape, Given
<1>3. /\ re \in Regexes /\ plan[stage].requireNewline = ~ x.optional
      /\ plan[stage].invert \in BOOLEAN /\ ~ re.ignoreCase
  BY <1>1, <1>2 DEF Command, FusedOps
<1>4. x.optional \in BOOLEAN
  BY SplitterParts DEF Shape, Given, ProgramOK
<1>5. \A q : Rest(q) = Filtered(x, re, FALSE, q, to)
  <2>1. (~ plan[stage].invert) = FALSE
    BY <1>1, <1>3
  <2> QED
    BY <2>1, Zenon DEF Rest
<1>6. IF p >= to \/ (nl = None /\ plan[stage].requireNewline) THEN LeaveView
      ELSE IF Find(re.needle, p, next) = None THEN Emit(Span(p, next), next)
      ELSE cursor' = next /\ UNCHANGED <<views, kept>>
  BY Zenon DEF KeepOthers
<1>7. /\ LeaveView => Leaves
      /\ Emit(Span(p, next), next) => Emits(Span(p, next), next)
      /\ cursor' = next /\ UNCHANGED <<views, kept>> => Passes(next)
  BY DEF LeaveView, Leaves, Emit, Emits, Passes
<1>8. nl # None => nl \in p..(to - 1)
  <2> HIDE DEF p, to
  <2> QED
    BY <1>2, NextNewline
<1>9. LineSplitter(x) => Rest(to) = <<>> /\ \A v \in Views : <<v>> = Cons(v, Rest(to))
  BY <1>1, NothingLeft
<1>10. ASSUME LineSplitter(x)
       PROVE  /\ p = to => Filtered(x, re, FALSE, p, to) = <<>>
              /\ p < to /\ nl # None =>
                   /\ Occurs(re, Span(p, nl + 1)) = FALSE =>
                        Filtered(x, re, FALSE, p, to) =
                          <<Span(p, nl + 1)>> \o Filtered(x, re, FALSE, nl + 1, to)
                   /\ Occurs(re, Span(p, nl + 1)) # FALSE =>
                        Filtered(x, re, FALSE, p, to) = Filtered(x, re, FALSE, nl + 1, to)
              /\ p < to /\ nl = None =>
                   Filtered(x, re, FALSE, p, to) =
                     IF x.optional /\ Occurs(re, Span(p, to)) = FALSE THEN <<Span(p, to)>> ELSE <<>>
  <2> HIDE DEF p, to, re, x
  <2> QED
    BY <1>2, <1>10, FilterStep
<1> HIDE DEF p, to, re, x, nl
<1>11. Length \in Nat
  BY <1>2 DEF TextOK
<1>12. p < to => next \in (p + 1)..to /\ next \in 0..Length /\ p \in 0..next
  BY <1>2, <1>8, <1>11
<1> HIDE DEF next
<1>13. ASSUME p < to
       PROVE  (Find(re.needle, p, next) = None) <=> (Occurs(re, Span(p, next)) = FALSE)
  <2>1. Find(re.needle, p, next) = Search(re, p, next)
    BY <1>3 DEF Search
  <2>2. Matches(re, Span(p, next)) <=> Occurs(re, Span(p, next))
    BY <1>2, <1>3, <1>12, <1>13, MatchesIfOccurs
  <2>3. Matches(re, Span(p, next)) <=> Search(re, p, next) # None
    BY DEF Matches, Span
  <2>4. Occurs(re, Span(p, next)) \in BOOLEAN
    BY Zenon DEF Occurs
  <2> QED
    BY <2>1, <2>2, <2>3, <2>4, Zenon
<1>14. Span(p, next) \in Views \/ ~ p < to
  BY <1>2, <1>12, SpanIsView
<1>15. CASE ~ p < to
  <2>1. p >= to /\ p = to
    BY <1>2, <1>15
  <2>2. Leaves /\ (LineSplitter(x) => Rest(p) = <<>>)
    BY <1>6, <1>7, <1>9, <2>1
  <2> QED
    BY <2>2 DEF Moves, p, x
<1>16. CASE p < to /\ nl # None
  <2>1. next = nl + 1 /\ ~ p >= to
    BY <1>2, <1>16 DEF next
  <2>2. \/ Emits(Span(p, next), next) /\ Occurs(re, Span(p, next)) = FALSE
        \/ Passes(next) /\ Occurs(re, Span(p, next)) # FALSE
    BY <1>6, <1>7, <1>13, <1>16, <2>1, Zenon
  <2>3. CASE Emits(Span(p, next), next) /\ Occurs(re, Span(p, next)) = FALSE
    <3>1. LineSplitter(x) => Rest(p) = Cons(Span(p, next), Rest(next))
      BY <1>5, <1>10, <1>16, <2>1, <2>3, Zenon DEF Cons
    <3> QED
      BY <1>12, <1>14, <1>16, <2>3, <3>1, Zenon DEF Moves, p, x, to
  <2>4. CASE Passes(next) /\ Occurs(re, Span(p, next)) # FALSE
    <3>1. LineSplitter(x) => Rest(p) = Rest(next)
      BY <1>5, <1>10, <1>16, <2>1, <2>4, Zenon
    <3> QED
      BY <1>12, <1>16, <2>4, <3>1, Zenon DEF Moves, p, x, to
  <2> QED
    BY <2>2, <2>3, <2>4
<1>17. CASE p < to /\ nl = None
  <2>1. next = to /\ ~ p >= to
    BY <1>2, <1>17 DEF next
  <2>2. CASE ~ x.optional
    <3>1. LeaveView
      BY <1>3, <1>6, <1>17, <2>2
    <3>2. LineSplitter(x) => Rest(p) = <<>>
      BY <1>5, <1>10, <1>17, <2>2, Zenon
    <3> QED
      BY <1>7, <3>1, <3>2 DEF Moves, p, x
  <2>3. CASE x.optional
    <3>1. \/ Emits(Span(p, next), next) /\ Occurs(re, Span(p, next)) = FALSE
          \/ Passes(next) /\ Occurs(re, Span(p, next)) # FALSE
      <4>1. ~ plan[stage].requireNewline
        BY <1>3, <2>3
      <4> QED
        BY <1>6, <1>7, <1>13, <1>17, <2>1, <4>1, Zenon
    <3>2. CASE Emits(Span(p, next), next) /\ Occurs(re, Span(p, next)) = FALSE
      <4>1. LineSplitter(x) => Rest(p) = <<Span(p, to)>>
        BY <1>5, <1>10, <1>17, <2>1, <2>3, <3>2, Zenon
      <4>2. LineSplitter(x) => Rest(p) = Cons(Span(p, next), Rest(next))
        BY <1>9, <1>14, <1>17, <2>1, <4>1, Zenon
      <4> QED
        BY <1>12, <1>14, <1>17, <3>2, <4>2, Zenon DEF Moves, p, x, to
    <3>3. CASE Passes(next) /\ Occurs(re, Span(p, next)) # FALSE
      <4>1. LineSplitter(x) => Rest(p) = <<>>
        BY <1>5, <1>10, <1>17, <2>1, <3>3, Zenon
      <4>2. LineSplitter(x) => Rest(p) = Rest(next)
        BY <1>9, <2>1, <4>1, Zenon
      <4> QED
        BY <1>12, <1>17, <3>3, <4>2, Zenon DEF Moves, p, x, to
    <3> QED
      BY <3>1, <3>2, <3>3
  <2> QED
    BY <2>2, <2>3
<1> QED
  BY <1>15, <1>16, <1>17

-----------------------------------------------------------------------------
(* What a command yields.                                                  *)

(* What a command yields of the views vs, and what it prints.              *)
Yield(c, vs) ==
  IF c.op = "x" THEN Gather(Splits(c), vs)
  ELSE IF c.op \in {"g", "v"} THEN Gather(Selects(c.re, c.op # "v"), vs)
  ELSE IF c.op \in FusedOps THEN Gather(Selects(c.re, ~ c.invert), Gather(Splits(program[1]), vs))
  ELSE vs

(* What a command prints of the views it reads.                            *)
Prints(c, vs) ==
  IF c.op = "p" THEN vs
  ELSE IF c.op = "binder" THEN Gather(Selects(c.re, TRUE), vs)
  ELSE <<>>

(* What a command yields and prints are views.                             *)
LEMMA YieldType ==
  ASSUME Given, NEW c, Command(c), NEW vs \in Seq(Views)
  PROVE  Yield(c, vs) \in Seq(Views) /\ Prints(c, vs) \in Seq(Views)
<1>1. TextOK /\ program[1] \in Splitters
  BY DEF Given, ProgramOK
<1>2. \A re, present : \A ws \in Seq(Views) : Gather(Selects(re, present), ws) \in Seq(Views)
  BY SelectsType, GatherType
<1>3. \A x \in Splitters : \A ws \in Seq(Views) : Gather(Splits(x), ws) \in Seq(Views)
  BY <1>1, SplitsType, GatherType
<1>4. c.op = "x" => c \in Splitters
  BY DEF Command
<1>5. <<>> \in Seq(Views)
  OBVIOUS
<1>6. Yield(c, vs) \in Seq(Views)
  BY <1>1, <1>2, <1>3, <1>4 DEF Yield
<1>7. Prints(c, vs) \in Seq(Views)
  BY <1>2, <1>5 DEF Prints
<1> QED
  BY <1>6, <1>7

(* Of nothing a command yields and prints nothing.                         *)
LEMMA YieldNothing == ASSUME NEW c PROVE Yield(c, <<>>) = <<>> /\ Prints(c, <<>>) = <<>>
<1>1. \A f : Gather(f, <<>>) = <<>>
  BY GatherEmpty
<1>2. Yield(c, <<>>) = <<>>
  BY <1>1 DEF Yield
<1>3. Prints(c, <<>>) = <<>>
  BY <1>1 DEF Prints
<1> QED
  BY <1>2, <1>3

(* What a command yields depends on the input and the program alone.       *)
LEMMA YieldStays ==
  ASSUME text' = text, program' = program
  PROVE  \A c, vs : Yield(c, vs)' = Yield(c, vs) /\ Prints(c, vs)' = Prints(c, vs)
<1>1. \A x, v : Split(x, v)' = Split(x, v)
  BY DEF Split, SplitEnd, Span
<1>2. \A re, v : Occurs(re, v)' = Occurs(re, v)
  BY DEF Occurs
<1>3. Views' = Views
  <2>1. Length' = Length
    BY DEF Length
  <2> QED
    BY <2>1 DEF Views
<1>4. \A re, present : Selects(re, present)' = Selects(re, present)
  BY <1>2, <1>3, Zenon DEF Selects
<1>5. \A x : Splits(x)' = Splits(x)
  BY <1>1, <1>3 DEF Splits
<1> SUFFICES ASSUME NEW c, NEW vs
             PROVE  Yield(c, vs)' = Yield(c, vs) /\ Prints(c, vs)' = Prints(c, vs)
  OBVIOUS
<1> QED
  BY <1>4, <1>5, Zenon DEF Yield, Prints

(* The command reads its views one by one.                                 *)
Shown(c, v) == IF c.op = "p" THEN <<v>>
               ELSE IF c.op = "binder" THEN Selects(c.re, TRUE)[v]
               ELSE <<>>

(* A command that reads a view at a time yields what it makes of the first *)
(* view, then what it yields of the rest.                                  *)
LEMMA YieldNext ==
  ASSUME Given, NEW c, Command(c), c.op \notin FusedOps, NEW v \in Views, NEW vs \in Seq(Views)
  PROVE  /\ c.op = "x" => Yield(c, <<v>> \o vs) = Splits(c)[v] \o Yield(c, vs)
         /\ c.op \in {"g", "v"} => Yield(c, <<v>> \o vs) = Selects(c.re, c.op # "v")[v] \o Yield(c, vs)
         /\ c.op \in {"binder", "p"} => Yield(c, <<v>> \o vs) = <<v>> \o Yield(c, vs)
         /\ Prints(c, <<v>> \o vs) = Shown(c, v) \o Prints(c, vs)
<1>1. TextOK
  BY DEF Given
<1>2. c.op = "x" => StepsBy(Splits(c), Views)
  BY <1>1, SplitsType, GatherNext DEF Command
<1>3. \A re, present : StepsBy(Selects(re, present), Views)
  BY SelectsType, GatherNext
<1>4. c.op = "x" => Gather(Splits(c), <<v>> \o vs) = Splits(c)[v] \o Gather(Splits(c), vs)
  BY <1>2 DEF StepsBy
<1>5. \A re, present : Gather(Selects(re, present), <<v>> \o vs) =
                         Selects(re, present)[v] \o Gather(Selects(re, present), vs)
  BY <1>3, Zenon DEF StepsBy
<1> DEFINE all == <<v>> \o vs
<1> HIDE DEF all
<1>6. c.op = "x" => Yield(c, all) = Gather(Splits(c), all) /\ Yield(c, vs) = Gather(Splits(c), vs)
  BY DEF Yield
<1>7. c.op \in {"g", "v"} =>
        /\ Yield(c, all) = Gather(Selects(c.re, c.op # "v"), all)
        /\ Yield(c, vs) = Gather(Selects(c.re, c.op # "v"), vs)
  BY Zenon DEF Yield
<1>8. c.op \in {"binder", "p"} => Yield(c, all) = all /\ Yield(c, vs) = vs
  BY DEF Yield, FusedOps
<1>9. <<>> \o <<>> = <<>>
  OBVIOUS
<1>10. Prints(c, all) = Shown(c, v) \o Prints(c, vs)
  <2>1. CASE c.op = "p"
    BY <2>1, Zenon DEF Prints, Shown, all
  <2>2. CASE c.op # "p" /\ c.op = "binder"
    BY <1>5, <2>2, Zenon DEF Prints, Shown, all
  <2>3. CASE c.op # "p" /\ c.op # "binder"
    BY <1>9, <2>3, Zenon DEF Prints, Shown
  <2> QED
    BY <2>1, <2>2, <2>3
<1>11. c.op = "x" => Yield(c, all) = Splits(c)[v] \o Yield(c, vs)
  BY <1>4, <1>6, Zenon DEF all
<1>12. c.op \in {"g", "v"} => Yield(c, all) = Selects(c.re, c.op # "v")[v] \o Yield(c, vs)
  BY <1>5, <1>7, Zenon DEF all
<1>13. c.op \in {"binder", "p"} => Yield(c, all) = <<v>> \o Yield(c, vs)
  BY <1>8, Zenon DEF all
<1> QED
  BY <1>10, <1>11, <1>12, <1>13, Zenon DEF all

(* A sequence is its head before its tail.                                 *)
LEMMA FirstAndRest ==
  ASSUME NEW S, NEW s \in Seq(S), s # <<>>
  PROVE  s = <<Head(s)>> \o Tail(s) /\ Head(s) \in S /\ Tail(s) \in Seq(S)
<1>1. /\ Head(s) \in S /\ Tail(s) \in Seq(S) /\ Len(Tail(s)) = Len(s) - 1
      /\ \A k \in 1..Len(Tail(s)) : Tail(s)[k] = s[k + 1]
  BY HeadTailProperties
<1>2. Head(s) = s[1] /\ Len(s) \in Nat /\ Len(s) >= 1
  BY EmptySeq
<1> DEFINE h == Head(s)
           t == Tail(s)
           n == Len(t)
<1>3. <<h>> \in Seq(S) /\ Len(<<h>>) = 1 /\ <<h>>[1] = h
  BY <1>1
<1> HIDE DEF h, t
<1>4. h \in S /\ t \in Seq(S) /\ n \in Nat /\ Len(s) = n + 1 /\ h = s[1] /\ \A k \in 1..n : t[k] = s[k + 1]
  BY <1>1, <1>2 DEF h, t
<1>5. <<h>> \o t \in Seq(S) /\ Len(<<h>> \o t) = 1 + n
      /\ \A k \in 1..(1 + n) : (<<h>> \o t)[k] = IF k <= 1 THEN <<h>>[k] ELSE t[k - 1]
  BY <1>3, <1>4, ConcatProperties
<1> DEFINE whole == <<h>> \o t
<1> HIDE DEF whole, n
<1>6. ASSUME NEW k \in 1..Len(s) PROVE s[k] = whole[k]
  <2>1. CASE k = 1
    BY <1>3, <1>4, <1>5, <2>1 DEF whole
  <2>2. CASE k # 1
    <3>1. k - 1 \in 1..n /\ (k - 1) + 1 = k /\ k \in 1..(1 + n) /\ ~ k <= 1
      BY <1>4, <2>2
    <3>2. whole[k] = t[k - 1]
      BY <1>5, <3>1 DEF whole
    <3>3. t[k - 1] = s[(k - 1) + 1]
      BY <1>4, <3>1
    <3> QED
      BY <3>1, <3>2, <3>3
  <2> QED
    BY <2>1, <2>2
<1>7. whole \in Seq(S) /\ Len(whole) = Len(s)
  BY <1>4, <1>5 DEF whole
<1>8. s = whole
  BY <1>6, <1>7, SeqEqual
<1> QED
  BY <1>1, <1>8 DEF whole, h, t

(* Every other command treats its first view and goes on to the next.      *)
EachMoves(out, said) ==
  /\ kept' = kept \o out /\ printed' = printed \o said
  /\ views' = Tail(views) /\ cursor = None /\ cursor' = None
  /\ Yield(plan[stage], views) = out \o Yield(plan[stage], Tail(views))
  /\ Prints(plan[stage], views) = said \o Prints(plan[stage], Tail(views))

(* EachView adds to what is kept and printed what its command yields and   *)
(* prints of the first view, which it drops.                               *)
LEMMA EachReads == ASSUME Shape, EachView PROVE \E out, said \in Seq(Views) : EachMoves(out, said)
<1> DEFINE c == plan[stage]
           v == Head(views)
           t == Tail(views)
           hit == Matches(c.re, v)
<1>1. Running({"x", "g", "v", "binder", "p"})
  BY DEF EachView
<1>2. /\ pc = "run" /\ views # <<>> /\ c.op \in {"x", "g", "v", "binder", "p"}
      /\ TextOK /\ ProgramOK /\ Given /\ c.op \notin FusedOps
  BY <1>1 DEF Running, Shape, Given, FusedOps
<1>3. Command(c)
  <2>1. plan = Optimized
    BY <1>2, PlanLength DEF Shape, Planning
  <2> QED
    BY <1>2, <2>1, CommandsOfPlan DEF Shape
<1>4. views = <<v>> \o t /\ v \in Views /\ t \in Seq(Views)
  BY <1>2, FirstAndRest DEF Shape
<1>5. cursor = None /\ cursor' = None /\ views' = t
  BY <1>2 DEF Shape, EachView
<1>6. /\ kept' = kept \o CASE c.op = "x" -> Split(c, v)
                           [] c.op = "g" -> IF hit THEN <<v>> ELSE <<>>
                           [] c.op = "v" -> IF hit THEN <<>> ELSE <<v>>
                           [] OTHER      -> <<v>>
      /\ printed' = IF c.op = "p" \/ (c.op = "binder" /\ hit) THEN Append(printed, v) ELSE printed
  BY DEF EachView
<1>7. printed \in Seq(Views) /\ kept \in Seq(Views)
  BY DEF Shape
<1> HIDE DEF c, v, t, hit
<1>8. c.op \in {"g", "v", "binder"} => (hit <=> Occurs(c.re, v))
  <2> SUFFICES ASSUME c.op \in {"g", "v", "binder"} PROVE hit <=> Occurs(c.re, v)
    OBVIOUS
  <2>1. c.re \in Regexes
    BY <1>3 DEF Command
  <2>2. v = Span(v.from, v.to) /\ v.to \in 0..Length /\ v.from \in 0..v.to
    BY <1>2, <1>4, ViewIsSpan
  <2>3. Matches(c.re, Span(v.from, v.to)) <=> Occurs(c.re, Span(v.from, v.to))
    BY <1>2, <2>1, <2>2, MatchesIfOccurs
  <2> QED
    BY <2>2, <2>3, Zenon DEF hit
<1>9. /\ \A re, present : Selects(re, present)[v] = IF Occurs(re, v) = present THEN <<v>> ELSE <<>>
      /\ \A x \in Splitters : Splits(x)[v] = Split(x, v)
      /\ Occurs(c.re, v) \in BOOLEAN
  <2>1. \A re, present : Selects(re, present)[v] = IF Occurs(re, v) = present THEN <<v>> ELSE <<>>
    BY <1>4, Zenon DEF Selects
  <2>2. \A x \in Splitters : Splits(x)[v] = Split(x, v)
    BY <1>4 DEF Splits
  <2>3. Occurs(c.re, v) \in BOOLEAN
    BY Zenon DEF Occurs
  <2> QED
    BY <2>1, <2>2, <2>3
<1>10. /\ c.op = "x" => Yield(c, <<v>> \o t) = Splits(c)[v] \o Yield(c, t)
       /\ c.op \in {"g", "v"} => Yield(c, <<v>> \o t) = Selects(c.re, c.op # "v")[v] \o Yield(c, t)
       /\ c.op \in {"binder", "p"} => Yield(c, <<v>> \o t) = <<v>> \o Yield(c, t)
       /\ Prints(c, <<v>> \o t) = Shown(c, v) \o Prints(c, t)
  BY <1>2, <1>3, <1>4, YieldNext
<1> DEFINE out == IF c.op = "x" THEN Splits(c)[v]
                  ELSE IF c.op \in {"g", "v"} THEN Selects(c.re, c.op # "v")[v]
                  ELSE <<v>>
<1>11. <<v>> \in Seq(Views) /\ <<>> \in Seq(Views)
  BY <1>4
<1>12. \A re, present : Selects(re, present)[v] \in Seq(Views)
  <2>1. \A re, present : Yields(Selects(re, present), Views, Views)
    BY SelectsType
  <2> QED
    BY <1>4, <2>1, Zenon DEF Yields
<1>13. out \in Seq(Views)
  <2>1. c.op = "x" => Splits(c)[v] \in Seq(Views)
    <3>1. \A x \in Splitters : Yields(Splits(x), Views, Views)
      BY <1>2, SplitsType
    <3> QED
      BY <1>3, <1>4, <3>1 DEF Command, Yields
  <2> QED
    BY <1>11, <1>12, <2>1
<1>14. Shown(c, v) \in Seq(Views)
  BY <1>11, <1>12 DEF Shown
<1>15. kept' = kept \o out
  <2>1. CASE c.op = "x"
    <3>1. c \in Splitters
      BY <1>3, <2>1 DEF Command
    <3> QED
      BY <1>6, <1>9, <2>1, <3>1
  <2>2. CASE c.op = "g"
    <3>1. out = IF hit THEN <<v>> ELSE <<>>
      <4>1. out = Selects(c.re, TRUE)[v]
        <5>1. (c.op # "v") = TRUE
          BY <2>2
        <5>2. c.op # "x" /\ c.op \in {"g", "v"}
          BY <2>2
        <5> QED
          BY <5>1, <5>2, Zenon
      <4>2. hit <=> Occurs(c.re, v)
        BY <1>8, <2>2
      <4> QED
        BY <1>9, <4>1, <4>2, Zenon
    <3> QED
      BY <1>6, <2>2, <3>1
  <2>3. CASE c.op = "v"
    <3>1. out = IF hit THEN <<>> ELSE <<v>>
      <4>1. out = Selects(c.re, FALSE)[v]
        <5>1. (c.op # "v") = FALSE
          BY <2>3
        <5>2. c.op # "x" /\ c.op \in {"g", "v"}
          BY <2>3
        <5> QED
          BY <5>1, <5>2, Zenon
      <4>2. hit <=> Occurs(c.re, v)
        BY <1>8, <2>3
      <4> QED
        BY <1>9, <4>1, <4>2, Zenon
    <3> QED
      BY <1>6, <2>3, <3>1
  <2>4. CASE c.op \in {"binder", "p"}
    BY <1>6, <2>4
  <2> QED
    BY <1>2, <2>1, <2>2, <2>3, <2>4
<1>16. printed' = printed \o Shown(c, v)
  <2>0. Append(printed, v) = printed \o <<v>> /\ printed \o <<>> = printed
    BY <1>4, <1>7, AppendIsConcat, ConcatEmptySeq
  <2>1. CASE c.op = "p"
    BY <1>6, <2>0, <2>1, Zenon DEF Shown
  <2>2. CASE c.op = "binder"
    <3>1. Shown(c, v) = IF hit THEN <<v>> ELSE <<>>
      <4>1. Shown(c, v) = Selects(c.re, TRUE)[v]
        BY <2>2 DEF Shown
      <4>2. hit <=> Occurs(c.re, v)
        BY <1>8, <2>2
      <4> QED
        BY <1>9, <4>1, <4>2, Zenon
    <3> QED
      BY <1>6, <2>0, <2>2, <3>1
  <2>3. CASE c.op # "p" /\ c.op # "binder"
    BY <1>6, <2>0, <2>3, Zenon DEF Shown
  <2> QED
    BY <2>1, <2>2, <2>3
<1>17. Yield(c, views) = out \o Yield(c, t)
  <2>1. CASE c.op = "x"
    BY <1>4, <1>10, <2>1, Zenon
  <2>2. CASE c.op # "x" /\ c.op \in {"g", "v"}
    BY <1>4, <1>10, <2>2, Zenon
  <2>3. CASE c.op \in {"binder", "p"}
    <3>1. out = <<v>>
      BY <2>3
    <3> HIDE DEF out
    <3> QED
      BY <1>4, <1>10, <2>3, <3>1
  <2> QED
    BY <1>2, <2>1, <2>2, <2>3
<1> HIDE DEF out
<1>18. Prints(c, views) = Shown(c, v) \o Prints(c, t)
  BY <1>4, <1>10
<1>19. EachMoves(out, Shown(c, v))
  BY <1>5, <1>15, <1>16, <1>17, <1>18 DEF EachMoves, c, t
<1> QED
  BY <1>13, <1>14, <1>19

-----------------------------------------------------------------------------
(* Every step.                                                             *)

(* The actions of the fused filters, and those of the optimizer.           *)
FusedActions == KeepMatching \/ KeepOthers
OptimizerActions == FuseLiteral \/ FuseIgnoreCase \/ FusePrint \/ Keep

(* The moves of a fused filter, with their ranges.                         *)
LEMMA FusedMoves ==
  ASSUME Shape, FusedActions
  PROVE  /\ Moves /\ Running(FusedOps)
         /\ UNCHANGED <<text, neon, program, i, plan, inputViews, stage, printed, pc>>
<1>1. Moves
  BY MatchingMoves, OthersMove DEF FusedActions
<1>2. Running(FusedOps)
  BY DEF FusedActions, KeepMatching, KeepOthers, Running, FusedOps
<1>3. UNCHANGED <<text, neon, program, i, plan, inputViews, stage, printed, pc>>
  BY DEF FusedActions, KeepMatching, KeepOthers, unchangedProgram
<1> QED
  BY <1>1, <1>2, <1>3

(* No step changes the input, the build or the program.                    *)
LEMMA NothingElseChanges ==
  ASSUME Next
  PROVE  UNCHANGED <<text, neon, program, inputViews>>
BY DEF Next, FuseLiteral, FuseIgnoreCase, FusePrint, Keep, Start, EachView, KeepMatching,
       KeepOthers, NextCommand, Replace, unchangedProgram

(* Once the optimizer is done its plan stays.                              *)
LEMMA PlanningStays ==
  ASSUME Planning, pc # "optimize", program' = program, plan' = plan, i' = i
  PROVE  Planning'
<1>1. FirstTwo' = FirstTwo /\ Optimized' = Optimized /\ (Fuses' <=> Fuses)
  BY PlanStays
<1> QED
  BY <1>1 DEF Planning

(* No step breaks Shape.                                                   *)
LEMMA ShapeStep == ASSUME Shape, [Next]_vars PROVE Shape'
<1>1. CASE Next
  <2>1. UNCHANGED <<text, neon, program, inputViews>>
    BY <1>1, NothingElseChanges
  <2>2. Given' /\ Views' = Views
    BY <2>1, GivenStays DEF Shape
  <2>3. ProgramOK /\ Planning /\ views \in Seq(Views) /\ kept \in Seq(Views) /\ printed \in Seq(Views)
    BY DEF Shape, Given
  <2>4. CASE OptimizerActions
    <3>1. Planning'
      BY <2>1, <2>3, <2>4, OptimizerPlans DEF OptimizerActions
    <3>2. pc = "optimize" /\ pc' = pc /\ UNCHANGED <<stage, inputViews, views, kept, cursor, printed>>
      BY <2>4 DEF OptimizerActions, FuseLiteral, FuseIgnoreCase, FusePrint, Keep, Fusible, Replace
    <3> QED
      BY <2>2, <3>1, <3>2 DEF Shape
  <2>5. CASE Start
    <3>1. Planning'
      BY <2>1, <2>3, <2>5, OptimizerPlans
    <3>2. /\ pc = "optimize" /\ pc' = "run" /\ i > Len(program) /\ plan' = plan
          /\ UNCHANGED <<stage, inputViews, views, kept, cursor, printed>>
      BY <2>5 DEF Start
    <3>3. stage \in 1..Len(plan)
      <4>1. i \in 1..(Len(program) + 1) /\ Len(program) \in 2..3
        BY <2>3, PlanLength DEF Planning
      <4>2. i = Len(program) + 1
        BY <3>2, <4>1
      <4>3. plan = Optimized
        BY <2>3, <4>2, PlanLength
      <4>4. Len(plan) \in 1..3
        BY <2>3, <4>3, CommandsOfPlan
      <4>5. stage = 1
        BY <3>2 DEF Shape
      <4> DEFINE n == Len(plan)
      <4> HIDE DEF n
      <4>6. n \in 1..3
        BY <4>4 DEF n
      <4>7. stage \in 1..n
        BY <4>5, <4>6
      <4> QED
        BY <4>7 DEF n
    <3> QED
      BY <2>2, <3>1, <3>2, <3>3 DEF Shape
  <2>6. CASE EachView
    <3>1. PICK out, said \in Seq(Views) : EachMoves(out, said)
      BY <2>6, EachReads
    <3>2. pc = "run" /\ views # <<>> /\ UNCHANGED <<program, i, plan, stage, pc>>
      BY <2>6 DEF EachView, Running, unchangedProgram
    <3>3. Planning'
      BY <2>3, <3>2, PlanningStays
    <3>4. kept' \in Seq(Views) /\ printed' \in Seq(Views)
      BY <2>3, <3>1, ConcatProperties DEF EachMoves
    <3>5. views' \in Seq(Views)
      BY <2>3, <3>1, <3>2, HeadTailProperties DEF EachMoves
    <3>6. cursor' = None
      BY <3>1 DEF EachMoves
    <3> QED
      BY <2>2, <3>2, <3>3, <3>4, <3>5, <3>6 DEF Shape
  <2>7. CASE FusedActions
    <3>1. Moves /\ Running(FusedOps) /\ UNCHANGED <<program, i, plan, stage, printed, pc>>
      BY <2>7, FusedMoves
    <3>2. /\ pc = "run" /\ views # <<>> /\ plan[stage].op \in FusedOps
          /\ Tail(views) \in Seq(Views) /\ Head(views).from \in 0..Head(views).to
          /\ Head(views).to \in Nat /\ Position \in Head(views).from..Head(views).to
      BY <3>1, FusedReads DEF Running
    <3>3. Planning'
      BY <2>3, <3>1, <3>2, PlanningStays
    <3>4. /\ views' \in Seq(Views) /\ kept' \in Seq(Views)
          /\ cursor' # None => views' # <<>> /\ cursor' \in (Head(views').from + 1)..Head(views').to
      <4> DEFINE from == Head(views).from
                 to == Head(views).to
      <4>0. \A next \in (Position + 1)..to : next \in (from + 1)..to
        <5> HIDE DEF from, to
        <5>1. from \in Nat /\ to \in Nat /\ Position \in from..to
          BY <3>2 DEF from, to
        <5> QED
          BY <5>1
      <4>1. CASE Leaves
        BY <2>3, <3>2, <4>1 DEF Leaves
      <4>2. CASE \E v \in Views : \E next \in (Position + 1)..to : Emits(v, next)
        <5>1. PICK v \in Views, next \in (from + 1)..to : Emits(v, next)
          BY <4>0, <4>2
        <5>2. Append(kept, v) \in Seq(Views)
          BY <2>3, AppendProperties
        <5> QED
          BY <2>3, <3>2, <5>1, <5>2 DEF Emits
      <4>3. CASE \E next \in (Position + 1)..to : Passes(next)
        <5>1. PICK next \in (from + 1)..to : Passes(next)
          BY <4>0, <4>3
        <5> QED
          BY <2>3, <3>2, <5>1 DEF Passes
      <4> QED
        BY <3>1, <4>1, <4>2, <4>3 DEF Moves
    <3>5. printed' \in Seq(Views) /\ pc' = "run" /\ stage' \in 1..Len(plan') /\ plan'[stage'].op \in FusedOps
      BY <2>3, <3>1, <3>2 DEF Shape
    <3> QED
      BY <2>2, <3>3, <3>4, <3>5 DEF Shape
  <2>8. CASE NextCommand
    <3>1. /\ pc = "run" /\ views = <<>> /\ views' = kept /\ kept' = <<>> /\ stage' = stage + 1
          /\ pc' = IF stage = Len(plan) THEN "done" ELSE "run"
          /\ UNCHANGED <<program, i, plan, cursor, printed>>
      BY <2>8 DEF NextCommand, unchangedProgram
    <3>2. Planning'
      BY <2>3, <3>1, PlanningStays
    <3>3. cursor' = None /\ stage \in 1..Len(plan) /\ Len(plan) \in 0..3
      BY <2>3, <3>1, PlanLength DEF Shape
    <3>4. /\ pc' = "run" => stage' \in 1..Len(plan')
          /\ pc' = "done" => stage' = Len(plan') + 1
          /\ pc' \in {"run", "done"}
      <4> DEFINE n == Len(plan)
      <4>1. n \in Nat /\ stage \in 1..n /\ Len(plan') = n
        BY <3>1, <3>3
      <4> HIDE DEF n
      <4> QED
        BY <3>1, <4>1 DEF n
    <3>5. <<>> \in Seq(Views)
      OBVIOUS
    <3> QED
      BY <2>2, <2>3, <3>1, <3>2, <3>3, <3>4, <3>5 DEF Shape
  <2> QED
    BY <1>1, <2>4, <2>5, <2>6, <2>7, <2>8 DEF Next, OptimizerActions, FusedActions
<1>2. CASE UNCHANGED vars
  <2>1. /\ UNCHANGED <<text, neon, program, inputViews>>
        /\ UNCHANGED <<i, plan, stage, views, kept, cursor, printed, pc>>
    BY <1>2 DEF vars
  <2>2. Given' /\ Views' = Views
    BY <2>1, GivenStays DEF Shape
  <2>3. Planning'
    <3>1. FirstTwo' = FirstTwo /\ Optimized' = Optimized /\ (Fuses' <=> Fuses)
      BY <2>1, PlanStays
    <3> QED
      BY <2>1, <3>1 DEF Planning, Shape
  <2> QED
    BY <2>1, <2>2, <2>3 DEF Shape
<1> QED
  BY <1>1, <1>2

(* Shape holds in every state.                                             *)
LEMMA ShapeAlways == Spec => []Shape
<1>1. Shape /\ [Next]_vars => Shape'
  BY ShapeStep
<1> QED
  BY <1>1, InitShape, PTL DEF Spec

(* Shape is stronger than the type invariant.                              *)
LEMMA ShapeTypes == Shape => TypeOK
<1> SUFFICES ASSUME Shape PROVE TypeOK
  OBVIOUS
<1>1. Len(plan) \in 0..3 /\ i \in 1..(Len(program) + 1)
  BY PlanLength DEF Shape, Given, Planning
<1>2. stage \in 1..(Len(plan) + 1)
  <2> DEFINE n == Len(plan)
  <2>1. n \in 0..3 /\ (stage = 1 \/ stage \in 1..n \/ stage = n + 1)
    BY <1>1 DEF Shape
  <2> HIDE DEF n
  <2>2. stage \in 1..(n + 1)
    BY <2>1
  <2> QED
    BY <2>2 DEF n
<1>3. \A k \in DOMAIN views : views[k].from <= views[k].to
  <2>1. \A k \in DOMAIN views : views[k] \in Views
    BY DEF Shape
  <2> QED
    BY <2>1 DEF Views
<1>4. cursor # None => views # <<>> /\ Head(views).from < cursor /\ cursor <= Head(views).to
  <2> SUFFICES ASSUME cursor # None
               PROVE  views # <<>> /\ Head(views).from < cursor /\ cursor <= Head(views).to
    OBVIOUS
  <2> DEFINE from == Head(views).from
             to == Head(views).to
  <2>1. views # <<>> /\ cursor \in (from + 1)..to
    BY DEF Shape
  <2>2. from \in Nat /\ to \in Nat
    <3>1. Head(views) \in Views
      BY <2>1, HeadTailProperties DEF Shape
    <3>2. Length \in Nat
      BY DEF Shape, Given, TextOK
    <3> QED
      BY <3>1, <3>2, ViewIsSpan DEF Views
  <2> HIDE DEF from, to
  <2>3. from < cursor /\ cursor <= to
    BY <2>1, <2>2
  <2> QED
    BY <2>1, <2>3 DEF from, to
<1> QED
  BY <1>1, <1>2, <1>3, <1>4 DEF TypeOK, Shape

(* Spec => []TypeOK: views lie in the input, a fused filter's cursor lies  *)
(* in the view it reads and never at its beginning, and stage and i stay   *)
(* in the plan and the program. It is about the early returns and the      *)
(* positions of LineFilterCommand and RegexLineFilterCommand               *)
(* (src/commands/mod.rs).                                                  *)
THEOREM TypeCorrect == Spec => []TypeOK
BY ShapeAlways, ShapeTypes, PTL

(* Spec => []FindsFirst: the literal search of src/engine/simd.rs finds    *)
(* the first occurrence of any needle in any input, whatever the width of  *)
(* a byte, the lanes of a word and the processor are. The borrows of the   *)
(* SWAR subtraction flag lanes that hold another byte, but never before    *)
(* the first lane that holds the byte.                                     *)
THEOREM SearchIsComplete == Spec => []FindsFirst
<1>1. Shape => FindsFirst
  <2> SUFFICES ASSUME Shape, NEW from \in 0..Length
               PROVE  Find(program[2].re.needle, from, Length) =
                        FirstOf({p \in from..(Length - Len(program[2].re.needle)) : At(program[2].re.needle, p)})
    BY Zenon DEF FindsFirst, FirstOf, Length
  <2>1. TextOK /\ program[2].re.needle \in Seq(Byte) \ {<<>>}
    BY RegexParts DEF Shape, Given, ProgramOK
  <2>2. Length \in 0..Length /\ from \in 0..Length
    BY <2>1 DEF TextOK
  <2> QED
    BY <2>1, <2>2, FindFinds
<1> QED
  BY <1>1, ShapeAlways, PTL

-----------------------------------------------------------------------------
(* The invariant of the selection.                                         *)

(* The dot matches newlines, by the flag s: what the optimizer takes for a *)
(* line splitter is none.                                                  *)
Flagged == program[1].class = "dot" /\ program[1].dotAll

(* What a command has still to read.                                       *)
Remaining(vs, c) ==
  IF vs = <<>> THEN <<>>
  ELSE <<Span(IF c = None THEN Head(vs).from ELSE c, Head(vs).to)>> \o Tail(vs)

(* What the commands of the plan read, and what they have printed before.  *)
Read(k) ==
  LET second == Yield(Optimized[1], inputViews)
      third  == Yield(Optimized[2], second)
  IN  IF k = 1 THEN inputViews ELSE IF k = 2 THEN second
      ELSE IF k = 3 THEN third ELSE Yield(Optimized[3], third)

(* What is printed before the command k of the plan begins.                *)
Said(k) ==
  LET second == Prints(Optimized[1], Read(1))
      third  == second \o Prints(Optimized[2], Read(2))
  IN  IF k = 1 THEN <<>> ELSE IF k = 2 THEN second
      ELSE IF k = 3 THEN third ELSE third \o Prints(Optimized[3], Read(3))

(* The inductive invariant of the selection: what a command has yielded,   *)
(* with what it would yield of the views it has still to read, is what it  *)
(* yields of all it was given, and likewise what is printed.               *)
Progress ==
  /\ pc = "run" =>
       /\ kept \o Yield(plan[stage], Remaining(views, cursor)) = Read(stage + 1)
       /\ printed \o Prints(plan[stage], Remaining(views, cursor)) = Said(stage + 1)
  /\ pc = "done" => views = Read(Len(plan) + 1) /\ printed = Said(Len(plan) + 1)

(* Without a cursor all views remain.                                      *)
LEMMA RemainingIsViews ==
  \A vs \in Seq(Views) : TextOK => Remaining(vs, None) = vs
<1> SUFFICES ASSUME NEW vs \in Seq(Views), TextOK PROVE Remaining(vs, None) = vs
  OBVIOUS
<1>1. CASE vs = <<>>
  BY <1>1 DEF Remaining
<1>2. CASE vs # <<>>
  <2>1. vs = <<Head(vs)>> \o Tail(vs) /\ Head(vs) \in Views
    BY <1>2, FirstAndRest
  <2>2. Head(vs) = Span(Head(vs).from, Head(vs).to)
    BY <2>1, ViewIsSpan
  <2>3. Remaining(vs, None) = <<Span(Head(vs).from, Head(vs).to)>> \o Tail(vs)
    BY <1>2, Zenon DEF Remaining
  <2> QED
    BY <2>1, <2>2, <2>3, Zenon
<1> QED
  BY <1>1, <1>2

(* Each command of the plan reads what the one before it yields.           *)
LEMMA ReadStep ==
  ASSUME Given
  PROVE  \A k \in 1..Len(Optimized) :
           /\ Read(k) \in Seq(Views) /\ Read(k + 1) \in Seq(Views)
           /\ Said(k) \in Seq(Views) /\ Said(k + 1) \in Seq(Views)
           /\ Read(k + 1) = Yield(Optimized[k], Read(k))
           /\ Said(k + 1) = Said(k) \o Prints(Optimized[k], Read(k))
<1>1. Len(Optimized) \in 1..3 /\ \A k \in 1..Len(Optimized) : Command(Optimized[k])
  BY CommandsOfPlan DEF Given
<1>2. inputViews \in Seq(Views) /\ <<>> \in Seq(Views)
  BY DEF Given
<1> DEFINE n == Len(Optimized)
<1> HIDE DEF n
<1>3. n \in 1..3 /\ \A k \in 1..n : Command(Optimized[k])
  BY <1>1 DEF n
<1>4. \A k \in 1..n : \A vs \in Seq(Views) :
        Yield(Optimized[k], vs) \in Seq(Views) /\ Prints(Optimized[k], vs) \in Seq(Views)
  BY <1>3, YieldType
<1>5. \A s, t \in Seq(Views) : s \o t \in Seq(Views)
  BY ConcatProperties
<1>6. /\ Read(1) = inputViews /\ Said(1) = <<>>
      /\ Read(2) = Yield(Optimized[1], Read(1)) /\ Said(2) = Prints(Optimized[1], Read(1))
      /\ Read(3) = Yield(Optimized[2], Read(2)) /\ Said(3) = Said(2) \o Prints(Optimized[2], Read(2))
      /\ Read(4) = Yield(Optimized[3], Read(3)) /\ Said(4) = Said(3) \o Prints(Optimized[3], Read(3))
  BY DEF Read, Said
<1>7. Read(1) \in Seq(Views) /\ Said(1) \in Seq(Views) /\ 1 \in 1..n
  <2>1. 1 \in 1..n
    BY <1>3
  <2> QED
    BY <1>2, <1>6, <2>1, Zenon
<1>8. Read(2) \in Seq(Views) /\ Said(2) \in Seq(Views) /\ Said(2) = Said(1) \o Prints(Optimized[1], Read(1))
  <2>1. Prints(Optimized[1], Read(1)) \in Seq(Views) /\ Yield(Optimized[1], Read(1)) \in Seq(Views)
    BY <1>4, <1>7
  <2>2. <<>> \o Prints(Optimized[1], Read(1)) = Prints(Optimized[1], Read(1))
    BY <2>1, ConcatEmptySeq
  <2> QED
    BY <1>6, <2>1, <2>2
<1>9. 2 \in 1..n => Read(3) \in Seq(Views) /\ Said(3) \in Seq(Views)
  <2>1. 2 \in 1..n => Yield(Optimized[2], Read(2)) \in Seq(Views) /\ Prints(Optimized[2], Read(2)) \in Seq(Views)
    BY <1>4, <1>8
  <2> QED
    BY <1>5, <1>6, <1>8, <2>1
<1>10. 3 \in 1..n => 2 \in 1..n /\ Read(4) \in Seq(Views) /\ Said(4) \in Seq(Views)
  <2>1. 3 \in 1..n => 2 \in 1..n
    BY <1>3
  <2>2. 3 \in 1..n => Yield(Optimized[3], Read(3)) \in Seq(Views) /\ Prints(Optimized[3], Read(3)) \in Seq(Views)
    BY <1>4, <1>9, <2>1
  <2> QED
    BY <1>5, <1>6, <1>9, <2>1, <2>2
<1> SUFFICES ASSUME NEW k \in 1..n
             PROVE  /\ Read(k) \in Seq(Views) /\ Read(k + 1) \in Seq(Views)
                    /\ Said(k) \in Seq(Views) /\ Said(k + 1) \in Seq(Views)
                    /\ Read(k + 1) = Yield(Optimized[k], Read(k))
                    /\ Said(k + 1) = Said(k) \o Prints(Optimized[k], Read(k))
  BY DEF n
<1>11. CASE k = 1
  BY <1>6, <1>7, <1>8, <1>11
<1>12. CASE k = 2
  BY <1>6, <1>8, <1>9, <1>12
<1>13. CASE k = 3
  BY <1>6, <1>9, <1>10, <1>13
<1> QED
  BY <1>3, <1>11, <1>12, <1>13

(* What the plan means depends on the input and the program alone.         *)
LEMMA ReadStays ==
  ASSUME text' = text, program' = program, inputViews' = inputViews
  PROVE  \A k : Read(k)' = Read(k) /\ Said(k)' = Said(k)
<1>1. Optimized' = Optimized
  BY PlanStays
<1>2. \A c, vs : Yield(c, vs)' = Yield(c, vs) /\ Prints(c, vs)' = Prints(c, vs)
  BY YieldStays
<1>3. \A k : Read(k)' = Read(k)
  BY <1>1, <1>2 DEF Read
<1> QED
  BY <1>1, <1>2, <1>3 DEF Said

(* A fused filter yields of its views what the two commands would.         *)
LEMMA YieldFused ==
  ASSUME Given, NEW c, Command(c), c.op \in FusedOps,
         NEW to \in 0..Length, NEW p \in 0..to, NEW vs \in Seq(Views)
  PROVE  /\ Yield(c, <<Span(p, to)>> \o vs) = Filtered(program[1], c.re, ~ c.invert, p, to) \o Yield(c, vs)
         /\ Prints(c, <<Span(p, to)>> \o vs) = <<>> /\ Prints(c, vs) = <<>>
<1> DEFINE sel == Selects(c.re, ~ c.invert)
           cut == Splits(program[1])
           v   == Span(p, to)
<1>1. TextOK /\ program[1] \in Splitters
  BY DEF Given, ProgramOK
<1>2. v \in Views
  BY <1>1, SpanIsView
<1>3. Yields(sel, Views, Views) /\ Yields(cut, Views, Views)
  BY <1>1, SelectsType, SplitsType
<1>4. cut[v] = Split(program[1], v)
  BY <1>2 DEF Splits
<1>5. Filtered(program[1], c.re, ~ c.invert, p, to) = Gather(sel, Split(program[1], v))
  BY DEF Filtered
<1>6. \A ws : Yield(c, ws) = Gather(sel, Gather(cut, ws)) /\ Prints(c, ws) = <<>>
  BY DEF Yield, Prints, FusedOps
<1> HIDE DEF sel, cut, v
<1>7. StepsBy(cut, Views)
  BY <1>3, GatherNext
<1>8. Gather(cut, <<v>> \o vs) = cut[v] \o Gather(cut, vs)
  BY <1>2, <1>7 DEF StepsBy
<1>9. cut[v] \in Seq(Views) /\ Gather(cut, vs) \in Seq(Views)
  BY <1>2, <1>3, GatherType DEF Yields
<1>10. \A s, t \in Seq(Views) : Gather(sel, s \o t) = Gather(sel, s) \o Gather(sel, t)
  BY <1>3, GatherConcat
<1>11. Gather(sel, Gather(cut, <<v>> \o vs)) = Gather(sel, cut[v]) \o Gather(sel, Gather(cut, vs))
  BY <1>8, <1>9, <1>10
<1> QED
  BY <1>4, <1>5, <1>6, <1>11, Zenon DEF v

(* Progress while a command runs, with the command and the views named.    *)
Going(c, vs, out, said, k) ==
  out \o Yield(c, vs) = Read(k + 1) /\ said \o Prints(c, vs) = Said(k + 1)

(* A step of a fused filter over a line splitter keeps what it has yielded *)
(* and what it has still to yield together: it emits the next line         *)
(* selected of what remains, passes by a line that is not, or leaves a     *)
(* view of which nothing is selected any more.                             *)
LEMMA FusedProgress ==
  ASSUME ~ Flagged, Shape, Progress, FusedActions
  PROVE  Going(plan[stage], Remaining(views', cursor'), kept', printed', stage)
<1> DEFINE c == plan[stage]
           p == Position
           to == Head(views).to
           t == Tail(views)
<1>1. Moves /\ Running(FusedOps) /\ printed' = printed
  BY FusedMoves
<1>2. /\ Command(c) /\ c.op \in FusedOps /\ views # <<>>
      /\ t \in Seq(Views) /\ to \in 0..Length /\ to \in Nat /\ p \in 0..to
      /\ pc = "run" /\ Given
  BY <1>1, FusedReads DEF Running, Shape
<1>3. LineSplitter(program[1])
  BY <1>2 DEF Flagged, LineSplitter, Command, FusedOps, IsLineSplit, Given, ProgramOK
<1>4. Remaining(views, cursor) = <<Span(p, to)>> \o t
  BY <1>2, Zenon DEF Remaining, Position
<1>5. kept \o Yield(c, Remaining(views, cursor)) = Read(stage + 1)
      /\ printed \o Prints(c, Remaining(views, cursor)) = Said(stage + 1)
  BY <1>2 DEF Progress
<1>6. kept \in Seq(Views) /\ printed \in Seq(Views) /\ TextOK
  BY DEF Shape, Given
<1>7. ASSUME NEW q \in 0..to
      PROVE  /\ Yield(c, <<Span(q, to)>> \o t) = Rest(q) \o Yield(c, t)
             /\ Prints(c, <<Span(q, to)>> \o t) = <<>> /\ Prints(c, t) = <<>>
             /\ Rest(q) \in Seq(Views)
  <2> HIDE DEF c, to, t
  <2>1. /\ Yield(c, <<Span(q, to)>> \o t) = Filtered(program[1], c.re, ~ c.invert, q, to) \o Yield(c, t)
        /\ Prints(c, <<Span(q, to)>> \o t) = <<>> /\ Prints(c, t) = <<>>
    BY <1>2, YieldFused
  <2>2. \A re, present : Filtered(program[1], re, present, q, to) \in Seq(Views)
    BY <1>2, <1>6, FilteredType DEF Given, ProgramOK
  <2>3. Rest(q) = Filtered(program[1], c.re, ~ c.invert, q, to)
    BY Zenon DEF Rest, c, to
  <2>4. Rest(q) \in Seq(Views)
    BY <2>2, <2>3, Zenon
  <2> QED
    BY <2>1, <2>3, <2>4
<1>8. Yield(c, t) \in Seq(Views)
  BY <1>2, YieldType
<1>9. Remaining(t, None) = t
  BY <1>2, <1>6, RemainingIsViews
<1>10. \A a, b, d \in Seq(Views) : (a \o b) \o d = a \o (b \o d)
  BY ConcatAssociative
<1>11. \A a \in Seq(Views) : a \o <<>> = a /\ <<>> \o a = a
  BY ConcatEmptySeq
<1> HIDE DEF c, p, to, t
<1>12. kept \o (Rest(p) \o Yield(c, t)) = Read(stage + 1) /\ printed \o <<>> = Said(stage + 1)
  BY <1>2, <1>4, <1>5, <1>7
<1>13. \A next \in (p + 1)..to : next \in 0..to /\ next # None
  BY <1>2 DEF None
<1>14. ASSUME NEW next \in (p + 1)..to, cursor' = next, views' = views
       PROVE  Remaining(views', cursor') = <<Span(next, to)>> \o t
  <2>1. next # None
    BY <1>13
  <2> QED
    BY <1>2, <1>14, <2>1, Zenon DEF Remaining, to, t
<1>15. CASE Leaves /\ Rest(p) = <<>>
  <2>1. Remaining(views', cursor') = t /\ kept' = kept
    BY <1>9, <1>15 DEF Leaves, t
  <2>2. Prints(c, t) = <<>>
    BY <1>2, <1>7
  <2>3. kept \o Yield(c, t) = Read(stage + 1)
    BY <1>8, <1>11, <1>12, <1>15
  <2> QED
    BY <1>1, <1>12, <2>1, <2>2, <2>3 DEF Going, c
<1>16. ASSUME NEW v \in Views, NEW next \in (p + 1)..to, Emits(v, next), Rest(p) = Cons(v, Rest(next))
       PROVE  Going(c, Remaining(views', cursor'), kept', printed', stage)
  <2>1. kept' = Append(kept, v) /\ cursor' = next /\ views' = views
    BY <1>16 DEF Emits
  <2>2. Remaining(views', cursor') = <<Span(next, to)>> \o t /\ next \in 0..to
    BY <1>13, <1>14, <2>1
  <2>3. /\ Yield(c, <<Span(next, to)>> \o t) = Rest(next) \o Yield(c, t)
        /\ Prints(c, <<Span(next, to)>> \o t) = <<>> /\ Rest(next) \in Seq(Views)
    BY <1>7, <2>2
  <2>4. kept' = kept \o <<v>>
    BY <1>6, <2>1, AppendIsConcat
  <2>5. <<v>> \in Seq(Views) /\ Rest(next) \o Yield(c, t) \in Seq(Views)
    BY <1>8, <2>3, ConcatProperties
  <2>6. (kept \o <<v>>) \o (Rest(next) \o Yield(c, t)) = kept \o (<<v>> \o (Rest(next) \o Yield(c, t)))
    BY <1>6, <1>10, <2>5, Zenon
  <2>7. <<v>> \o (Rest(next) \o Yield(c, t)) = (<<v>> \o Rest(next)) \o Yield(c, t)
    BY <1>8, <1>10, <2>3, <2>5, Zenon
  <2>8. kept' \o Yield(c, <<Span(next, to)>> \o t) = Read(stage + 1)
    BY <1>12, <1>16, <2>3, <2>4, <2>6, <2>7, Zenon DEF Cons
  <2> QED
    BY <1>1, <1>12, <2>2, <2>3, <2>8 DEF Going
<1>17. ASSUME NEW next \in (p + 1)..to, Passes(next), Rest(p) = Rest(next)
       PROVE  Going(c, Remaining(views', cursor'), kept', printed', stage)
  <2>1. kept' = kept /\ cursor' = next /\ views' = views
    BY <1>17 DEF Passes
  <2>2. Remaining(views', cursor') = <<Span(next, to)>> \o t /\ next \in 0..to
    BY <1>13, <1>14, <2>1
  <2>3. /\ Yield(c, <<Span(next, to)>> \o t) = Rest(next) \o Yield(c, t)
        /\ Prints(c, <<Span(next, to)>> \o t) = <<>>
    BY <1>7, <2>2
  <2> QED
    BY <1>1, <1>12, <1>17, <2>1, <2>2, <2>3 DEF Going
<1> QED
  BY <1>1, <1>3, <1>15, <1>16, <1>17, Zenon DEF Moves, p, to, c

(* So does a step of a command that looks at a view at a time.             *)
LEMMA EachProgress ==
  ASSUME Shape, Progress, EachView
  PROVE  Going(plan[stage], Remaining(views', cursor'), kept', printed', stage)
<1> DEFINE c == plan[stage]
           t == Tail(views)
<1>1. PICK out, said \in Seq(Views) : EachMoves(out, said)
  BY EachReads
<1>2. pc = "run" /\ views # <<>> /\ Given /\ TextOK
  BY DEF EachView, Running, Shape, Given
<1>3. kept \in Seq(Views) /\ printed \in Seq(Views) /\ views \in Seq(Views)
  BY DEF Shape
<1>4. t \in Seq(Views)
  BY <1>2, <1>3, FirstAndRest
<1>5. Command(c)
  <2>1. plan = Optimized
    BY <1>2, PlanLength DEF Shape, Planning, Given
  <2> QED
    BY <1>2, <2>1, CommandsOfPlan DEF Shape, Given
<1>6. Remaining(views, None) = views /\ Remaining(t, None) = t
  BY <1>2, <1>3, <1>4, RemainingIsViews
<1>7. /\ kept' = kept \o out /\ printed' = printed \o said /\ views' = t
      /\ cursor = None /\ cursor' = None
      /\ Yield(c, views) = out \o Yield(c, t) /\ Prints(c, views) = said \o Prints(c, t)
  BY <1>1 DEF EachMoves
<1>8. kept \o Yield(c, Remaining(views, cursor)) = Read(stage + 1)
      /\ printed \o Prints(c, Remaining(views, cursor)) = Said(stage + 1)
  BY <1>2 DEF Progress
<1>9. Yield(c, t) \in Seq(Views) /\ Prints(c, t) \in Seq(Views)
  BY <1>2, <1>4, <1>5, YieldType
<1> DEFINE y == Yield(c, t)
           z == Prints(c, t)
           V == Seq(Views)
<1>10. \A a, b, d \in V : (a \o b) \o d = a \o (b \o d)
  BY ConcatAssociative
<1>15. kept \in V /\ printed \in V /\ out \in V /\ said \in V /\ y \in V /\ z \in V
  BY <1>3, <1>9
<1> HIDE DEF c, t, y, z, V
<1>11. (kept \o out) \o y = kept \o (out \o y)
  BY <1>15, <1>10, SMTT(20)
<1>12. (printed \o said) \o z = printed \o (said \o z)
  BY <1>15, <1>10, SMTT(20)
<1>13. Remaining(views', cursor') = t
  BY <1>6, <1>7
<1>14. kept' \o Yield(c, t) = Read(stage + 1) /\ printed' \o Prints(c, t) = Said(stage + 1)
  BY <1>6, <1>7, <1>8, <1>11, <1>12, Zenon DEF y, z
<1> QED
  BY <1>13, <1>14 DEF Going, c

(* What runs is the plan that the optimizer aims at.                       *)
LEMMA PlanReady == ASSUME Shape, pc # "optimize" PROVE plan = Optimized
BY PlanLength DEF Shape, Given, Planning

(* A command that has not begun has everything before it.                  *)
LEMMA Beginning ==
  ASSUME Given, NEW k \in 1..Len(Optimized)
  PROVE  Going(Optimized[k], Remaining(Read(k), None), <<>>, Said(k), k)
<1>1. /\ Read(k) \in Seq(Views) /\ Read(k + 1) \in Seq(Views)
      /\ Read(k + 1) = Yield(Optimized[k], Read(k))
      /\ Said(k + 1) = Said(k) \o Prints(Optimized[k], Read(k))
  BY ReadStep
<1>2. Remaining(Read(k), None) = Read(k)
  BY <1>1, RemainingIsViews DEF Given
<1>3. <<>> \o Read(k + 1) = Read(k + 1)
  BY <1>1, ConcatEmptySeq
<1> QED
  BY <1>1, <1>2, <1>3, Zenon DEF Going

(* No step breaks Progress, unless the splitter is flagged.                *)
LEMMA ProgressStep ==
  ASSUME ~ Flagged, Shape, Progress, [Next]_vars
  PROVE  Progress'
<1>s. Shape'
  BY ShapeStep
<1>g. Given /\ TextOK
  BY DEF Shape, Given
<1>1. CASE Next
  <2>1. UNCHANGED <<text, neon, program, inputViews>>
    BY <1>1, NothingElseChanges
  <2>2. (\A k : Read(k)' = Read(k) /\ Said(k)' = Said(k))
        /\ (\A c, vs : Yield(c, vs)' = Yield(c, vs) /\ Prints(c, vs)' = Prints(c, vs))
        /\ Views' = Views
    BY <2>1, <1>g, ReadStays, YieldStays, GivenStays
  <2>3. ASSUME NEW c, NEW k, pc' = "run", plan'[stage'] = c, stage' = k,
               Going(c, Remaining(views', cursor'), kept', printed', k)
        PROVE  Progress'
    <3>1. \A vs : Yield(plan[stage], vs)' = Yield(c, vs) /\ Prints(plan[stage], vs)' = Prints(c, vs)
      BY <2>2, <2>3
    <3>2. Read(stage + 1)' = Read(k + 1) /\ Said(stage + 1)' = Said(k + 1)
      BY <2>2, <2>3
    <3>3. (kept \o Yield(plan[stage], Remaining(views, cursor)))' = Read(k + 1)
          /\ (printed \o Prints(plan[stage], Remaining(views, cursor)))' = Said(k + 1)
      <4>1. Yield(plan[stage], Remaining(views, cursor))' = Yield(c, Remaining(views', cursor'))
            /\ Prints(plan[stage], Remaining(views, cursor))' = Prints(c, Remaining(views', cursor'))
        BY <2>2, <2>3, Zenon
      <4> QED
        BY <2>3, <4>1, Zenon DEF Going
    <3> QED
      BY <2>3, <3>2, <3>3, Zenon DEF Progress
  <2>4. CASE OptimizerActions
    <3>1. pc' = "optimize"
      BY <2>4 DEF OptimizerActions, FuseLiteral, FuseIgnoreCase, FusePrint, Keep, Fusible, Replace
    <3> QED
      BY <3>1 DEF Progress
  <2>5. CASE Start
    <3>1. /\ pc = "optimize" /\ pc' = "run" /\ plan' = plan
          /\ UNCHANGED <<stage, inputViews, views, kept, cursor, printed>>
      BY <2>5 DEF Start
    <3>2. stage = 1 /\ views = inputViews /\ kept = <<>> /\ printed = <<>> /\ cursor = None
      BY <3>1 DEF Shape
    <3>3. Optimized' = Optimized /\ plan' = Optimized' /\ stage' = 1
      <4>1. ProgramOK /\ Planning /\ i > Len(program)
        BY <2>5 DEF Start, Shape, Given
      <4>2. i \in 1..(Len(program) + 1) /\ Len(program) \in 2..3
        BY <4>1, PlanLength DEF Planning
      <4>3. i = Len(program) + 1
        BY <4>1, <4>2
      <4>4. plan = Optimized
        BY <4>1, <4>3, PlanLength
      <4>5. Optimized' = Optimized
        BY <2>1, PlanStays
      <4> QED
        BY <3>1, <3>2, <4>4, <4>5
    <3>4. 1 \in 1..Len(Optimized)
      BY <1>g, CommandsOfPlan DEF Given
    <3>5. views = Read(1) /\ printed = Said(1)
      BY <3>2, Zenon DEF Read, Said
    <3>6. Going(Optimized[1], Remaining(Read(1), None), <<>>, Said(1), 1)
      BY <1>g, <3>4, Beginning
    <3>7. Going(Optimized[1], Remaining(views', cursor'), kept', printed', 1)
      BY <3>1, <3>2, <3>5, <3>6, Zenon
    <3> QED
      BY <2>3, <3>1, <3>3, <3>7
  <2>6. CASE EachView
    <3>1. pc' = "run" /\ plan' = plan /\ stage' = stage
      BY <2>6 DEF EachView, Running, unchangedProgram
    <3>2. Going(plan[stage], Remaining(views', cursor'), kept', printed', stage)
      BY <2>6, EachProgress
    <3> QED
      BY <2>3, <3>1, <3>2
  <2>7. CASE FusedActions
    <3>1. pc' = "run" /\ plan' = plan /\ stage' = stage
      BY <2>7, FusedMoves DEF Running
    <3>2. Going(plan[stage], Remaining(views', cursor'), kept', printed', stage)
      BY <2>7, FusedProgress
    <3> QED
      BY <2>3, <3>1, <3>2
  <2>8. CASE NextCommand
    <3>1. /\ pc = "run" /\ views = <<>> /\ views' = kept /\ kept' = <<>> /\ stage' = stage + 1
          /\ pc' = IF stage = Len(plan) THEN "done" ELSE "run"
          /\ plan' = plan /\ cursor' = cursor /\ printed' = printed
      BY <2>8 DEF NextCommand, unchangedProgram
    <3>2. kept \in Seq(Views) /\ printed \in Seq(Views) /\ cursor = None /\ plan = Optimized
      BY <3>1, PlanReady DEF Shape
    <3>3. kept = Read(stage + 1) /\ printed = Said(stage + 1)
      <4>1. Remaining(views, cursor) = <<>>
        BY <3>1 DEF Remaining
      <4>2. kept \o Yield(plan[stage], <<>>) = Read(stage + 1)
            /\ printed \o Prints(plan[stage], <<>>) = Said(stage + 1)
        BY <3>1, <4>1 DEF Progress
      <4>3. kept \o <<>> = kept /\ printed \o <<>> = printed
        BY <3>2, ConcatEmptySeq
      <4> QED
        BY <4>2, <4>3, YieldNothing
    <3>4. CASE stage = Len(plan)
      <4>1. pc' = "done" /\ Len(plan') = stage
        BY <3>1, <3>4
      <4>2. Read(Len(plan) + 1)' = Read(stage + 1) /\ Said(Len(plan) + 1)' = Said(stage + 1)
        BY <2>2, <4>1
      <4> QED
        BY <3>1, <3>3, <4>1, <4>2 DEF Progress
    <3>5. CASE stage # Len(plan)
      <4>1. pc' = "run"
        BY <3>1, <3>5
      <4>2. stage + 1 \in 1..Len(Optimized)
        BY <1>s, <3>1, <3>2, <4>1 DEF Shape
      <4>3. Going(Optimized[stage + 1], Remaining(Read(stage + 1), None), <<>>, Said(stage + 1), stage + 1)
        BY <1>g, <4>2, Beginning
      <4>4. Going(plan'[stage'], Remaining(views', cursor'), kept', printed', stage')
        BY <3>1, <3>2, <3>3, <4>3, Zenon
      <4> QED
        BY <2>3, <4>1, <4>4
    <3> QED
      BY <3>4, <3>5
  <2> QED
    BY <1>1, <2>4, <2>5, <2>6, <2>7, <2>8 DEF Next, OptimizerActions, FusedActions
<1>2. CASE UNCHANGED vars
  <2>1. /\ UNCHANGED <<text, program, inputViews>>
        /\ UNCHANGED <<plan, stage, views, kept, cursor, printed, pc>>
    BY <1>2 DEF vars
  <2>2. (\A k : Read(k)' = Read(k) /\ Said(k)' = Said(k))
        /\ (\A c, vs : Yield(c, vs)' = Yield(c, vs) /\ Prints(c, vs)' = Prints(c, vs))
    BY <2>1, ReadStays, YieldStays
  <2>3. Read(stage + 1)' = Read(stage + 1) /\ Said(stage + 1)' = Said(stage + 1)
        /\ Read(Len(plan) + 1)' = Read(Len(plan) + 1) /\ Said(Len(plan) + 1)' = Said(Len(plan) + 1)
    BY <2>1, <2>2
  <2>4. /\ Yield(plan[stage], Remaining(views, cursor))' = Yield(plan[stage], Remaining(views, cursor))
        /\ Prints(plan[stage], Remaining(views, cursor))' = Prints(plan[stage], Remaining(views, cursor))
    BY <2>1, <2>2, Zenon
  <2> QED
    BY <2>1, <2>3, <2>4, Zenon DEF Progress
<1> QED
  BY <1>1, <1>2

(* Nothing runs in the beginning.                                          *)
LEMMA InitProgress == Init => Progress
BY DEF Init, Progress

(* Progress holds in every state, of every program but the flagged ones.   *)
LEMMA ProgressAlways == Spec => [](Flagged \/ Progress)
<1>1. [Next]_vars => (Flagged' <=> Flagged)
  BY NothingElseChanges DEF vars, Flagged
<1>2. Shape /\ (Flagged \/ Progress) /\ [Next]_vars => Flagged' \/ Progress'
  BY <1>1, ProgressStep
<1> QED
  BY <1>2, InitProgress, ShapeAlways, PTL DEF Spec

-----------------------------------------------------------------------------
(* The property.                                                           *)

(* The lines of the property are what the splitter gathers, and those      *)
(* selected what the filter gathers of them.                               *)
LEMMA LinesAre ==
  ASSUME Given
  PROVE  /\ AllLines = Gather(Splits(program[1]), inputViews)
         /\ AllLines \in Seq(Views) /\ Selected \in Seq(Views)
         /\ Selected = Gather(Selects(program[2].re, program[2].op # "v"), AllLines)
<1>1. TextOK /\ program[1] \in Splitters /\ inputViews \in Seq(Views)
  BY DEF Given, ProgramOK
<1>2. \A k \in DOMAIN inputViews : Splits(program[1])[inputViews[k]] = Split(program[1], inputViews[k])
  <2>1. \A k \in DOMAIN inputViews : inputViews[k] \in Views
    BY <1>1
  <2> QED
    BY <2>1 DEF Splits
<1>3. [k \in DOMAIN inputViews |-> Splits(program[1])[inputViews[k]]] =
      [k \in DOMAIN inputViews |-> Split(program[1], inputViews[k])]
  BY <1>2, Zenon
<1>4. AllLines = Gather(Splits(program[1]), inputViews)
  BY <1>3, Zenon DEF AllLines, Gather
<1>5. AllLines \in Seq(Views)
  <2>1. \A vs \in Seq(Views) : Gather(Splits(program[1]), vs) \in Seq(Views)
    BY <1>1, SplitsType, GatherType
  <2> QED
    BY <1>1, <1>4, <2>1
<1>6. Selected = Gather(Selects(program[2].re, program[2].op # "v"), AllLines)
  <2>1. \A re, present : LinesWith(AllLines, re, present) = Gather(Selects(re, present), AllLines)
    BY <1>5, LinesWithIs
  <2> QED
    BY <2>1, Zenon DEF Selected
<1>7. Selected \in Seq(Views)
  <2>1. \A re, present : Gather(Selects(re, present), AllLines) \in Seq(Views)
    BY <1>5, SelectsType, GatherType
  <2> QED
    BY <1>6, <2>1, Zenon
<1> QED
  BY <1>4, <1>5, <1>6, <1>7

(* What the filter behind the two commands lets through.                   *)
LEMMA LastYields ==
  ASSUME NEW vs \in Seq(Views)
  PROVE  Yield(LastFilter, vs) = LinesWith(vs, LastFilter.re, TRUE) /\ Prints(LastFilter, vs) = <<>>
<1>1. LastFilter.op = "g"
  BY LastIsCommand
<1>2. (LastFilter.op # "v") = TRUE
  BY <1>1
<1>3. Yield(LastFilter, vs) = Gather(Selects(LastFilter.re, LastFilter.op # "v"), vs)
  BY <1>1 DEF Yield
<1>4. Yield(LastFilter, vs) = Gather(Selects(LastFilter.re, TRUE), vs)
  BY <1>2, <1>3, Zenon
<1>5. \A re : LinesWith(vs, re, TRUE) = Gather(Selects(re, TRUE), vs)
  BY LinesWithIs
<1>6. Prints(LastFilter, vs) = <<>>
  BY <1>1 DEF Prints
<1> QED
  BY <1>4, <1>5, <1>6, Zenon

(* A fused filter selects the same lines as the two commands.              *)
LEMMA FusedYields ==
  ASSUME Given, NEW c, Command(c), c.op \in FusedOps, c.re = program[2].re,
         c.invert <=> program[2].op = "v"
  PROVE  Yield(c, inputViews) = Selected /\ \A vs : Prints(c, vs) = <<>>
<1>1. (~ c.invert) = (program[2].op # "v")
  BY DEF Command, FusedOps
<1>2. Yield(c, inputViews) = Gather(Selects(c.re, ~ c.invert), Gather(Splits(program[1]), inputViews))
  BY DEF Yield, FusedOps
<1>3. AllLines = Gather(Splits(program[1]), inputViews)
      /\ Selected = Gather(Selects(program[2].re, program[2].op # "v"), AllLines)
  BY LinesAre
<1>4. Yield(c, inputViews) = Selected
  BY <1>1, <1>2, <1>3, Zenon
<1>5. \A vs : Prints(c, vs) = <<>>
  BY DEF Prints, FusedOps
<1> QED
  BY <1>4, <1>5

(* What the second command lets through to the command behind it.          *)
Through == IF program[2].op = "binder" THEN AllLines ELSE Selected

(* Whether the filter is a binder, which prints and lets all views         *)
(* through.                                                                *)
Binder  == program[2].op = "binder"

(* The two commands themselves.                                            *)
LEMMA PairYields ==
  ASSUME Given
  PROVE  /\ Yield(program[1], inputViews) = AllLines /\ Prints(program[1], inputViews) = <<>>
         /\ Yield(program[2], AllLines) = Through
         /\ Prints(program[2], AllLines) = IF Binder THEN Selected ELSE <<>>
<1>1. program[1].op = "x" /\ program[2].op \in {"g", "v", "binder"}
  BY SplitterParts DEF Given, ProgramOK
<1>2. AllLines = Gather(Splits(program[1]), inputViews)
      /\ Selected = Gather(Selects(program[2].re, program[2].op # "v"), AllLines)
  BY LinesAre
<1>3. Yield(program[1], inputViews) = AllLines /\ Prints(program[1], inputViews) = <<>>
  BY <1>1, <1>2 DEF Yield, Prints
<1>4. CASE Binder
  <2>1. (program[2].op # "v") = TRUE
    BY <1>4 DEF Binder
  <2>2. Selected = Gather(Selects(program[2].re, TRUE), AllLines)
    BY <1>2, <2>1, Zenon
  <2>3. Yield(program[2], AllLines) = AllLines
    BY <1>4 DEF Yield, FusedOps, Binder
  <2>4. Prints(program[2], AllLines) = Gather(Selects(program[2].re, TRUE), AllLines)
    BY <1>4 DEF Prints, Binder
  <2> QED
    BY <1>3, <1>4, <2>2, <2>3, <2>4, Zenon DEF Through, Binder
<1>5. CASE ~ Binder
  <2>1. program[2].op \in {"g", "v"}
    BY <1>1, <1>5 DEF Binder
  <2>2. Yield(program[2], AllLines) = Gather(Selects(program[2].re, program[2].op # "v"), AllLines)
    BY <2>1 DEF Yield
  <2>3. Prints(program[2], AllLines) = <<>>
    BY <2>1 DEF Prints
  <2> QED
    BY <1>2, <1>3, <1>5, <2>2, <2>3, Zenon DEF Through, Binder
<1> QED
  BY <1>4, <1>5

(* What the plan as a whole yields and prints.                             *)
LEMMA PlanMeans ==
  ASSUME Given
  PROVE  /\ Said(Len(Optimized) + 1) = IF Binder THEN Selected ELSE <<>>
         /\ Len(program) = 3 => Read(Len(Optimized) + 1) = LinesWith(Through, LastFilter.re, TRUE)
         /\ Len(program) # 3 /\ ~ Binder => Read(Len(Optimized) + 1) = Through
<1>1. ProgramOK /\ AllLines \in Seq(Views) /\ Selected \in Seq(Views) /\ Through \in Seq(Views)
  BY LinesAre DEF Given, Through
<1>2. \A vs \in Seq(Views) : vs \o <<>> = vs /\ <<>> \o vs = vs
  BY ConcatEmptySeq
<1>3. <<>> \in Seq(Views)
  OBVIOUS
<1>4. /\ Read(1) = inputViews /\ Said(1) = <<>>
      /\ Read(2) = Yield(Optimized[1], Read(1)) /\ Said(2) = Prints(Optimized[1], Read(1))
      /\ Read(3) = Yield(Optimized[2], Read(2)) /\ Said(3) = Said(2) \o Prints(Optimized[2], Read(2))
      /\ Read(4) = Yield(Optimized[3], Read(3)) /\ Said(4) = Said(3) \o Prints(Optimized[3], Read(3))
  BY DEF Read, Said
<1>5. \A vs \in Seq(Views) : /\ Yield(LastFilter, vs) = LinesWith(vs, LastFilter.re, TRUE)
                              /\ Prints(LastFilter, vs) = <<>>
  BY LastYields
<1>6. ASSUME NEW c, Command(c), c.op \in FusedOps, c.re = program[2].re, c.invert <=> program[2].op = "v",
             Optimized[1] = c
      PROVE  Read(2) = Selected /\ Said(2) = <<>>
  <2>1. Yield(c, inputViews) = Selected /\ Prints(c, inputViews) = <<>>
    BY <1>6, FusedYields
  <2> QED
    BY <1>4, <1>6, <2>1, Zenon
<1>7. ASSUME NEW c, Command(c), c.op \in FusedOps, c.re = program[2].re, c.invert <=> program[2].op = "v",
             ~ Binder,
             \/ Len(program) = 2 /\ Optimized = <<c>>
             \/ Len(program) = 3 /\ Optimized = <<c, LastFilter>>
      PROVE  /\ Said(Len(Optimized) + 1) = <<>>
             /\ Len(program) = 3 => Read(Len(Optimized) + 1) = LinesWith(Selected, LastFilter.re, TRUE)
             /\ Len(program) # 3 => Read(Len(Optimized) + 1) = Selected
  <2>1. Optimized[1] = c
    BY <1>7
  <2>2. Read(2) = Selected /\ Said(2) = <<>>
    BY <1>6, <1>7, <2>1
  <2>3. CASE Len(program) = 2 /\ Optimized = <<c>>
    <3>1. Len(Optimized) + 1 = 2 /\ Len(program) # 3
      BY <2>3
    <3> QED
      BY <2>2, <3>1
  <2>4. CASE Len(program) = 3 /\ Optimized = <<c, LastFilter>>
    <3>1. Len(Optimized) + 1 = 3 /\ Optimized[2] = LastFilter
      BY <2>4
    <3>2. Read(3) = LinesWith(Selected, LastFilter.re, TRUE) /\ Said(3) = <<>> \o <<>>
      BY <1>1, <1>4, <1>5, <2>2, <3>1, Zenon
    <3> QED
      BY <1>2, <1>3, <2>4, <3>1, <3>2
  <2> QED
    BY <1>7, <2>3, <2>4
<1>8. ASSUME NEW c, Command(c), c.op \in FusedOps, c.re = program[2].re, ~ c.invert,
             Binder, Len(program) = 2, Optimized = <<c, [op |-> "p"]>>
      PROVE  Said(Len(Optimized) + 1) = Selected
  <2>1. Optimized[1] = c /\ Optimized[2] = [op |-> "p"] /\ Len(Optimized) + 1 = 3
    BY <1>8
  <2>2. Read(2) = Selected /\ Said(2) = <<>>
    <3>1. c.invert <=> program[2].op = "v"
      BY <1>8 DEF Binder
    <3> QED
      BY <1>6, <1>8, <2>1, <3>1
  <2>3. Prints([op |-> "p"], Selected) = Selected
    BY DEF Prints
  <2> QED
    BY <1>1, <1>2, <1>4, <2>1, <2>2, <2>3
<1>9. ASSUME \/ Len(program) = 2 /\ Optimized = <<program[1], program[2]>>
             \/ Len(program) = 3 /\ Optimized = <<program[1], program[2], LastFilter>>
      PROVE  /\ Said(Len(Optimized) + 1) = IF Binder THEN Selected ELSE <<>>
             /\ Len(program) = 3 => Read(Len(Optimized) + 1) = LinesWith(Through, LastFilter.re, TRUE)
             /\ Len(program) # 3 => Read(Len(Optimized) + 1) = Through
  <2>1. Optimized[1] = program[1] /\ Optimized[2] = program[2]
    BY <1>9
  <2>2. /\ Yield(program[1], inputViews) = AllLines /\ Prints(program[1], inputViews) = <<>>
        /\ Yield(program[2], AllLines) = Through
        /\ Prints(program[2], AllLines) = IF Binder THEN Selected ELSE <<>>
    BY PairYields
  <2>3. Read(2) = AllLines /\ Said(2) = <<>> /\ Read(3) = Through
        /\ Said(3) = <<>> \o (IF Binder THEN Selected ELSE <<>>)
    BY <1>4, <2>1, <2>2, Zenon
  <2> DEFINE said == IF Binder THEN Selected ELSE <<>>
  <2>4. said \in Seq(Views)
    BY <1>1, <1>3
  <2> HIDE DEF said
  <2>5. Said(3) = said
    BY <1>2, <2>3, <2>4 DEF said
  <2>6. CASE Len(program) = 2 /\ Optimized = <<program[1], program[2]>>
    <3>1. Len(Optimized) + 1 = 3 /\ Len(program) # 3
      BY <2>6
    <3> QED
      BY <2>3, <2>5, <3>1 DEF said
  <2>7. CASE Len(program) = 3 /\ Optimized = <<program[1], program[2], LastFilter>>
    <3>1. Len(Optimized) + 1 = 4 /\ Optimized[3] = LastFilter
      BY <2>7
    <3>2. Read(4) = LinesWith(Through, LastFilter.re, TRUE) /\ Said(4) = said \o <<>>
      BY <1>1, <1>4, <1>5, <2>3, <2>5, <3>1, Zenon
    <3>3. Said(4) = said
      BY <1>2, <2>4, <3>2
    <3> QED
      BY <2>7, <3>1, <3>2, <3>3 DEF said
  <2> QED
    BY <1>9, <2>6, <2>7
<1>10. \/ \E c : /\ Command(c) /\ c.op \in FusedOps /\ c.re = program[2].re
                 /\ (c.invert <=> program[2].op = "v") /\ ~ Binder
                 /\ \/ Len(program) = 2 /\ Optimized = <<c>>
                    \/ Len(program) = 3 /\ Optimized = <<c, LastFilter>>
       \/ \E c : /\ Command(c) /\ c.op \in FusedOps /\ c.re = program[2].re /\ ~ c.invert
                 /\ Binder /\ Len(program) = 2 /\ Optimized = <<c, [op |-> "p"]>>
       \/ \/ Len(program) = 2 /\ Optimized = <<program[1], program[2]>>
          \/ Len(program) = 3 /\ Optimized = <<program[1], program[2], LastFilter>>
  BY <1>1, PlansAre DEF FusedOps, Binder
<1>11. ~ Binder => Through = Selected
  BY DEF Through, Binder
<1>12. CASE \E c : /\ Command(c) /\ c.op \in FusedOps /\ c.re = program[2].re
                  /\ (c.invert <=> program[2].op = "v") /\ ~ Binder
                  /\ \/ Len(program) = 2 /\ Optimized = <<c>>
                     \/ Len(program) = 3 /\ Optimized = <<c, LastFilter>>
  <2>1. /\ Said(Len(Optimized) + 1) = <<>>
        /\ Len(program) = 3 => Read(Len(Optimized) + 1) = LinesWith(Selected, LastFilter.re, TRUE)
        /\ Len(program) # 3 => Read(Len(Optimized) + 1) = Selected
        /\ ~ Binder
    <3>1. PICK c : /\ Command(c) /\ c.op \in FusedOps /\ c.re = program[2].re
                   /\ (c.invert <=> program[2].op = "v") /\ ~ Binder
                   /\ \/ Len(program) = 2 /\ Optimized = <<c>>
                      \/ Len(program) = 3 /\ Optimized = <<c, LastFilter>>
      BY <1>12
    <3> QED
      BY <1>7, <3>1
  <2>2. Through = Selected
    BY <1>11, <2>1
  <2> QED
    BY <2>1, <2>2, Zenon
<1>13. CASE \E c : /\ Command(c) /\ c.op \in FusedOps /\ c.re = program[2].re /\ ~ c.invert
                  /\ Binder /\ Len(program) = 2 /\ Optimized = <<c, [op |-> "p"]>>
  <2>1. Said(Len(Optimized) + 1) = Selected /\ Binder /\ Len(program) = 2
    <3>1. PICK c : /\ Command(c) /\ c.op \in FusedOps /\ c.re = program[2].re /\ ~ c.invert
                   /\ Binder /\ Len(program) = 2 /\ Optimized = <<c, [op |-> "p"]>>
      BY <1>13
    <3> QED
      BY <1>8, <3>1
  <2>2. Len(program) # 3
    BY <2>1
  <2> QED
    BY <2>1, <2>2, Zenon
<1>14. CASE \/ Len(program) = 2 /\ Optimized = <<program[1], program[2]>>
            \/ Len(program) = 3 /\ Optimized = <<program[1], program[2], LastFilter>>
  BY <1>9, <1>14, Zenon
<1> QED
  BY <1>10, <1>12, <1>13, <1>14, Zenon

(* Spec => [](~ Flagged => SelectsLikePipeline): the fused program prints  *)
(* the same lines as the one it replaces and hands the same views on       *)
(* (src/parser/mod.rs, optimize; src/commands/mod.rs, LineFilterCommand),  *)
(* for every input, every literal, every case folding and every splitter,  *)
(* but for those with the dot and the flag s. There the run                *)
(* line_filter_flags refutes it: fusion_info does not look at the flags.   *)
THEOREM FusionSelectsLikePipeline == Spec => [](~ Flagged => SelectsLikePipeline)
<1>1. ASSUME Shape, Progress PROVE SelectsLikePipeline
  <2> SUFFICES ASSUME pc = "done" PROVE SelectsLikePipeline
    BY DEF SelectsLikePipeline
  <2>1. plan = Optimized /\ Given /\ ProgramOK
    BY <1>1, PlanReady DEF Shape, Given
  <2>2. views = Read(Len(Optimized) + 1) /\ printed = Said(Len(Optimized) + 1)
    BY <1>1, <2>1 DEF Progress
  <2>3. /\ printed = IF Binder THEN Selected ELSE <<>>
        /\ Len(program) = 3 => views = LinesWith(Through, LastFilter.re, TRUE)
        /\ Len(program) # 3 /\ ~ Binder => views = Through
    BY <2>1, <2>2, PlanMeans
  <2>4. Len(program) = 3 => program[3] = LastFilter
    BY <2>1 DEF ProgramOK
  <2> QED
    BY <2>3, <2>4, Zenon DEF SelectsLikePipeline, Through, Binder
<1> QED
  BY <1>1, ShapeAlways, ProgressAlways, PTL
=============================================================================
