---------------------------- MODULE StitchProofs ----------------------------
(***************************************************************************)
(* Proofs about Stitch, for inputs and mutation lists of any length.       *)
(*                                                                         *)
(* Tiling is inductive once the types are known.  AppliesSurvivors and     *)
(* AppliedInOrder are not: they need to know that the loop visits the      *)
(* mutations in sorted order and that the cursor is the largest end        *)
(* applied so far (LoopInv).                                               *)
(***************************************************************************)
EXTENDS Stitch, TLAPS

-----------------------------------------------------------------------------
(* The parts of the inductive invariant.                                   *)

(* Only visited mutations were applied, and every visited one comes before *)
(* every pending one.                                                      *)
VisitedFirst ==
  /\ Applied \subseteq Visited
  /\ \A i \in Visited, j \in pending : Precedes(i, j)

(* Before the loop nothing is visited and nothing written, and the loop    *)
(* runs over a list that is not empty.                                     *)
Untouched ==
  /\ pc = "start" => out = <<>> /\ cursor = 0 /\ pending = DOMAIN muts
  /\ pc = "loop" => muts # <<>>

(* The cursor is at or after every end applied, and is one of them (or 0)  *)
(* while the loop runs.                                                    *)
CursorIsLastEnd ==
  /\ \A i \in Applied : muts[i].end <= cursor
  /\ pc = "loop" => cursor = 0 \/ \E i \in Applied : muts[i].end = cursor

(* A replacement piece covers exactly the span of its mutation.            *)
PiecesAreSpans ==
  \A k \in DOMAIN out : out[k].by # 0 =>
    /\ out[k].by \in DOMAIN muts
    /\ out[k] = Replacement(out[k].by)

LoopInv ==
  /\ VisitedFirst
  /\ Untouched
  /\ CursorIsLastEnd
  /\ PiecesAreSpans

-----------------------------------------------------------------------------
(* Facts about the data.                                                   *)

(* What a well-typed list of mutations says about one of its entries.      *)
LEMMA MutationFacts ==
  ASSUME muts \in MutationList, NEW i \in DOMAIN muts
  PROVE  /\ i \in 1..MaxMutations
         /\ muts[i].start \in Nat
         /\ muts[i].end \in Nat
         /\ muts[i].start <= muts[i].end
         /\ muts[i].start <= DocLen => muts[i].end <= DocLen
<1>1. PICK n \in 0..MaxMutations : muts \in [1..n -> Mutation]
  BY DEF MutationList
<1>2. i \in 1..MaxMutations /\ muts[i] \in Mutation
  BY <1>1, StitchAssumption
<1>3. CASE muts[i] \in InputSpan
  BY <1>2, <1>3, StitchAssumption DEF InputSpan
<1>4. CASE muts[i] \in ForeignSpan
  BY <1>2, <1>4, StitchAssumption DEF ForeignSpan
<1>5. QED
  BY <1>2, <1>3, <1>4 DEF Mutation

(* The sorted order is a strict order on the mutations.                    *)
LEMMA PrecedesIsOrder ==
  ASSUME muts \in MutationList, NEW i \in DOMAIN muts, NEW j \in DOMAIN muts
  PROVE  /\ ~ (Precedes(i, j) /\ Precedes(j, i))
         /\ ~ Precedes(i, i)
         /\ Precedes(i, j) => muts[i].start <= muts[j].start
BY MutationFacts DEF Precedes

(* The output after the loop body has written its two pieces.              *)
LEMMA TwoPieces ==
  ASSUME NEW S, NEW s \in Seq(S), NEW a \in S, NEW b \in S
  PROVE  LET t == s \o <<a, b>> IN
         /\ t \in Seq(S)
         /\ Len(t) = Len(s) + 2
         /\ DOMAIN t = 1..(Len(s) + 2)
         /\ \A k \in 1..Len(s) : t[k] = s[k]
         /\ t[Len(s) + 1] = a
         /\ t[Len(s) + 2] = b
OBVIOUS

-----------------------------------------------------------------------------
(* Type correctness.                                                       *)

LEMMA InitTypeOK == Init => TypeOK
BY StitchAssumption DEF Init, TypeOK

LEMMA NextTypeOK == TypeOK /\ [Next]_vars => TypeOK'
<1> SUFFICES ASSUME TypeOK, [Next]_vars
             PROVE  TypeOK'
  OBVIOUS
<1> USE StitchAssumption DEF TypeOK
<1>1. CASE NoMutation
  <2>1. Copy(0, DocLen) \in Piece
    BY DEF Copy, Piece
  <2>2. QED
    BY <1>1, <2>1 DEF NoMutation
<1>2. CASE StartLoop
  BY <1>2 DEF StartLoop
<1>3. ASSUME NEW i \in pending, Skip(i)
      PROVE  TypeOK'
  BY <1>3 DEF Skip
<1>4. ASSUME NEW i \in pending, Apply(i)
      PROVE  TypeOK'
  <2>1. muts[i].start \in Nat /\ muts[i].end \in 0..DocLen /\ i \in 1..MaxMutations
    BY <1>4, MutationFacts DEF Apply
  <2>2. Copy(cursor, muts[i].start) \in Piece /\ Replacement(i) \in Piece
    BY <2>1 DEF Copy, Replacement, Piece
  <2>3. out' \in Seq(Piece)
    BY <1>4, <2>2, TwoPieces DEF Apply
  <2>4. QED
    BY <1>4, <2>1, <2>3 DEF Apply
<1>5. ASSUME NEW i \in pending, Panic(i)
      PROVE  TypeOK'
  BY <1>5 DEF Panic
<1>6. CASE CopyTail
  <2>1. Copy(cursor, DocLen) \in Piece
    BY DEF Copy, Piece
  <2>2. QED
    BY <1>6, <2>1 DEF CopyTail
<1>7. CASE UNCHANGED vars
  BY <1>7 DEF vars
<1>8. QED
  BY <1>1, <1>2, <1>3, <1>4, <1>5, <1>6, <1>7 DEF Next

(* Every variable of Stitch stays in its domain, for every input length    *)
(* and every list of mutations.                                            *)
THEOREM TypeCorrect == Spec => []TypeOK
<1>1. QED
  BY InitTypeOK, NextTypeOK, PTL DEF Spec

-----------------------------------------------------------------------------
(* The two steps that write.                                               *)

(* The loop body adds a copied gap and a replacement, and mutation i       *)
(* becomes visited and applied.                                            *)
LEMMA ApplyEffect ==
  ASSUME TypeOK, NEW i \in pending, Apply(i)
  PROVE  /\ i \in DOMAIN muts
         /\ DOMAIN out' = 1..(Len(out) + 2) /\ Len(out') = Len(out) + 2
         /\ \A k \in 1..Len(out) : out'[k] = out[k]
         /\ out'[Len(out) + 1] = Copy(cursor, muts[i].start)
         /\ out'[Len(out) + 2] = Replacement(i)
         /\ Applied' = Applied \cup {i}
         /\ Visited' = Visited \cup {i}
<1> USE DEF TypeOK
<1>1. /\ i \in DOMAIN muts /\ i \in 1..MaxMutations
      /\ muts[i].start \in Nat /\ muts[i].end \in Nat
  BY MutationFacts
<1>2. Copy(cursor, muts[i].start) \in Piece /\ Replacement(i) \in Piece
  BY <1>1, StitchAssumption DEF Copy, Replacement, Piece
<1>3. /\ DOMAIN out' = 1..(Len(out) + 2) /\ Len(out') = Len(out) + 2
      /\ \A k \in 1..Len(out) : out'[k] = out[k]
      /\ out'[Len(out) + 1] = Copy(cursor, muts[i].start)
      /\ out'[Len(out) + 2] = Replacement(i)
  BY <1>2, TwoPieces DEF Apply
<1>4. muts' = muts /\ pending' = pending \ {i}
  BY DEF Apply
<1>5. Len(out) \in Nat /\ DOMAIN out = 1..Len(out)
  OBVIOUS
<1>6. Applied' = Applied \cup {i}
  <2>1. out'[Len(out) + 1].by = 0 /\ out'[Len(out) + 2].by = i
    BY <1>3 DEF Copy, Replacement
  <2>2. ASSUME NEW j \in Applied
        PROVE  j \in Applied'
    BY <1>3, <1>4, <1>5 DEF Applied
  <2>3. i \in Applied'
    BY <1>1, <1>3, <1>4, <1>5, <2>1 DEF Applied
  <2>4. ASSUME NEW j \in Applied', j # i
        PROVE  j \in Applied
    <3>1. PICK k \in 1..(Len(out) + 2) : out'[k].by = j
      BY <1>3 DEF Applied
    <3>2. j # 0
      <4>1. j \in DOMAIN muts
        BY <1>4 DEF Applied
      <4>2. QED
        BY <4>1, MutationFacts
    <3>3. k \in 1..Len(out)
      BY <1>5, <2>1, <2>4, <3>1, <3>2
    <3>4. QED
      BY <1>3, <1>4, <1>5, <3>1, <3>3 DEF Applied
  <2>5. QED
    BY <2>2, <2>3, <2>4
<1>7. Visited' = Visited \cup {i}
  BY <1>1, <1>4 DEF Visited
<1>8. QED
  BY <1>1, <1>3, <1>6, <1>7

(* Copying the tail applies nothing.                                       *)
LEMMA CopyTailEffect ==
  ASSUME TypeOK, CopyTail
  PROVE  /\ muts' = muts /\ pending' = pending
         /\ Applied' = Applied
         /\ \A k \in DOMAIN out : k \in DOMAIN out' /\ out'[k] = out[k]
         /\ \A k \in DOMAIN out' :
              \/ k \in DOMAIN out /\ out'[k] = out[k]
              \/ k = Len(out) + 1 /\ cursor < DocLen /\ out'[k] = Copy(cursor, DocLen)
<1> USE DEF TypeOK
<1>1. muts' = muts /\ pending' = pending
  BY DEF CopyTail
<1>2. Copy(cursor, DocLen) \in Piece /\ Copy(cursor, DocLen).by = 0
  BY StitchAssumption DEF Copy, Piece
<1>3. /\ \A k \in DOMAIN out : k \in DOMAIN out' /\ out'[k] = out[k]
      /\ \A k \in DOMAIN out' :
           \/ k \in DOMAIN out /\ out'[k] = out[k]
           \/ k = Len(out) + 1 /\ cursor < DocLen /\ out'[k] = Copy(cursor, DocLen)
  BY <1>2 DEF CopyTail
<1>4. ASSUME NEW j \in DOMAIN muts
      PROVE  j # 0
  BY MutationFacts
<1>5. Applied' = Applied
  BY <1>1, <1>2, <1>3, <1>4 DEF Applied
<1>6. QED
  BY <1>1, <1>3, <1>5

-----------------------------------------------------------------------------
(* The inductive invariant.                                                *)

IInv ==
  /\ TypeOK
  /\ LoopInv
  /\ Tiling
  /\ AppliedInOrder
  /\ AppliesSurvivors

LEMMA InitIInv == Init => IInv
<1> SUFFICES ASSUME Init
             PROVE  IInv
  OBVIOUS
<1>1. TypeOK
  BY InitTypeOK
<1>2. out = <<>> /\ Applied = {} /\ Visited = {} /\ pending = DOMAIN muts
  BY DEF Init, Applied, Visited
<1>3. LoopInv
  BY <1>2 DEF Init, LoopInv, VisitedFirst, Untouched, CursorIsLastEnd, PiecesAreSpans
<1>4. Tiling /\ AppliedInOrder /\ AppliesSurvivors
  BY <1>2 DEF Init, Tiling, Reached, AppliedInOrder, AppliesSurvivors
<1>5. QED
  BY <1>1, <1>3, <1>4 DEF IInv

(* A step that leaves the list, the pieces, the cursor and the visited set *)
(* alone keeps everything but the parts about pc.                          *)
LEMMA SameOutput ==
  ASSUME IInv, UNCHANGED <<muts, pending, cursor, out>>
  PROVE  VisitedFirst' /\ PiecesAreSpans' /\ AppliedInOrder' /\ AppliesSurvivors'
<1>1. Applied' = Applied /\ Visited' = Visited
  BY DEF Applied, Visited
<1>2. ASSUME NEW i, NEW j
      PROVE  Precedes(i, j)' <=> Precedes(i, j)
  BY DEF Precedes
<1>3. VisitedFirst' /\ PiecesAreSpans'
  BY <1>1, <1>2 DEF IInv, LoopInv, VisitedFirst, PiecesAreSpans, Replacement
<1>4. AppliedInOrder' /\ AppliesSurvivors'
  BY <1>1, <1>2 DEF IInv, AppliedInOrder, AppliesSurvivors
<1>5. QED
  BY <1>3, <1>4

LEMMA NoMutationKeeps == IInv /\ NoMutation /\ TypeOK' => IInv'
<1> SUFFICES ASSUME IInv, NoMutation, TypeOK'
             PROVE  IInv'
  OBVIOUS
<1>1. muts = <<>> /\ muts' = muts /\ DOMAIN muts = {} /\ pending' = {} /\ pending = {}
  BY DEF NoMutation, IInv, TypeOK
<1>2. Applied' = {} /\ Visited' = {}
  BY <1>1 DEF Applied, Visited
<1>3. /\ DOMAIN out' \subseteq {1}
      /\ \A k \in DOMAIN out' : out'[k] = Copy(0, DocLen)
      /\ Len(out') = (IF rewrites THEN 1 ELSE 0)
  BY DEF NoMutation
<1>4. LoopInv'
  BY <1>1, <1>2, <1>3 DEF LoopInv, VisitedFirst, Untouched, CursorIsLastEnd, PiecesAreSpans,
                          NoMutation, Copy
<1>5. Tiling'
  BY <1>1, <1>3, StitchAssumption DEF Tiling, Reached, NoMutation, Copy
<1>6. AppliedInOrder' /\ AppliesSurvivors'
  BY <1>2, <1>3, StitchAssumption DEF AppliedInOrder, AppliesSurvivors
<1>7. QED
  BY <1>4, <1>5, <1>6 DEF IInv

LEMMA StartLoopKeeps == IInv /\ StartLoop /\ TypeOK' => IInv'
<1> SUFFICES ASSUME IInv, StartLoop, TypeOK'
             PROVE  IInv'
  OBVIOUS
<1>1. UNCHANGED <<muts, pending, cursor, out>> /\ out = <<>> /\ cursor = 0
  BY DEF StartLoop, IInv, LoopInv, Untouched
<1>2. Applied' = {}
  BY <1>1 DEF Applied
<1>3. LoopInv'
  BY <1>1, <1>2, SameOutput DEF LoopInv, Untouched, CursorIsLastEnd, StartLoop
<1>4. Tiling'
  BY <1>1 DEF Tiling, Reached, StartLoop
<1>5. QED
  BY <1>1, <1>3, <1>4, SameOutput DEF IInv

LEMMA PanicKeeps ==
  ASSUME IInv, NEW i \in pending, Panic(i), TypeOK'
  PROVE  IInv'
<1>1. UNCHANGED <<muts, pending, cursor, out, rewrites>> /\ pc' = "panicked"
  BY DEF Panic
<1>2. Applied' = Applied
  BY <1>1 DEF Applied
<1>3. LoopInv'
  BY <1>1, <1>2, SameOutput DEF IInv, LoopInv, Untouched, CursorIsLastEnd
<1>4. Tiling'
  BY <1>1 DEF IInv, Tiling, Reached
<1>5. QED
  BY <1>1, <1>3, <1>4, SameOutput DEF IInv

LEMMA SkipKeeps ==
  ASSUME IInv, NEW i \in pending, Skip(i), TypeOK'
  PROVE  IInv'
<1> USE DEF IInv
<1>1. /\ UNCHANGED <<muts, rewrites, cursor, out, pc>> /\ pc = "loop"
      /\ pending' = pending \ {i} /\ i \in DOMAIN muts /\ IsNext(i) /\ muts[i].start < cursor
  BY DEF Skip, TypeOK
<1>2. Applied' = Applied /\ Visited' = Visited \cup {i}
  BY <1>1 DEF Applied, Visited
<1>3. ASSUME NEW k, NEW l
      PROVE  Precedes(k, l)' <=> Precedes(k, l)
  BY <1>1 DEF Precedes
<1>4. VisitedFirst'
  BY <1>1, <1>2, <1>3 DEF LoopInv, VisitedFirst, IsNext
<1>5. LoopInv'
  BY <1>1, <1>2, <1>4 DEF LoopInv, Untouched, CursorIsLastEnd, PiecesAreSpans, Replacement
<1>6. Tiling' /\ AppliedInOrder'
  BY <1>1 DEF Tiling, Reached, AppliedInOrder
<1>7. AppliesSurvivors'
  <2>1. i \notin Applied
    BY DEF LoopInv, VisitedFirst, Visited
  <2>2. \E j \in Applied : Precedes(j, i) /\ muts[i].start < muts[j].end
    <3>1. muts[i].start \in Nat
      BY <1>1, MutationFacts DEF TypeOK
    <3>2. PICK j \in Applied : muts[j].end = cursor
      BY <1>1, <3>1 DEF LoopInv, CursorIsLastEnd, TypeOK
    <3>3. Precedes(j, i)
      BY <3>2 DEF LoopInv, VisitedFirst
    <3>4. QED
      BY <1>1, <3>2, <3>3
  <2>3. QED
    BY <1>1, <1>2, <1>3, <2>1, <2>2 DEF AppliesSurvivors
<1>8. QED
  BY <1>5, <1>6, <1>7

LEMMA ApplyKeeps ==
  ASSUME IInv, NEW i \in pending, Apply(i), TypeOK'
  PROVE  IInv'
<1> USE DEF IInv
<1>1. /\ UNCHANGED <<muts, rewrites, pc>> /\ pc = "loop" /\ muts # <<>>
      /\ pending' = pending \ {i} /\ i \in DOMAIN muts /\ IsNext(i)
      /\ muts[i].start >= cursor /\ cursor' = muts[i].end
  BY DEF Apply, TypeOK
<1>2. /\ cursor \in Nat /\ muts[i].start \in Nat /\ muts[i].end \in Nat
      /\ muts[i].start <= muts[i].end /\ i # 0 /\ Len(out) \in Nat
      /\ DOMAIN out = 1..Len(out)
  BY <1>1, MutationFacts DEF TypeOK
<1>e. /\ DOMAIN out' = 1..(Len(out) + 2) /\ Len(out') = Len(out) + 2
      /\ \A k \in 1..Len(out) : out'[k] = out[k]
      /\ out'[Len(out) + 1] = [from |-> cursor, to |-> muts[i].start, by |-> 0]
      /\ out'[Len(out) + 2] = [from |-> muts[i].start, to |-> muts[i].end, by |-> i]
      /\ Applied' = Applied \cup {i}
      /\ Visited' = Visited \cup {i}
  BY ApplyEffect DEF Copy, Replacement
<1>3. ASSUME NEW k, NEW l
      PROVE  Precedes(k, l)' <=> Precedes(k, l)
  BY <1>1 DEF Precedes
<1>4. VisitedFirst'
  BY <1>1, <1>3, <1>e DEF LoopInv, VisitedFirst, IsNext
<1>5. CursorIsLastEnd'
  <2>1. ASSUME NEW j \in Applied
        PROVE  muts[j].end <= muts[i].end
    <3>1. j \in DOMAIN muts /\ muts[j].end <= cursor
      BY DEF Applied, LoopInv, CursorIsLastEnd
    <3>2. QED
      BY <1>1, <1>2, <3>1, MutationFacts DEF TypeOK
  <2>2. QED
    BY <1>1, <1>2, <2>1, <1>e DEF CursorIsLastEnd
<1>6. PiecesAreSpans'
  BY <1>1, <1>2, <1>e DEF LoopInv, PiecesAreSpans, Replacement
<1>7. LoopInv'
  BY <1>1, <1>4, <1>5, <1>6 DEF LoopInv, Untouched
<1>8. Tiling'
  <2> DEFINE R(k) == IF k = 0 THEN 0 ELSE out'[k].to
  <2>1. Reached(Len(out)) = cursor
    BY <1>1 DEF Tiling
  <2>2. ASSUME NEW k \in 1..Len(out)
        PROVE  out'[k].from = R(k - 1) /\ out'[k].from <= out'[k].to
    <3>1. k = 1 \/ k - 1 \in 1..Len(out)
      BY <1>2
    <3>2. QED
      BY <1>2, <3>1, <1>e DEF Tiling, Reached
  <2>3. /\ out'[Len(out) + 1].from = R(Len(out))
        /\ out'[Len(out) + 1].from <= out'[Len(out) + 1].to
    BY <1>1, <1>2, <2>1, <1>e DEF Reached
  <2>4. /\ out'[Len(out) + 2].from = R(Len(out) + 1)
        /\ out'[Len(out) + 2].from <= out'[Len(out) + 2].to
    BY <1>1, <1>2, <1>e DEF Reached
  <2>5. R(Len(out')) = cursor'
    BY <1>1, <1>2, <1>e DEF Reached
  <2>6. ASSUME NEW k \in DOMAIN out'
        PROVE  out'[k].from = R(k - 1) /\ out'[k].from <= out'[k].to
    <3>1. k \in 1..Len(out) \/ k = Len(out) + 1 \/ k = Len(out) + 2
      BY <1>2, <1>e
    <3>2. Len(out) + 1 - 1 = Len(out) /\ Len(out) + 2 - 1 = Len(out) + 1
      BY <1>2
    <3>3. QED
      BY <3>1, <3>2, <2>2, <2>3, <2>4
  <2>7. QED
    BY <1>1, <1>2, <1>e, <2>5, <2>6 DEF Tiling, Reached
<1>9. AppliedInOrder'
  <2> SUFFICES ASSUME NEW k \in DOMAIN out', NEW l \in DOMAIN out', k < l,
                      out'[k].by # 0, out'[l].by # 0
               PROVE  /\ out'[k].by # out'[l].by
                      /\ muts[out'[k].by].end <= muts[out'[l].by].start
                      /\ muts[out'[k].by].start = muts[out'[l].by].start
                           => out'[k].by < out'[l].by
    BY <1>1 DEF AppliedInOrder
  <2>1. k \in 1..Len(out) /\ out'[k] = out[k]
    BY <1>2, <1>e
  <2>2. CASE l \in 1..Len(out)
    BY <1>2, <2>1, <2>2, <1>e DEF AppliedInOrder
  <2>3. CASE l = Len(out) + 2
    <3>1. out'[l].by = i
      BY <2>3, <1>e
    <3>2. out[k].by \in Applied
      BY <1>2, <2>1 DEF Applied, LoopInv, PiecesAreSpans
    <3>3. out[k].by \in DOMAIN muts /\ muts[out[k].by].end <= cursor
      BY <3>2 DEF Applied, LoopInv, CursorIsLastEnd
    <3>4. muts[out[k].by].end \in Nat /\ out[k].by \in Nat /\ i \in Nat
      BY <1>1, <3>3, MutationFacts DEF TypeOK
    <3>5. muts[out[k].by].end <= muts[i].start
      BY <1>1, <1>2, <3>3, <3>4
    <3>6. Precedes(out[k].by, i)
      BY <3>2 DEF LoopInv, VisitedFirst
    <3>7. ~ Precedes(i, i)
      BY <1>1, PrecedesIsOrder DEF TypeOK
    <3>8. muts[out[k].by].start = muts[i].start => out[k].by < i
      BY <1>2, <3>6 DEF Precedes
    <3>9. QED
      BY <2>1, <3>1, <3>5, <3>6, <3>7, <3>8
  <2>4. l \in 1..Len(out) \/ l = Len(out) + 2
    BY <1>2, <1>e
  <2>5. QED
    BY <2>2, <2>3, <2>4
<1>10. AppliesSurvivors'
  <2> SUFFICES ASSUME NEW j \in Visited'
               PROVE  j \in Applied' <=>
                        ~ \E k \in Applied' : Precedes(k, j) /\ muts[j].start < muts[k].end
    BY <1>1, <1>3 DEF AppliesSurvivors
  <2>1. CASE j = i
    <3>1. ASSUME NEW k \in Applied
          PROVE  ~ (muts[i].start < muts[k].end)
      <4>1. k \in DOMAIN muts /\ muts[k].end <= cursor
        BY DEF Applied, LoopInv, CursorIsLastEnd
      <4>2. QED
        BY <1>1, <1>2, <4>1, MutationFacts DEF TypeOK
    <3>2. ~ Precedes(i, i)
      BY <1>1, PrecedesIsOrder DEF TypeOK
    <3>3. QED
      BY <2>1, <3>1, <3>2, <1>e
  <2>2. CASE j # i
    <3>1. j \in Visited /\ j \in DOMAIN muts
      BY <2>2, <1>e DEF Visited
    <3>2. ~ Precedes(i, j)
      BY <1>1, <3>1, PrecedesIsOrder DEF LoopInv, VisitedFirst, TypeOK
    <3>3. QED
      BY <2>2, <3>1, <3>2, <1>e DEF AppliesSurvivors
  <2>3. QED
    BY <2>1, <2>2
<1>11. QED
  BY <1>7, <1>8, <1>9, <1>10

LEMMA CopyTailKeeps == IInv /\ CopyTail /\ TypeOK' => IInv'
<1> SUFFICES ASSUME IInv, CopyTail, TypeOK'
             PROVE  IInv'
  OBVIOUS
<1> USE DEF IInv
<1>1. /\ UNCHANGED <<muts, rewrites, pending>> /\ pc = "loop" /\ pending = {}
      /\ pc' = "done" /\ cursor' = DocLen
  BY DEF CopyTail
<1>2. cursor \in Nat /\ cursor <= DocLen /\ Len(out) \in Nat /\ DOMAIN out = 1..Len(out)
  BY StitchAssumption DEF TypeOK
<1>3. ASSUME NEW k, NEW l
      PROVE  Precedes(k, l)' <=> Precedes(k, l)
  BY <1>1 DEF Precedes
<1>4. Visited' = Visited
  BY <1>1 DEF Visited
<1>5. VisitedFirst' /\ AppliesSurvivors'
  BY <1>1, <1>3, <1>4, CopyTailEffect DEF LoopInv, VisitedFirst, AppliesSurvivors
<1>6. CursorIsLastEnd'
  <2>1. ASSUME NEW j \in Applied
        PROVE  muts[j].end <= DocLen
    <3>1. j \in DOMAIN muts /\ muts[j].end <= cursor
      BY DEF Applied, LoopInv, CursorIsLastEnd
    <3>2. QED
      BY <1>2, <3>1, MutationFacts, StitchAssumption DEF TypeOK
  <2>2. QED
    BY <1>1, <2>1, CopyTailEffect DEF CursorIsLastEnd
<1>7. PiecesAreSpans'
  BY <1>1, CopyTailEffect DEF LoopInv, PiecesAreSpans, Replacement, Copy
<1>8. LoopInv'
  BY <1>1, <1>5, <1>6, <1>7 DEF LoopInv, Untouched
<1>9. Tiling'
  <2> DEFINE R(k) == IF k = 0 THEN 0 ELSE out'[k].to
  <2>1. Reached(Len(out)) = cursor
    BY <1>1 DEF Tiling, LoopInv, Untouched
  <2>2. CASE cursor < DocLen
    <3>1. out' = Append(out, [from |-> cursor, to |-> DocLen, by |-> 0])
      BY <2>2 DEF CopyTail, Copy
    <3>2. /\ Len(out') = Len(out) + 1 /\ DOMAIN out' = 1..(Len(out) + 1)
          /\ \A k \in 1..Len(out) : out'[k] = out[k]
          /\ out'[Len(out) + 1] = [from |-> cursor, to |-> DocLen, by |-> 0]
      BY <3>1, <1>2 DEF TypeOK
    <3>3. ASSUME NEW k \in 1..Len(out)
          PROVE  out'[k].from = R(k - 1) /\ out'[k].from <= out'[k].to
      <4>1. k = 1 \/ k - 1 \in 1..Len(out)
        BY <1>2
      <4>2. QED
        BY <1>2, <3>2, <4>1 DEF Tiling, Reached
    <3>4. /\ out'[Len(out) + 1].from = R(Len(out))
          /\ out'[Len(out) + 1].from <= out'[Len(out) + 1].to
      BY <1>2, <2>1, <3>2 DEF Reached
    <3>5. ASSUME NEW k \in DOMAIN out'
          PROVE  out'[k].from = R(k - 1) /\ out'[k].from <= out'[k].to
      <4>1. k \in 1..Len(out) \/ (k = Len(out) + 1 /\ k - 1 = Len(out))
        BY <1>2, <3>2
      <4>2. QED
        BY <4>1, <3>3, <3>4
    <3>6. QED
      BY <1>1, <1>2, <3>2, <3>5 DEF Tiling, Reached
  <2>3. CASE ~ (cursor < DocLen)
    <3>1. out' = out /\ cursor = DocLen
      BY <1>2, <2>3, StitchAssumption DEF CopyTail
    <3>2. QED
      BY <1>1, <2>1, <3>1 DEF Tiling, Reached
  <2>4. QED
    BY <2>2, <2>3
<1>10. AppliedInOrder'
  BY <1>1, <1>2, CopyTailEffect DEF AppliedInOrder, Copy
<1>11. QED
  BY <1>5, <1>8, <1>9, <1>10

LEMMA NextIInv == IInv /\ [Next]_vars => IInv'
<1> SUFFICES ASSUME IInv, [Next]_vars
             PROVE  IInv'
  OBVIOUS
<1>1. TypeOK'
  BY NextTypeOK DEF IInv
<1>2. CASE UNCHANGED vars
  <2>1. UNCHANGED <<muts, rewrites, pending, cursor, out, pc>>
    BY <1>2 DEF vars
  <2>2. Applied' = Applied
    BY <2>1 DEF Applied
  <2>3. LoopInv'
    BY <2>1, <2>2, SameOutput DEF IInv, LoopInv, Untouched, CursorIsLastEnd
  <2>4. Tiling'
    BY <2>1 DEF IInv, Tiling, Reached
  <2>5. QED
    BY <1>1, <2>1, <2>3, <2>4, SameOutput DEF IInv
<1>3. QED
  BY <1>1, <1>2, NoMutationKeeps, StartLoopKeeps, SkipKeeps, ApplyKeeps, PanicKeeps,
     CopyTailKeeps DEF Next

-----------------------------------------------------------------------------
(* The theorems.                                                           *)

(* The strengthened invariant holds in every reachable state.              *)
THEOREM Invariance == Spec => []IInv
<1>1. QED
  BY InitIInv, NextIInv, PTL DEF Spec

(* stitch accounts for every input byte exactly once and in order.         *)
THEOREM TilingHolds == Spec => []Tiling
<1>1. IInv => Tiling
  BY DEF IInv
<1>2. QED
  BY <1>1, Invariance, PTL

(* Applied mutations are disjoint, in document order, and insertions at    *)
(* one point keep their push order.                                        *)
THEOREM AppliedInOrderHolds == Spec => []AppliedInOrder
<1>1. IInv => AppliedInOrder
  BY DEF IInv
<1>2. QED
  BY <1>1, Invariance, PTL

(* stitch drops exactly the mutations that start inside bytes already      *)
(* replaced.                                                               *)
THEOREM AppliesSurvivorsHolds == Spec => []AppliesSurvivors
<1>1. IInv => AppliesSurvivors
  BY DEF IInv
<1>2. QED
  BY <1>1, Invariance, PTL
=============================================================================
