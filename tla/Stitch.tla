------------------------------- MODULE Stitch -------------------------------
(***************************************************************************)
(* The output side of the editor: run_pipeline and stitch of src/main.rs.  *)
(*                                                                         *)
(* Commands never touch the input bytes.  They record mutations, spans of  *)
(* the input with replacement bytes, in the order in which the lazy        *)
(* pipeline meets them.  stitch sorts them by their start (a stable sort,  *)
(* so the push order decides between equal starts), walks them with a      *)
(* cursor, drops every mutation that starts before the cursor and copies   *)
(* the input between the others.                                           *)
(*                                                                         *)
(* What is written is a sequence of pieces: a copy of input bytes or the   *)
(* replacement of one mutation.  A piece remembers which input bytes it    *)
(* stands for, which is all the properties need to know.                   *)
(***************************************************************************)
EXTENDS Integers, Sequences, FiniteSets

CONSTANTS
  DocLen,        (* Length of the input, in bytes.                         *)
  MaxMutations,  (* Bound on the number of recorded mutations.             *)
  Foreign        (* An offset beyond the input: what absolute_offset       *)
                 (* computes for a view that does not borrow from it.      *)

ASSUME StitchAssumption ==
  /\ DocLen \in Nat
  /\ MaxMutations \in Nat
  /\ Foreign \in Nat /\ Foreign > DocLen

VARIABLES
  muts,      (* The recorded mutations, in push order.                     *)
  rewrites,  (* Whether the pipeline holds a mutating command.             *)
  pending,   (* Indices of the mutations the loop has not visited.         *)
  cursor,    (* First input byte not yet accounted for.                    *)
  out,       (* The pieces written so far.                                 *)
  pc

vars == <<muts, rewrites, pending, cursor, out, pc>>

-----------------------------------------------------------------------------
(* A mutation covers the input bytes start .. end-1; an insertion covers   *)
(* none.  A mutation recorded through a foreign view starts at Foreign.    *)
InputSpan    == {m \in [start : 0..DocLen, end : 0..DocLen] : m.start <= m.end}
ForeignSpan  == {[start |-> Foreign, end |-> Foreign + 1]}
Mutation     == InputSpan \cup ForeignSpan
MutationList == UNION {[1..n -> Mutation] : n \in 0..MaxMutations}

(* A piece of output: the input bytes from .. to-1 copied when by = 0, or  *)
(* replaced by mutation number by.                                         *)
Piece == [from : Nat, to : Nat, by : 0..MaxMutations]
Copy(from, to) == [from |-> from, to |-> to, by |-> 0]
Replacement(i) == [from |-> muts[i].start, to |-> muts[i].end, by |-> i]

(* The operators named Mutant... are faulty variants of the definition that *)
(* follows them.  The specification does not use them: put in its place,   *)
(* each one makes a property fail, which shows what the property is for.   *)
MutantUnstableOrder(i, j) ==
  \/ muts[i].start < muts[j].start
  \/ muts[i].start = muts[j].start /\ i > j

(* The order of the sorted list: by start, then by push order.             *)
Precedes(i, j) ==
  \/ muts[i].start < muts[j].start
  \/ muts[i].start = muts[j].start /\ i < j

(* The mutation the loop looks at next.                                    *)
IsNext(i) == i \in pending /\ \A j \in pending \ {i} : Precedes(i, j)

-----------------------------------------------------------------------------
Init ==
  /\ muts \in MutationList
  /\ rewrites \in BOOLEAN
  /\ muts # <<>> => rewrites
  /\ pending = DOMAIN muts
  /\ cursor = 0
  /\ out = <<>>
  /\ pc = "start"

(* run_pipeline without a mutation: a rewriting program is a stream filter *)
(* and copies its input, any other program writes nothing here.            *)
NoMutation ==
  /\ pc = "start"
  /\ muts = <<>>
  /\ out' = IF rewrites THEN <<Copy(0, DocLen)>> ELSE <<>>
  /\ pc' = "done"
  /\ UNCHANGED <<muts, rewrites, pending, cursor>>

StartLoop ==
  /\ pc = "start"
  /\ muts # <<>>
  /\ pc' = "loop"
  /\ UNCHANGED <<muts, rewrites, pending, cursor, out>>

MutantSkip(i) ==
  /\ pc = "loop"
  /\ IsNext(i)
  /\ muts[i].start <= cursor
  /\ pending' = pending \ {i}
  /\ UNCHANGED <<muts, rewrites, cursor, out, pc>>

(* The mutation starts inside bytes already replaced: it is dropped.       *)
Skip(i) ==
  /\ pc = "loop"
  /\ IsNext(i)
  /\ muts[i].start < cursor
  /\ pending' = pending \ {i}
  /\ UNCHANGED <<muts, rewrites, cursor, out, pc>>

MutantApply(i) ==
  /\ pc = "loop"
  /\ IsNext(i)
  /\ muts[i].start >= cursor
  /\ muts[i].start <= DocLen
  /\ pending' = pending \ {i}
  /\ out' = out \o <<Copy(cursor, muts[i].start), Replacement(i)>>
  /\ cursor' = muts[i].start
  /\ UNCHANGED <<muts, rewrites, pc>>

(* Copy the gap, write the replacement, move past the replaced bytes.      *)
Apply(i) ==
  /\ pc = "loop"
  /\ IsNext(i)
  /\ muts[i].start >= cursor
  /\ muts[i].start <= DocLen
  /\ pending' = pending \ {i}
  /\ out' = out \o <<Copy(cursor, muts[i].start), Replacement(i)>>
  /\ cursor' = muts[i].end
  /\ UNCHANGED <<muts, rewrites, pc>>

(* original[cursor..m.start] is out of range: the process panics.          *)
Panic(i) ==
  /\ pc = "loop"
  /\ IsNext(i)
  /\ muts[i].start >= cursor
  /\ muts[i].start > DocLen
  /\ pc' = "panicked"
  /\ UNCHANGED <<muts, rewrites, pending, cursor, out>>

(* Copy what follows the last mutation.                                    *)
CopyTail ==
  /\ pc = "loop"
  /\ pending = {}
  /\ out' = IF cursor < DocLen THEN Append(out, Copy(cursor, DocLen)) ELSE out
  /\ cursor' = DocLen
  /\ pc' = "done"
  /\ UNCHANGED <<muts, rewrites, pending>>

Next ==
  \/ NoMutation
  \/ StartLoop
  \/ \E i \in pending : Skip(i) \/ Apply(i) \/ Panic(i)
  \/ CopyTail

Spec == Init /\ [][Next]_vars

-----------------------------------------------------------------------------
(* Properties.                                                             *)

(* Every variable stays in its domain.                                     *)
TypeOK ==
  /\ muts \in MutationList
  /\ rewrites \in BOOLEAN
  /\ pending \in SUBSET (DOMAIN muts)
  /\ cursor \in 0..DocLen
  /\ out \in Seq(Piece)
  /\ pc \in {"start", "loop", "done", "panicked"}

Applied == {i \in DOMAIN muts : \E k \in DOMAIN out : out[k].by = i}
Visited == DOMAIN muts \ pending

(* Where the account of the input stands before piece k + 1.               *)
Reached(k) == IF k = 0 THEN 0 ELSE out[k].to

(* The pieces account for the input bytes 0 .. cursor-1 exactly once and   *)
(* in order: whatever the mutations overlap, the loop of stitch loses no   *)
(* input byte and copies none twice.                                       *)
Tiling ==
  /\ \A k \in DOMAIN out : out[k].from = Reached(k - 1) /\ out[k].from <= out[k].to
  /\ muts # <<>> => Reached(Len(out)) = cursor
  /\ pc = "done" /\ rewrites => Reached(Len(out)) = DocLen

(* Two mutations that both reach the output replace disjoint bytes and     *)
(* appear in document order; among insertions at one point the one pushed  *)
(* first comes first (the sort is stable).                                 *)
AppliedInOrder ==
  \A k, l \in DOMAIN out :
    LET i == out[k].by  j == out[l].by IN
    k < l /\ i # 0 /\ j # 0 =>
      /\ i # j
      /\ muts[i].end <= muts[j].start
      /\ muts[i].start = muts[j].start => i < j

(* docs/language.md: stitch "drops a later mutation whose start lies       *)
(* inside bytes already replaced".  As a reference definition, free of the *)
(* cursor: among the mutations visited so far, exactly those reach the     *)
(* output whose start no earlier one that reaches it covers.               *)
AppliesSurvivors ==
  \A i \in Visited :
    i \in Applied <=>
      ~ \E j \in Applied : Precedes(j, i) /\ muts[i].start < muts[j].end
=============================================================================
