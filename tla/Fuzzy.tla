------------------------------- MODULE Fuzzy --------------------------------
(***************************************************************************)
(* The matcher of ~k/pattern/ (src/engine/fuzzy.rs): an exact search for   *)
(* one of k + 1 pieces of the pattern decides whether the distance is      *)
(* computed at all.                                                        *)
(***************************************************************************)
EXTENDS Integers, Sequences, FiniteSetsExt

(* SimdLiteralMatcher::find finds something: see Find of LineFilter.       *)
Occurs(piece, text) ==
  \E p \in 0..(Len(text) - Len(piece)) : SubSeq(text, p + 1, p + Len(piece)) = piece

MutantSplitPieces(pattern, parts) ==
  LET base == Len(pattern) \div parts
  IN  [i \in 1..parts |-> SubSeq(pattern, (i - 1) * base + 1,
                                 IF i = parts THEN Len(pattern) ELSE i * base + 1)]

(* Contiguous pieces; the first ones take what the division leaves.        *)
split_pieces(pattern, parts) ==
  LET base == Len(pattern) \div parts
      rem  == Len(pattern) % parts
      start(i) == i * base + Min({i, rem})   (* where piece i + 1 begins   *)
  IN  [i \in 1..parts |-> SubSeq(pattern, start(i - 1) + 1, start(i))]

(* One row of the table: cur[i] is the least number of edits that make     *)
(* pattern[..i] a substring of the text ending with c.                     *)
NextRow(pattern, prev, c) ==
  LET cur[i \in 0..Len(pattern)] ==
        IF i = 0 THEN 0
        ELSE Min({prev[i - 1] + (IF pattern[i] = c THEN 0 ELSE 1),
                  prev[i] + 1,
                  cur[i - 1] + 1})
  IN  cur

within_k(pattern, text, k) ==
  LET row[j \in 0..Len(text)] ==
        IF j = 0 THEN [i \in 0..Len(pattern) |-> i]
                 ELSE NextRow(pattern, row[j - 1], text[j])
  IN  \E j \in DOMAIN text : row[j][Len(pattern)] <= k

(* FuzzyMatcher::new and is_match.                                         *)
is_match(pattern, k, text) ==
  LET m == Len(pattern)
      pieces == split_pieces(pattern, k + 1)
  IN  \/ m = 0 \/ k >= m
      \/ /\ \E i \in DOMAIN pieces : Occurs(pieces[i], text)
         /\ within_k(pattern, text, k)

-----------------------------------------------------------------------------
(* The reference: what k edits can make of the pattern.                    *)

Edits(s, alphabet) ==
  LET cut(p) == SubSeq(s, 1, p - 1)
      rest(p) == SubSeq(s, p, Len(s))
  IN  {s} \cup {cut(p) \o rest(p + 1) : p \in DOMAIN s}
          \cup {cut(p) \o <<c>> \o rest(p + 1) : p \in DOMAIN s, c \in alphabet}
          \cup {cut(p) \o <<c>> \o rest(p) : p \in 1..(Len(s) + 1), c \in alphabet}

Within(pattern, k, alphabet) ==
  LET ball[d \in 0..k] == IF d = 0 THEN {pattern}
                          ELSE UNION {Edits(s, alphabet) : s \in ball[d - 1]}
  IN  ball[k]

(* docs/language.md: a view is kept if some part of it is at most k edits  *)
(* from the pattern.                                                       *)
Resembles(pattern, k, text) ==
  LET alphabet == {text[p] : p \in DOMAIN text}
  IN  \E s \in Within(pattern, k, alphabet) : Len(s) <= Len(text) /\ Occurs(s, text)
=============================================================================
