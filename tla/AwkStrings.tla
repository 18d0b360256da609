----------------------------- MODULE AwkStrings -----------------------------
(***************************************************************************)
(* The strings of the awk interpreter (src/awk/interp.rs): sequences of    *)
(* symbols, split at a separator and joined with one.                      *)
(***************************************************************************)
EXTENDS Integers, Sequences, FiniteSetsExt

CONSTANTS Blank, CR, LF (* The symbols that are white space.               *)

Space   == {Blank, CR, LF}
Default == <<Blank>> (* The separator FS and OFS start with.               *)

StandsAt(sep, s, p) == SubSeq(s, p, p + Len(sep) - 1) = sep

(* str::split_whitespace.                                                  *)
Words(s) ==
  LET from[p \in 1..(Len(s) + 1)] ==
        IF p > Len(s) THEN <<>>
        ELSE IF s[p] \in Space THEN from[p + 1]
        ELSE LET end == Min({q \in p..(Len(s) + 1) : q > Len(s) \/ s[q] \in Space})
             IN  <<SubSeq(s, p, end - 1)>> \o from[end]
  IN  from[1]

(* str::split on a separator, a character or a string.                     *)
Pieces(s, sep) ==
  LET from[p \in 1..(Len(s) + 1)] ==
        LET hits == {q \in p..(Len(s) - Len(sep) + 1) : StandsAt(sep, s, q)}
        IN  IF hits = {} THEN <<SubSeq(s, p, Len(s))>>
            ELSE <<SubSeq(s, p, Min(hits) - 1)>> \o from[Min(hits) + Len(sep)]
  IN  from[1]

Characters(s) == [p \in DOMAIN s |-> <<s[p]>>]

MutantSplitRecord(s, fs) ==
  IF fs = Default THEN Pieces(s, fs)
  ELSE IF fs = <<>> THEN Characters(s)
  ELSE IF s = <<>> THEN <<>>
  ELSE Pieces(s, fs)

split_record(s, fs) ==
  IF fs = Default THEN Words(s)
  ELSE IF fs = <<>> THEN Characters(s)
  ELSE IF s = <<>> THEN <<>>
  ELSE Pieces(s, fs)

MutantJoin(parts, sep) ==
  LET upTo[n \in 0..Len(parts)] ==
        IF n = 0 THEN <<>>
        ELSE IF upTo[n - 1] = <<>> THEN parts[n]
        ELSE upTo[n - 1] \o sep \o parts[n]
  IN  upTo[Len(parts)]

(* slice::join.                                                            *)
Join(parts, sep) ==
  LET upTo[n \in 0..Len(parts)] ==
        IF n = 0 THEN <<>>
        ELSE IF n = 1 THEN parts[1]
        ELSE upTo[n - 1] \o sep \o parts[n]
  IN  upTo[Len(parts)]

Resized(parts, n) == [k \in 1..n |-> IF k <= Len(parts) THEN parts[k] ELSE <<>>]

(* set_record drops a newline and the carriage return before it.           *)
Chomped(record) ==
  LET last(s) == IF s = <<>> THEN Blank ELSE s[Len(s)]
      front(s) == SubSeq(s, 1, Len(s) - 1)
  IN  IF last(record) # LF THEN record
      ELSE IF last(front(record)) = CR THEN front(front(record))
      ELSE front(record)
=============================================================================
