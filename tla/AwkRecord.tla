----------------------------- MODULE AwkRecord ------------------------------
(***************************************************************************)
(* The record of the awk interpreter (src/awk/interp.rs): $0, the fields   *)
(* and NF are three views of one record, each rebuilt from another when it *)
(* is assigned.  A program is any sequence of assignments to them and to   *)
(* the separators, between one record and the next.                        *)
(*                                                                         *)
(* Text is a sequence of symbols: a blank, a separator, letters, and the   *)
(* two that end a line.                                                    *)
(***************************************************************************)
EXTENDS AwkStrings

CONSTANTS
  Colon, Letter, (* The symbols with those of AwkStrings.                  *)
  Texts,       (* The strings a program assigns, and the bodies of records.*)
  Separators,  (* The values a program gives to FS and OFS.                *)
  MaxField,    (* Bound on the index of a field that is assigned, and NF.  *)
  MaxRecords   (* Bound on the number of records.                          *)

Symbols == {Blank, Colon, Letter, CR, LF}

ASSUME AwkRecordAssumption ==
  /\ Texts \subseteq Seq(Symbols)
  /\ Separators \subseteq Seq(Symbols)
  /\ MaxField \in Nat
  /\ MaxRecords \in Nat

VARIABLES
  FS, OFS,   (* The special variables, as fs() and ofs() read them.        *)
  field0,    (* $0.                                                        *)
  fields,    (* $1 to $NF.                                                 *)
  nr,        (* NR.                                                        *)
  errored,   (* A runtime error has ended the program.                     *)
  built      (* History: which of $0 and the fields was made from the      *)
             (* other last, and with which separator.                      *)

vars == <<FS, OFS, field0, fields, nr, errored, built>>

-----------------------------------------------------------------------------
(* Helpers of the interpreter.                                             *)

By(how, sep) == [how |-> how, sep |-> sep]

(* $0 becomes s, and the fields follow.                                    *)
Resplit(s) ==
  /\ field0' = s
  /\ fields' = split_record(s, FS)
  /\ built' = By("split", FS)

MutantRebuildRecord(parts) ==
  /\ fields' = parts
  /\ field0' = IF parts = <<>> THEN field0 ELSE Join(parts, OFS)
  /\ built' = By("join", OFS)

(* The fields become parts, and $0 follows.                                *)
RebuildRecord(parts) ==
  /\ fields' = parts
  /\ field0' = Join(parts, OFS)
  /\ built' = By("join", OFS)

-----------------------------------------------------------------------------
Init ==
  /\ FS = Default
  /\ OFS = Default
  /\ field0 = <<>>
  /\ fields = <<>>
  /\ nr = 0
  /\ errored = FALSE
  /\ built = By("split", Default)

(* A view arrives: the next record.                                        *)
SetRecord(record) ==
  /\ ~ errored
  /\ nr < MaxRecords
  /\ Resplit(Chomped(record))
  /\ nr' = nr + 1
  /\ UNCHANGED <<FS, OFS, errored>>

(* $0 = s                                                                  *)
AssignRecord(s) ==
  /\ ~ errored
  /\ Resplit(s)
  /\ UNCHANGED <<FS, OFS, nr, errored>>

(* $n = s, n > 0: missing fields before it are empty.                      *)
AssignField(n, s) ==
  /\ ~ errored
  /\ RebuildRecord([Resized(fields, Max({n, Len(fields)})) EXCEPT ![n] = s])
  /\ UNCHANGED <<FS, OFS, nr, errored>>

(* $n = s, n < 0: an error ends the program.                               *)
AssignNegative ==
  /\ ~ errored
  /\ errored' = TRUE
  /\ UNCHANGED <<FS, OFS, field0, fields, nr, built>>

(* NF = n; a negative number counts as 0.                                  *)
AssignNF(n) ==
  /\ ~ errored
  /\ RebuildRecord(Resized(fields, Max({n, 0})))
  /\ UNCHANGED <<FS, OFS, nr, errored>>

(* FS = sep and OFS = sep: only later splits and joins see them.           *)
AssignFS(sep) ==
  ~ errored /\ FS' = sep /\ UNCHANGED <<OFS, field0, fields, nr, errored, built>>
AssignOFS(sep) ==
  ~ errored /\ OFS' = sep /\ UNCHANGED <<FS, field0, fields, nr, errored, built>>

Next ==
  \/ \E s \in Texts, ending \in {<<>>, <<LF>>, <<CR, LF>>, <<CR>>} : SetRecord(s \o ending)
  \/ \E s \in Texts : AssignRecord(s)
  \/ \E n \in 1..MaxField, s \in Texts : AssignField(n, s)
  \/ AssignNegative
  \/ \E n \in -1..MaxField : AssignNF(n)
  \/ \E sep \in Separators : AssignFS(sep) \/ AssignOFS(sep)

Spec == Init /\ [][Next]_vars

-----------------------------------------------------------------------------
(* Properties.                                                             *)

(* docs/awk.md:73-75: the record and its fields never drift apart.  One of *)
(* them is what the other gives, with the separator of that moment,        *)
(* whatever was assigned since.                                            *)
RecordAgrees ==
  IF built.how = "split" THEN fields = split_record(field0, built.sep)
                         ELSE field0 = Join(fields, built.sep)

(* Where in s, from a place on, a run of symbols that are not white space  *)
(* starts, and whether w is the run at p.                                  *)
RunsFrom(s, first) ==
  {p \in first..Len(s) : s[p] \notin Space /\ (p = first \/ s[p - 1] \in Space)}
IsRun(w, s, p) ==
  LET end == p + Len(w)
  IN  /\ w # <<>> /\ end <= Len(s) + 1
      /\ w = SubSeq(s, p, end - 1)
      /\ \A q \in p..(end - 1) : s[q] \notin Space
      /\ end = Len(s) + 1 \/ s[end] \in Space

(* The words are the runs of s from a place on, each once and in order.    *)
AreTheRuns(words, s, first) ==
  \E at \in [DOMAIN words -> RunsFrom(s, first)] :
    /\ \A p \in RunsFrom(s, first) : \E k \in DOMAIN words : at[k] = p
    /\ \A j, k \in DOMAIN words : j < k => at[j] < at[k]
    /\ \A k \in DOMAIN words : IsRun(words[k], s, at[k])

(* No separator stands in s.                                               *)
Without(sep, s) == \A p \in 1..(Len(s) - Len(sep) + 1) : ~ StandsAt(sep, s, p)

(* The parts are what splitting s with sep must give.                      *)
SplitsExactly(parts, s, sep) ==
  IF sep = Default THEN AreTheRuns(parts, s, 1)
  ELSE /\ Join(parts, sep) = s
       /\ \A k \in DOMAIN parts : IF sep = <<>> THEN Len(parts[k]) = 1
                                  ELSE Without(sep, parts[k])

(* docs/awk.md:84-89, without the algorithm: the default separator gives   *)
(* the runs of other symbols, all of them, once and in order; the empty    *)
(* one every symbol; another one gives pieces that do not contain it and   *)
(* that it joins to the record.                                            *)
SplitIsExact ==
  built.how = "split" => SplitsExactly(fields, field0, built.sep)

(* A record joined with a separator of one symbol splits into the same     *)
(* fields again, if none of them contains it; a single empty field is the  *)
(* empty record, which has none.                                           *)
SplitInvertsJoin ==
  built.how = "join" /\ Len(built.sep) = 1 /\ built.sep # Default
    /\ (\A k \in DOMAIN fields : \A p \in DOMAIN fields[k] : fields[k][p] # built.sep[1])
    => split_record(field0, built.sep) = IF fields = << <<>> >> THEN <<>> ELSE fields
=============================================================================
