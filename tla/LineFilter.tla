----------------------------- MODULE LineFilter -----------------------------
(***************************************************************************)
(* The peephole optimizer of src/parser/mod.rs and the fused line filters  *)
(* it introduces (src/commands/mod.rs), on top of the literal search of    *)
(* src/engine/simd.rs.  A program splits views into lines and filters      *)
(* them; the optimizer replaces the two commands by one that searches for  *)
(* the literal and extends each hit to its line.                           *)
(*                                                                         *)
(* The commands of a plan are run one after the other, each over all views *)
(* of the one before: these commands have no effects that the order of the *)
(* lazy chain could change.  Pipeline is about that order.                 *)
(***************************************************************************)
EXTENDS Integers, Sequences, SequencesExt

CONSTANTS
  MaxLen,    (* Bound on the length of the input.                          *)
  Width,     (* Bits of a byte.                                            *)
  Lanes,     (* Bytes of the word that the SWAR search compares at once.   *)
  NL,        (* The newline.                                               *)
  Fold,      (* The simple case folding of each byte.                      *)
  Needles,   (* The literals that occur in programs.                       *)
  Downstream,(* The literal of a filter behind the two commands.           *)
  Splitters  (* The extractions x that programs begin with.                *)

(* Power[k] is 2^k.                                                        *)
Power[k \in 0..Width] == IF k = 0 THEN 1 ELSE 2 * Power[k - 1]

Base == Power[Width]
Byte == 0..(Base - 1)

ASSUME LineFilterAssumption ==
  /\ MaxLen \in Nat
  /\ Width \in Nat \ {0, 1}
  /\ Lanes \in Nat \ {0}
  /\ NL \in Byte
  /\ Fold \in [Byte -> Byte]
  /\ \A b \in Byte : Fold[b] = Fold[NL] => b = NL
  /\ Needles \subseteq Seq(Byte) \ {<<>>}
  /\ Downstream \in Needles
  /\ Splitters \subseteq [op : {"x"}, class : {"dot", "notNewline", "none"},
                          optional : BOOLEAN, dotAll : BOOLEAN]

None == -1

VARIABLES
  text,      (* The input, a function on 0..(length - 1).                  *)
  neon,      (* Whether the build and the processor have NEON.             *)
  program,   (* The commands as parsed.                                    *)
  i,         (* optimize: the next command to look at.                     *)
  plan,      (* optimize: the commands so far.  Then: what is run.         *)
  stage,     (* The command of the plan that runs.                         *)
  inputViews,(* What an earlier command handed to the program.             *)
  views,     (* The views the command has still to read.                   *)
  kept,      (* The views it has yielded.                                  *)
  cursor,    (* A fused filter's position in the first view, or None.      *)
  printed,   (* What was printed.                                          *)
  pc

vars == <<text, neon, program, i, plan, stage, inputViews, views, kept, cursor, printed, pc>>

-----------------------------------------------------------------------------
(* Literal search.                                                         *)

(* Bit by bit, the lowest one first.                                       *)
XorBits(a, b) ==
  LET xor[p \in Byte \X Byte] ==
        IF p = <<0, 0>> THEN 0
        ELSE 2 * xor[<<p[1] \div 2, p[2] \div 2>>] + (IF p[1] % 2 = p[2] % 2 THEN 0 ELSE 1)
  IN  xor[<<a, b>>]

HighBit(n) == n >= Base \div 2

(* The lanes of the word at p whose bit is set in                          *)
(* (xor - LO) & ~xor & HI, the borrows of the subtraction included.        *)
SwarLanes(byte, p) ==
  LET xor    == [k \in 0..(Lanes - 1) |-> XorBits(text[p + k], byte)]
      borrow[k \in 0..Lanes] == IF k = 0 THEN 0
                                ELSE IF xor[k - 1] < 1 + borrow[k - 1] THEN 1 ELSE 0
  IN  {k \in 0..(Lanes - 1) :
         HighBit((xor[k] - 1 - borrow[k]) % Base) /\ ~ HighBit(xor[k])}

NeonLanes(byte, p) == {k \in 0..(Lanes - 1) : text[p + k] = byte}

(* find_byte on text[from..to): word by word, the lowest lane of the first *)
(* word with a hit, then byte by byte.                                     *)
MutantFindByte(byte, from, to) ==
  LET hits(n) == LET p == from + n * Lanes
                 IN  IF neon THEN NeonLanes(byte, p) ELSE SwarLanes(byte, p)
      words   == 0..((to - from) \div Lanes - 1)
      found   == {n \in words : hits(n) # {}}
      rest    == {p \in (from + Lanes * ((to - from) \div Lanes))..(to - 1) : text[p] = byte}
  IN  IF found # {} THEN from + Min(found) * Lanes + Max(hits(Min(found)))
      ELSE IF rest # {} THEN Min(rest) ELSE None

FindByte(byte, from, to) ==
  LET hits(n) == LET p == from + n * Lanes
                 IN  IF neon THEN NeonLanes(byte, p) ELSE SwarLanes(byte, p)
      words   == 0..((to - from) \div Lanes - 1)
      found   == {n \in words : hits(n) # {}}
      rest    == {p \in (from + Lanes * ((to - from) \div Lanes))..(to - 1) : text[p] = byte}
  IN  IF found # {} THEN from + Min(found) * Lanes + Min(hits(Min(found)))
      ELSE IF rest # {} THEN Min(rest) ELSE None

(* Whether the needle stands at p.                                         *)
At(needle, p) == \A k \in DOMAIN needle : text[p + k - 1] = needle[k]

(* find: the next place of the first byte, then the whole needle; after a  *)
(* failed comparison the search goes on one byte further.                  *)
Find(needle, from, to) ==
  LET lastStart == to - Len(needle)
      search[p \in from..(to + 1)] ==
        IF p > lastStart THEN None
        ELSE LET c == FindByte(needle[1], p, to) IN
             IF c = None \/ c > lastStart THEN None
             ELSE IF At(needle, c) THEN c ELSE search[c + 1]
  IN  search[from]

(* memrchr(b'\n', text[from..to)).                                         *)
LastNewline(from, to) ==
  LET newlines == {p \in from..(to - 1) : text[p] = NL}
  IN  IF newlines = {} THEN None ELSE Max(newlines)

(* The regex crate on a case-insensitive literal: the leftmost place whose *)
(* folding is that of the needle.                                          *)
MetaFind(needle, from, to) ==
  LET places == {p \in from..(to - Len(needle)) :
                   \A k \in DOMAIN needle : Fold[text[p + k - 1]] = Fold[needle[k]]}
  IN  IF places = {} THEN None ELSE Min(places)

Search(re, from, to) == IF re.ignoreCase THEN MetaFind(re.needle, from, to)
                                         ELSE Find(re.needle, from, to)

-----------------------------------------------------------------------------
(* Commands.                                                               *)

Span(from, to)      == [from |-> from, to |-> to]
Matches(re, view)   == Search(re, view.from, view.to) # None

Regexes == [needle : Needles, ignoreCase : BOOLEAN]

(* A splitter is x/.*\n/ or x/.*\n?/, or the same with [^\n], perhaps with *)
(* the flag s; a class of "none" stands for x/\n/.  Then come g, v or the  *)
(* binder /re/ { p }, and perhaps a g that reads what they let through.    *)
Filters    == [op : {"g", "v", "binder"}, re : Regexes]
LastFilter == [op |-> "g", re |-> [needle |-> Downstream, ignoreCase |-> FALSE]]
Programs   == {<<x, f>> : x \in Splitters, f \in Filters}
              \cup {<<x, f, LastFilter>> : x \in Splitters, f \in Filters}

(* The end of the splitter's match at p, or None (the regex crate, on      *)
(* valid UTF-8: the dot and [^\n] do not match other bytes).               *)
SplitEnd(x, p, to) ==
  LET newlines == {q \in p..(to - 1) : text[q] = NL} IN
  CASE x.class = "none" -> IF p \in newlines THEN p + 1 ELSE None
    [] x.class = "dot" /\ x.dotAll ->
         IF x.optional THEN to ELSE IF newlines = {} THEN None ELSE Max(newlines) + 1
    [] OTHER ->
         IF newlines # {} THEN Min(newlines) + 1 ELSE IF x.optional THEN to ELSE None

(* ExtractCommand: the matches of the splitter.  The empty match at the    *)
(* end of the view is no record.                                           *)
Split(x, view) ==
  LET from[p \in view.from..view.to] ==
        LET starts == {q \in p..(view.to - 1) : SplitEnd(x, q, view.to) # None} IN
        IF starts = {} THEN <<>>
        ELSE LET end == SplitEnd(x, Min(starts), view.to)
             IN  <<Span(Min(starts), end)>> \o from[end]
  IN  from[view.from]

-----------------------------------------------------------------------------
Init ==
  /\ \E n \in 0..MaxLen : text \in [0..(n - 1) -> Byte]
  /\ neon \in BOOLEAN
  /\ program \in Programs
  /\ i = 1
  /\ plan = <<>>
  /\ stage = 1
  /\ LET len == Cardinality(DOMAIN text) IN
     \E m \in 0..len : inputViews = IF m = 0 THEN <<Span(0, len)>>
                                    ELSE <<Span(0, m), Span(m, len)>>
  /\ views = inputViews
  /\ kept = <<>>
  /\ cursor = None
  /\ printed = <<>>
  /\ pc = "optimize"

-----------------------------------------------------------------------------
(* optimize, one command of the program at a time.                         *)

(* fusion_info: the pattern text alone decides what a line splitter is,    *)
(* the flags do not.                                                       *)
IsLineSplit(c)     == c.op = "x" /\ c.class # "none"
RequireNewline(x)  == ~ x.optional
IsPlain(re)        == \A k \in DOMAIN re.needle : re.needle[k] # NL
LineSafeLiteral(re) == ~ re.ignoreCase /\ IsPlain(re)

Replace(commands) ==
  /\ plan' = plan \o commands
  /\ i' = i + 2
  /\ UNCHANGED <<text, neon, program, stage, inputViews, views, kept, cursor, printed, pc>>

Fused(op, f, x) == [op |-> op, re |-> f.re, invert |-> f.op = "v", requireNewline |-> RequireNewline(x)]

Fusible(op) == pc = "optimize" /\ i < Len(program) /\ IsLineSplit(program[i]) /\ program[i + 1].op \in op

FuseLiteral ==
  /\ Fusible({"g", "v"})
  /\ LineSafeLiteral(program[i + 1].re)
  /\ Replace(<<Fused("lineFilter", program[i + 1], program[i])>>)

FuseIgnoreCase ==
  /\ Fusible({"g"})
  /\ program[i + 1].re.ignoreCase
  /\ IsPlain(program[i + 1].re)
  /\ Replace(<<Fused("regexLineFilter", program[i + 1], program[i])>>)

(* The binder lets every view through, so it is fused only at the end.     *)
FusePrint ==
  /\ Fusible({"binder"})
  /\ i + 1 = Len(program)
  /\ LineSafeLiteral(program[i + 1].re)
  /\ Replace(<<Fused("lineFilter", program[i + 1], program[i]), [op |-> "p"]>>)

Keep ==
  /\ pc = "optimize"
  /\ i <= Len(program)
  /\ ~ /\ i < Len(program)
       /\ IsLineSplit(program[i])
       /\ LET next == program[i + 1] IN
          \/ next.op \in {"g", "v"} /\ LineSafeLiteral(next.re)
          \/ next.op = "g" /\ next.re.ignoreCase /\ IsPlain(next.re)
          \/ next.op = "binder" /\ i + 1 = Len(program) /\ LineSafeLiteral(next.re)
  /\ plan' = Append(plan, program[i])
  /\ i' = i + 1
  /\ UNCHANGED <<text, neon, program, stage, inputViews, views, kept, cursor, printed, pc>>

Start ==
  /\ pc = "optimize"
  /\ i > Len(program)
  /\ pc' = "run"
  /\ UNCHANGED <<text, neon, program, i, plan, stage, inputViews, views, kept, cursor, printed>>

-----------------------------------------------------------------------------
(* The commands of the plan.                                               *)
unchangedProgram == <<text, neon, program, i, plan, inputViews>>

Running(op) == pc = "run" /\ stage <= Len(plan) /\ views # <<>> /\ plan[stage].op \in op

(* The commands that treat a view at a time.                               *)
EachView ==
  /\ Running({"x", "g", "v", "binder", "p"})
  /\ LET c == plan[stage]  view == Head(views)  hit == Matches(c.re, view) IN
     /\ kept' = kept \o CASE c.op = "x" -> Split(c, view)
                          [] c.op = "g" -> IF hit THEN <<view>> ELSE <<>>
                          [] c.op = "v" -> IF hit THEN <<>> ELSE <<view>>
                          [] OTHER      -> <<view>>
     /\ printed' = IF c.op = "p" \/ (c.op = "binder" /\ hit) THEN Append(printed, view) ELSE printed
  /\ views' = Tail(views)
  /\ UNCHANGED <<unchangedProgram, stage, cursor, pc>>

Position == IF cursor = None THEN Head(views).from ELSE cursor

MutantLeaveView ==
  /\ views' = Tail(views)
  /\ UNCHANGED <<cursor, kept>>

(* The iterator over the first view returns None.                          *)
LeaveView ==
  /\ views' = Tail(views)
  /\ cursor' = None
  /\ UNCHANGED kept

Emit(line, next) ==
  /\ kept' = Append(kept, line)
  /\ cursor' = next
  /\ UNCHANGED views

(* The search-then-extend loop: from a hit back to the newline before it   *)
(* and on to the newline after it, where the next search starts.           *)
MutantExtend(hit) ==
  LET view  == Head(views)
      back  == LastNewline(Position, hit)
      start == IF back = None THEN Position ELSE back + 1
      nl    == FindByte(NL, hit, view.to)
  IN  IF nl # None THEN Emit(Span(start, nl + 1), hit + 1)
      ELSE IF plan[stage].requireNewline THEN LeaveView
      ELSE Emit(Span(start, view.to), view.to)

Extend(hit) ==
  LET view  == Head(views)
      back  == LastNewline(Position, hit)
      start == IF back = None THEN Position ELSE back + 1
      nl    == FindByte(NL, hit, view.to)
  IN  IF nl # None THEN Emit(Span(start, nl + 1), nl + 1)
      ELSE IF plan[stage].requireNewline THEN LeaveView
      ELSE Emit(Span(start, view.to), view.to)

(* LineFilterCommand without invert, and RegexLineFilterCommand.           *)
KeepMatching ==
  /\ Running({"lineFilter", "regexLineFilter"})
  /\ ~ plan[stage].invert
  /\ LET hit == Search(plan[stage].re, Position, Head(views).to) IN
     IF Position >= Head(views).to \/ hit = None THEN LeaveView ELSE Extend(hit)
  /\ UNCHANGED <<unchangedProgram, stage, printed, pc>>

(* LineFilterCommand with invert: every line is looked at.                 *)
KeepOthers ==
  /\ Running({"lineFilter"})
  /\ plan[stage].invert
  /\ LET view == Head(views)
         nl   == FindByte(NL, Position, view.to)
         next == IF nl = None THEN view.to ELSE nl + 1
     IN  IF Position >= view.to \/ (nl = None /\ plan[stage].requireNewline) THEN LeaveView
         ELSE IF Find(plan[stage].re.needle, Position, next) = None
         THEN Emit(Span(Position, next), next)
         ELSE cursor' = next /\ UNCHANGED <<views, kept>>
  /\ UNCHANGED <<unchangedProgram, stage, printed, pc>>

(* A command has read all its views: the next one reads what it yielded.   *)
NextCommand ==
  /\ pc = "run"
  /\ stage <= Len(plan)
  /\ views = <<>>
  /\ views' = kept
  /\ kept' = <<>>
  /\ stage' = stage + 1
  /\ pc' = IF stage = Len(plan) THEN "done" ELSE "run"
  /\ UNCHANGED <<unchangedProgram, cursor, printed>>

Next ==
  \/ FuseLiteral \/ FuseIgnoreCase \/ FusePrint \/ Keep \/ Start
  \/ EachView \/ KeepMatching \/ KeepOthers \/ NextCommand

Spec == Init /\ [][Next]_vars

-----------------------------------------------------------------------------
(* Properties.                                                             *)

(* Views lie in the input, cursors in the view they belong to.             *)
TypeOK ==
  /\ stage \in 1..(Len(plan) + 1)
  /\ i \in 1..(Len(program) + 1)
  /\ \A k \in DOMAIN views : views[k].from <= views[k].to
  /\ cursor # None => views # <<>> /\ Head(views).from < cursor /\ cursor <= Head(views).to
  /\ pc \in {"optimize", "run", "done"}

(* Whether the literal occurs in a view, by looking everywhere.            *)
Occurs(re, view) ==
  \E p \in view.from..(view.to - Len(re.needle)) : \A k \in DOMAIN re.needle :
    LET byte == text[p + k - 1] IN
    IF re.ignoreCase THEN Fold[byte] = Fold[re.needle[k]] ELSE byte = re.needle[k]

(* simd.rs:38-40, find "the first occurrence of the stored literal": the   *)
(* borrows between lanes and the candidates that fail do not hide it.      *)
FindsFirst ==
  pc = "optimize" /\ i = 1 =>
    LET needle == program[2].re.needle  len == Cardinality(DOMAIN text) IN
    \A from \in 0..len :
      LET places == {p \in from..(len - Len(needle)) : At(needle, p)}
      IN  Find(needle, from, len) = IF places = {} THEN None ELSE Min(places)

(* The lines in which the literal occurs, or those in which it does not.   *)
LinesWith(lines, re, present) ==
  FlattenSeq([k \in DOMAIN lines |-> IF Occurs(re, lines[k]) = present THEN <<lines[k]>> ELSE <<>>])

(* The program without the optimizer: the lines of all views, of which the *)
(* filter selects some.                                                    *)
AllLines == FlattenSeq([k \in DOMAIN inputViews |-> Split(program[1], inputViews[k])])
Selected == LinesWith(AllLines, program[2].re, program[2].op # "v")

(* commands/mod.rs:606-608 and parser/mod.rs:389-391: a fused program is   *)
(* always behaviourally identical to the one it replaces.  It prints the   *)
(* same lines and lets the same views through to whatever reads them.      *)
SelectsLikePipeline ==
  pc = "done" =>
    /\ printed = IF program[2].op = "binder" THEN Selected ELSE <<>>
    /\ LET through == IF program[2].op = "binder" THEN AllLines ELSE Selected
       IN  IF Len(program) = 3 THEN views = LinesWith(through, program[3].re, TRUE)
           ELSE program[2].op # "binder" => views = through
=============================================================================
