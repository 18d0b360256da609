------------------------------ MODULE Pipeline ------------------------------
(***************************************************************************)
(* The view pipeline: Pipeline::execute of src/core/types.rs, drive of     *)
(* src/main.rs and the commands of src/commands/mod.rs.                    *)
(*                                                                         *)
(* A pipeline is a chain of lazy iterators.  Polling the last one polls    *)
(* the one before it, and so on down to the view the pipeline was started  *)
(* on; a view then travels up, each stage acting on it as it passes.  A    *)
(* command with a block starts the block's own chain on a view and polls   *)
(* that.  The model is this machine: a stack of the stages that are inside *)
(* next(), and a register with what goes up or down the chain.             *)
(*                                                                         *)
(* Input bytes are symbols, among them "n" (a newline), the brackets "("   *)
(* and ")", and "b", which c puts in the place of a view.  A view is an    *)
(* address relative to the input and the bytes there.  c and r yield views *)
(* of their own memory: these lie at or beyond Foreign.                    *)
(***************************************************************************)
EXTENDS Integers, Sequences, SequencesExt, Tree

CONSTANTS
  Symbols,   (* What a byte may be.                                        *)
  Programs,  (* Programs: functions from paths to sequences of commands.   *)
             (* <<>> is the top-level pipeline, Append(p, k) the block of  *)
             (* command k of pipeline p.                                   *)
  Docs,      (* Inputs: sequences of symbols.                              *)
  Foreign,   (* An offset beyond every input.                              *)
  BufCap     (* Records the buffered writer of one command holds.          *)

BlockOps == {"group", "m", "/", "t"}
Ops      == BlockOps \cup {"x", "y", "g", "v", "+", "-", "s", "c", "p", "=", "N", "r", "@"}
Commands == [op : Ops, re : STRING, global : BOOLEAN]

(* What the parser builds: every command with a block has one.             *)
IsProgram(pr) ==
  /\ <<>> \in DOMAIN pr
  /\ \A p \in DOMAIN pr :
       /\ p \in Seq(Nat)
       /\ pr[p] \in Seq(Commands)
       /\ \A k \in DOMAIN pr[p] : pr[p][k].op \in BlockOps => Append(p, k) \in DOMAIN pr

ASSUME PipelineAssumption ==
  /\ {"b", "n", "(", ")"} \subseteq Symbols
  /\ Foreign \in Nat /\ BufCap \in Nat \ {0}
  /\ \A d \in Docs : d \in Seq(Symbols) /\ Len(d) < Foreign
  /\ \A pr \in Programs : IsProgram(pr)

VARIABLES
  prog,    (* The program.                                                 *)
  doc,     (* The input.                                                   *)
  st,      (* st[p][k]: the iterator of stage k of pipeline p.             *)
  stack,   (* The stages inside next(), innermost last.                    *)
  reg,     (* What is passed between them.                                 *)
  muts,    (* ExecutionContext.mutations.                                  *)
  flag,    (* ExecutionContext.substitutions_made.                         *)
  error,   (* ExecutionContext.error: <<>>, or the stage that raised it.   *)
  stdout,  (* Records written to standard output.                          *)
  log,     (* History: every effect of a command, in order.                *)
  pc

vars == <<prog, doc, st, stack, reg, muts, flag, error, stdout, log, pc>>

-----------------------------------------------------------------------------
(* Views and patterns.                                                     *)

View(at, text) == [at |-> at, text |-> text]
NoView == View(0, <<>>)

Slice(v, s) == View(v.at + s.start, SubSeq(v.text, s.start + 1, s.end))
EndOf(v) == v.at + Len(v.text)

(* The end of the match of pattern re that starts at p: "line" is .*\n?,   *)
(* "eol" is $, the rest are literals.                                      *)
MatchEnd(re, text, p) ==
  LET n == Len(text) IN
  CASE re = "line" ->
         LET nl == {q \in (p + 1)..n : text[q] = "n"} IN
         IF nl = {} THEN n ELSE CHOOSE q \in nl : \A r \in nl : q <= r
    [] re = "eol" -> IF p = n \/ text[p + 1] = "n" THEN p ELSE None
    [] OTHER -> IF p < n /\ text[p + 1] = re THEN p + 1 ELSE None

(* What find_iter (find_iter_sub when sub holds) yields: see MatchIter.    *)
Matches(re, text, sub) ==
  LET n == Len(text)
      phantom(p, e) == p = e /\ e = n /\ (sub => n > 0 /\ text[n] = "n")
      scan[o \in 0..(n + 1)] ==
        LET starts == {p \in o..n : MatchEnd(re, text, p) # None} IN
        IF starts = {} THEN <<>>
        ELSE LET p == CHOOSE q \in starts : \A r \in starts : q <= r
                 e == MatchEnd(re, text, p)
             IN IF phantom(p, e) THEN <<>>
                ELSE <<[start |-> p, end |-> e]>> \o scan[IF e > p THEN e ELSE e + 1]
  IN scan[0]

Found(re, v) == Matches(re, v.text, FALSE) # <<>>
Extracted(re, v) == [i \in DOMAIN Matches(re, v.text, FALSE) |->
                       Slice(v, Matches(re, v.text, FALSE)[i])]

(* The gaps between the matches, as y collects them.                       *)
Yanked(re, v) ==
  LET ms     == Matches(re, v.text, FALSE)
      gap(i) == [start |-> IF i = 1 THEN 0 ELSE ms[i - 1].end,
                 end   |-> IF i > Len(ms) THEN Len(v.text) ELSE ms[i].start]
      views[i \in 0..(Len(ms) + 1)] ==
        IF i = 0 THEN <<>>
        ELSE IF gap(i).start < gap(i).end THEN Append(views[i - 1], Slice(v, gap(i)))
        ELSE views[i - 1]
  IN views[Len(ms) + 1]

(* The matches s edits: all of them, or the first.                         *)
Edited(cmd, v) ==
  LET ms == Matches(cmd.re, v.text, TRUE) IN
  IF cmd.global \/ ms = <<>> THEN ms ELSE <<ms[1]>>

(* The bytes r leaks: the views joined by a separator.                     *)
Separator == <<"n">>
Join(views) ==
  LET texts == [i \in DOMAIN views |-> IF i = 1 THEN views[i].text
                                       ELSE Separator \o views[i].text]
  IN FlattenSeq(texts)

ChangeText == <<"b">>

-----------------------------------------------------------------------------
(* The machine.                                                            *)

Poll    == [kind |-> "poll"]
Some(v) == [kind |-> "some", view |-> v]
End     == [kind |-> "none"]

Fresh == [queue  |-> <<>>,   (* views ready to be yielded                  *)
          held   |-> <<>>,   (* views kept back                            *)
          fused  |-> FALSE,  (* a flat_map saw its upstream end            *)
          inner  |-> FALSE,  (* the block's chain is being polled          *)
          began  |-> FALSE, ended |-> FALSE, errored |-> FALSE,  (* AwkRun *)
          buf    |-> <<>>]   (* records in the buffered writer             *)

Frame(p, k, wait) == [p |-> p, k |-> k, wait |-> wait]
Top == Last(stack)
Cmd == prog[Top.p][Top.k]
St  == st[Top.p][Top.k]
At  == <<Top.p, Top.k>>
Block(f) == Append(f.p, f.k)

FlatMapOps == {"x", "y", "group", "m", "t"}
IsReduce(p, k) == k > 0 /\ prog[p][k].op = "r"

(* The first reducer after stage k, or one past the last stage.            *)
NextReduce(p, k) ==
  LET n == Len(prog[p])
      rs == {j \in (k + 1)..n : IsReduce(p, j)}
  IN IF rs = {} THEN n + 1 ELSE CHOOSE j \in rs : \A i \in rs : j <= i

(* Building the chain of p above stage k: the apply of a reducer drains    *)
(* the stages below it at once; after the last reducer the chain is polled.*)
BuildAbove(p, k) ==
  LET r == NextReduce(p, k) IN
  IF r > Len(prog[p])
  THEN <<Frame(p, Len(prog[p]), "")>>
  ELSE <<Frame(p, r, "collect"), Frame(p, r - 1, "")>>

(* execute: fresh iterators over the one view it is started on.            *)
Chain(p, v) ==
  [k \in 0..Len(prog[p]) |-> IF k = 0 THEN [Fresh EXCEPT !.queue = <<v>>] ELSE Fresh]

Waiting(w) == Append(Front(stack), [Top EXCEPT !.wait = w])
Reply(r)   == stack' = Front(stack) /\ reg' = r
Again      == stack' = Waiting("") /\ reg' = Poll
PollUp     == stack' = Append(Waiting("up"), Frame(Top.p, Top.k - 1, "")) /\ reg' = Poll
PollBlock  ==
  /\ stack' = Append(Waiting("block"), Frame(Block(Top), Len(prog[Block(Top)]), ""))
  /\ reg' = Poll
SetStage(s) == st' = [st EXCEPT ![Top.p][Top.k] = s]

(* Start the block on v with stage state s, and poll it.                   *)
Enter(v, s) ==
  /\ st' = [st EXCEPT ![Top.p][Top.k] = [s EXCEPT !.inner = TRUE],
                      ![Block(Top)] = Chain(Block(Top), v)]
  /\ stack' = Waiting("block") \o BuildAbove(Block(Top), 0)
  /\ reg' = Poll

(* Dropping the stages 1 .. n of a chain flushes their writers in order.   *)
Buffered(p, n) == FlattenSeq([k \in 1..n |-> st[p][k].buf])
Flushed(p, n)  == [k \in DOMAIN st[p] |->
                     IF k <= n THEN [st[p][k] EXCEPT !.buf = <<>>] ELSE st[p][k]]

(* The operators named Mutant... are faulty variants of the definition that *)
(* follows them.  The specification does not use them: put in its place,   *)
(* each one makes a property fail, which shows what the property is for.   *)
MutantWriteLate(s, record) ==
  IF Len(s.buf) > BufCap
  THEN /\ stdout' = stdout \o s.buf
       /\ SetStage([s EXCEPT !.buf = <<record>>])
  ELSE /\ stdout' = stdout
       /\ SetStage([s EXCEPT !.buf = Append(@, record)])

(* A buffered write: a full buffer is flushed first.                       *)
Write(s, record) ==
  IF Len(s.buf) >= BufCap
  THEN /\ stdout' = stdout \o s.buf
       /\ SetStage([s EXCEPT !.buf = <<record>>])
  ELSE /\ stdout' = stdout
       /\ SetStage([s EXCEPT !.buf = Append(@, record)])

Record(what, v) == [stage |-> At, what |-> what, view |-> v]
Log(r) == log' = Append(log, r)

Effects == <<muts, flag, error, stdout, log>>

-----------------------------------------------------------------------------
(* Polling a stage.                                                        *)

Polled(op) == pc = "run" /\ stack # <<>> /\ reg = Poll /\ Top.k > 0 /\ Cmd.op = op

(* The bottom of a chain is once(view).                                    *)
PollSource ==
  /\ pc = "run" /\ stack # <<>> /\ reg = Poll /\ Top.k = 0
  /\ IF St.queue = <<>> THEN Reply(End) ELSE Reply(Some(Head(St.queue)))
  /\ SetStage([St EXCEPT !.queue = <<>>])
  /\ UNCHANGED <<prog, doc, Effects, pc>>

(* map, filter and inspect adaptors ask the stage below.                   *)
PollThrough ==
  /\ \E op \in {"g", "v", "+", "-", "s", "c", "p", "=", "N"} : Polled(op)
  /\ PollUp
  /\ UNCHANGED <<prog, doc, st, Effects, pc>>

(* A binder's inspect runs the block to exhaustion inside its closure.     *)
PollBinder ==
  /\ Polled("/")
  /\ IF St.inner THEN PollBlock ELSE PollUp
  /\ UNCHANGED <<prog, doc, st, Effects, pc>>

(* flat_map: what it holds first, then the block's chain, then the stage   *)
(* below until that has ended once (flat_map fuses it).                    *)
PollFlatMap ==
  /\ \E op \in FlatMapOps : Polled(op)
  /\ \/ /\ St.inner
        /\ PollBlock
        /\ UNCHANGED st
     \/ /\ ~ St.inner /\ St.queue # <<>> /\ Cmd.op # "m"
        /\ Reply(Some(Head(St.queue)))
        /\ SetStage([St EXCEPT !.queue = Tail(@)])
     \/ /\ ~ St.inner /\ St.queue # <<>> /\ Cmd.op = "m"
        /\ Enter(Head(St.queue), [St EXCEPT !.queue = Tail(@)])
     \/ /\ ~ St.inner /\ St.queue = <<>> /\ ~ St.fused
        /\ PollUp
        /\ UNCHANGED st
     \/ /\ ~ St.inner /\ St.queue = <<>> /\ St.fused
        /\ Reply(End)
        /\ UNCHANGED st
  /\ UNCHANGED <<prog, doc, Effects, pc>>

(* A reducer has its result since it was built.                            *)
PollReduce ==
  /\ Polled("r")
  /\ IF St.queue = <<>> THEN Reply(End) ELSE Reply(Some(Head(St.queue)))
  /\ SetStage([St EXCEPT !.queue = <<>>])
  /\ UNCHANGED <<prog, doc, Effects, pc>>

(* ExecutionContext::record_error keeps the first error.                   *)
Raise(fails) == error' = IF fails /\ error = <<>> THEN <<At>> ELSE error

(* AwkRun::next runs BEGIN before it first asks for a record.              *)
PollAwk ==
  /\ Polled("@")
  /\ IF St.began
     THEN PollUp /\ UNCHANGED <<st, Effects>>
     ELSE LET fails == Cmd.re = "begin" IN
          /\ Write([St EXCEPT !.began = TRUE, !.errored = fails], Record("BEGIN", NoView))
          /\ Log(Record("BEGIN", NoView))
          /\ Raise(fails)
          /\ UNCHANGED <<stack, reg, muts, flag>>
  /\ UNCHANGED <<prog, doc, pc>>

-----------------------------------------------------------------------------
(* A view, or the end of the stream, arrives from the stage below.         *)

Arrived(op, kind) ==
  /\ pc = "run" /\ stack # <<>> /\ reg.kind = kind
  /\ Top.k > 0 /\ Top.wait = "up" /\ Cmd.op = op

(* The adaptors that hold nothing pass the end on.                         *)
PassEnd ==
  /\ \E op \in {"g", "v", "+", "-", "s", "c", "p", "=", "/"} : Arrived(op, "none")
  /\ Reply(End)
  /\ UNCHANGED <<prog, doc, st, Effects, pc>>

MutantFlatMapEnd ==
  /\ \E op \in FlatMapOps : Arrived(op, "none")
  /\ st' = [st EXCEPT ![Top.p] = Flushed(Top.p, Top.k - 1)]
  /\ stdout' = stdout \o Buffered(Top.p, Top.k - 1)
  /\ Again
  /\ UNCHANGED <<prog, doc, muts, flag, error, log, pc>>

(* flat_map fuses its upstream: it is never polled again, and the stages   *)
(* below are dropped.                                                      *)
FlatMapEnd ==
  /\ \E op \in FlatMapOps : Arrived(op, "none")
  /\ st' = [st EXCEPT ![Top.p] = [Flushed(Top.p, Top.k - 1) EXCEPT ![Top.k].fused = TRUE]]
  /\ stdout' = stdout \o Buffered(Top.p, Top.k - 1)
  /\ Again
  /\ UNCHANGED <<prog, doc, muts, flag, error, log, pc>>

(* x and y: the matches of the view, or the gaps between them.             *)
Split ==
  /\ \E op \in {"x", "y"} : Arrived(op, "some")
  /\ SetStage([St EXCEPT !.queue = IF Cmd.op = "x" THEN Extracted(Cmd.re, reg.view)
                                                   ELSE Yanked(Cmd.re, reg.view)])
  /\ Again
  /\ UNCHANGED <<prog, doc, Effects, pc>>

(* +: the block around the view, found in the input.  The scan starts at   *)
(* the view's offset, and panics if that is outside the input.             *)
Expand ==
  /\ Arrived("+", "some")
  /\ LET v == reg.view IN
     IF v.at > Len(doc)
     THEN pc' = "panicked" /\ UNCHANGED <<stack, reg>>
     ELSE /\ Reply(Some(Slice(View(0, doc), Expanded(doc, v.at, EndOf(v)))))
          /\ UNCHANGED pc
  /\ UNCHANGED <<prog, doc, st, Effects>>

(* -: the inside of the view's first block; a view without one is dropped. *)
Collapse ==
  /\ Arrived("-", "some")
  /\ LET inner == Collapsed(reg.view.text) IN
     IF inner = <<>> THEN Again ELSE Reply(Some(Slice(reg.view, inner[1])))
  /\ UNCHANGED <<prog, doc, st, Effects, pc>>

(* m: the matches of the view, to run the block on.                        *)
MapView ==
  /\ Arrived("m", "some")
  /\ SetStage([St EXCEPT !.queue = Extracted(Cmd.re, reg.view)])
  /\ Again
  /\ UNCHANGED <<prog, doc, Effects, pc>>

(* g and v: keep or reject the view.                                       *)
Filter ==
  /\ \E op \in {"g", "v"} : Arrived(op, "some")
  /\ IF Found(Cmd.re, reg.view) = (Cmd.op = "g") THEN Reply(reg) ELSE Again
  /\ UNCHANGED <<prog, doc, st, Effects, pc>>

MutantSubstitute ==
  /\ Arrived("s", "some")
  /\ LET ms  == Edited(Cmd, reg.view)
         new == [i \in DOMAIN ms |-> [start |-> ms[i].start, end |-> ms[i].end, by |-> At]]
     IN /\ muts' = muts \o new
        /\ flag' = (flag \/ new # <<>>)
  /\ Log(Record("s", reg.view))
  /\ Reply(reg)
  /\ UNCHANGED <<prog, doc, st, error, stdout, pc>>

(* s: record a mutation per edited match, at the view's offset; set the    *)
(* flag of t if there was one; pass the view on.                           *)
Substitute ==
  /\ Arrived("s", "some")
  /\ LET ms  == Edited(Cmd, reg.view)
         new == [i \in DOMAIN ms |-> [start |-> reg.view.at + ms[i].start,
                                      end   |-> reg.view.at + ms[i].end, by |-> At]]
     IN /\ muts' = muts \o new
        /\ flag' = (flag \/ new # <<>>)
  /\ Log(Record("s", reg.view))
  /\ Reply(reg)
  /\ UNCHANGED <<prog, doc, st, error, stdout, pc>>

(* c: record one mutation over the view; what goes on is a view of the     *)
(* replacement, which is not part of the input.                            *)
Change ==
  /\ Arrived("c", "some")
  /\ muts' = Append(muts, [start |-> reg.view.at, end |-> EndOf(reg.view), by |-> At])
  /\ Log(Record("c", reg.view))
  /\ Reply(Some(View(Foreign, ChangeText)))
  /\ UNCHANGED <<prog, doc, st, flag, error, stdout, pc>>

(* p and =: a buffered record per view.                                    *)
PrintView ==
  /\ \E op \in {"p", "="} : Arrived(op, "some")
  /\ Write(St, Record(Cmd.op, reg.view))
  /\ Log(Record(Cmd.op, reg.view))
  /\ Reply(reg)
  /\ UNCHANGED <<prog, doc, muts, flag, error, pc>>

(* ByteView::merge slices the input from the smaller start to the larger   *)
(* end, which panics unless both views lie in the input.                   *)
Merged(v, w) ==
  LET from == IF v.at <= w.at THEN v.at ELSE w.at
      to   == IF EndOf(v) >= EndOf(w) THEN EndOf(v) ELSE EndOf(w)
  IN View(from, SubSeq(doc, from + 1, to))

(* N: hold the first view of a pair, yield the pair merged.                *)
NextFirst ==
  /\ Arrived("N", "some") /\ St.held = <<>>
  /\ SetStage([St EXCEPT !.held = <<reg.view>>])
  /\ PollUp
  /\ UNCHANGED <<prog, doc, Effects, pc>>

NextSecond ==
  /\ Arrived("N", "some") /\ St.held # <<>>
  /\ IF EndOf(reg.view) > Len(doc) \/ EndOf(St.held[1]) > Len(doc)
     THEN pc' = "panicked" /\ UNCHANGED <<st, stack, reg>>
     ELSE /\ Reply(Some(Merged(St.held[1], reg.view)))
          /\ SetStage([St EXCEPT !.held = <<>>])
          /\ UNCHANGED pc
  /\ UNCHANGED <<prog, doc, Effects>>

(* N at the end of the stream: an odd last view passes.                    *)
NextEnd ==
  /\ Arrived("N", "none")
  /\ Reply(IF St.held = <<>> THEN End ELSE Some(St.held[1]))
  /\ SetStage([St EXCEPT !.held = <<>>])
  /\ UNCHANGED <<prog, doc, Effects, pc>>

(* A group runs its block on the view.                                     *)
GroupView ==
  /\ Arrived("group", "some")
  /\ Enter(reg.view, St)
  /\ UNCHANGED <<prog, doc, Effects, pc>>

(* A binder runs its block on a matching view and passes every view.       *)
BinderView ==
  /\ Arrived("/", "some")
  /\ IF Found(Cmd.re, reg.view)
     THEN Enter(reg.view, [St EXCEPT !.held = <<reg.view>>])
     ELSE Reply(reg) /\ UNCHANGED st
  /\ UNCHANGED <<prog, doc, Effects, pc>>

MutantTestView ==
  /\ Arrived("t", "some")
  /\ flag' = flag
  /\ IF flag
     THEN Enter(reg.view, [St EXCEPT !.held = <<>>])
     ELSE SetStage([St EXCEPT !.queue = <<reg.view>>]) /\ Again
  /\ Log(Record(IF flag THEN "taken" ELSE "not taken", reg.view))
  /\ UNCHANGED <<prog, doc, muts, error, stdout, pc>>

(* t consumes the flag: the block runs if it was set, else the view passes.*)
TestView ==
  /\ Arrived("t", "some")
  /\ flag' = FALSE
  /\ IF flag
     THEN Enter(reg.view, [St EXCEPT !.held = <<>>])
     ELSE SetStage([St EXCEPT !.queue = <<reg.view>>]) /\ Again
  /\ Log(Record(IF flag THEN "taken" ELSE "not taken", reg.view))
  /\ UNCHANGED <<prog, doc, muts, error, stdout, pc>>

(* One record through the awk program.  After an error the program is not  *)
(* run any more but the views still pass.                                  *)
AwkView ==
  /\ Arrived("@", "some")
  /\ IF St.errored
     THEN UNCHANGED <<st, Effects>>
     ELSE LET fails == Cmd.re = "record" /\ Contains(reg.view.text, "b") IN
          /\ Write([St EXCEPT !.errored = fails], Record("record", reg.view))
          /\ Log(Record("record", reg.view))
          /\ Raise(fails)
          /\ UNCHANGED <<muts, flag>>
  /\ Reply(reg)
  /\ UNCHANGED <<prog, doc, pc>>

(* The end of the records: END once, and the writer is flushed.  A stage   *)
(* above may poll again after the end (N does).                            *)
AwkEnd ==
  /\ Arrived("@", "none")
  /\ LET runs  == ~ St.ended /\ ~ St.errored
         fails == runs /\ Cmd.re = "end"
         last  == IF runs THEN <<Record("END", NoView)>> ELSE <<>>
     IN /\ SetStage([St EXCEPT !.ended = TRUE, !.errored = @ \/ fails,
                               !.buf = IF St.ended THEN @ ELSE <<>>])
        /\ stdout' = IF St.ended THEN stdout ELSE stdout \o St.buf \o last
        /\ log' = log \o last
        /\ Raise(fails)
  /\ Reply(End)
  /\ UNCHANGED <<prog, doc, muts, flag, pc>>

(* apply of a reducer: collect every view of the stages below.             *)
Collecting(kind) ==
  /\ pc = "run" /\ stack # <<>> /\ reg.kind = kind
  /\ Top.k > 0 /\ Top.wait = "collect"

CollectView ==
  /\ Collecting("some")
  /\ SetStage([St EXCEPT !.held = Append(@, reg.view)])
  /\ stack' = Append(stack, Frame(Top.p, Top.k - 1, ""))
  /\ reg' = Poll
  /\ UNCHANGED <<prog, doc, Effects, pc>>

(* The stages below are dropped; the joined bytes are a new view, unless   *)
(* there was nothing to join.  Then the rest of the chain is built.        *)
CollectEnd ==
  /\ Collecting("none")
  /\ LET joined == IF St.held = <<>> THEN <<>> ELSE <<View(Foreign, Join(St.held))>> IN
     st' = [st EXCEPT ![Top.p] =
              [Flushed(Top.p, Top.k - 1) EXCEPT ![Top.k].queue = joined, ![Top.k].held = <<>>]]
  /\ stdout' = stdout \o Buffered(Top.p, Top.k - 1)
  /\ stack' = Front(stack) \o BuildAbove(Top.p, Top.k)
  /\ reg' = Poll
  /\ UNCHANGED <<prog, doc, muts, flag, error, log, pc>>

-----------------------------------------------------------------------------
(* A view, or the end, arrives from the block's chain.                     *)

FromBlock(kind) ==
  /\ pc = "run" /\ stack # <<>> /\ reg.kind = kind
  /\ Top.k > 0 /\ Top.wait = "block"

(* A group and a map splice it into the stream, a binder discards it, a    *)
(* test collects it.                                                       *)
BlockView ==
  /\ FromBlock("some")
  /\ CASE Cmd.op \in {"group", "m"} -> Reply(reg) /\ UNCHANGED st
       [] Cmd.op = "/" -> PollBlock /\ UNCHANGED st
       [] Cmd.op = "t" -> PollBlock /\ SetStage([St EXCEPT !.held = Append(@, reg.view)])
  /\ UNCHANGED <<prog, doc, Effects, pc>>

MutantBlockEnd ==
  /\ FromBlock("none")
  /\ SetStage([St EXCEPT !.inner = FALSE, !.held = <<>>,
                         !.queue = IF Cmd.op = "t" THEN St.held ELSE @])
  /\ IF Cmd.op = "/" THEN Reply(Some(St.held[1])) ELSE Again
  /\ UNCHANGED <<prog, doc, Effects, pc>>

(* The block's chain is dropped, which flushes its writers.                *)
BlockEnd ==
  /\ FromBlock("none")
  /\ LET b   == Block(Top)
         s   == [St EXCEPT !.inner = FALSE, !.held = <<>>,
                           !.queue = IF Cmd.op = "t" THEN St.held ELSE @]
     IN /\ st' = [st EXCEPT ![Top.p][Top.k] = s, ![b] = Flushed(b, Len(prog[b]))]
        /\ stdout' = stdout \o Buffered(b, Len(prog[b]))
  /\ IF Cmd.op = "/" THEN Reply(Some(St.held[1])) ELSE Again
  /\ UNCHANGED <<prog, doc, muts, flag, error, log, pc>>

-----------------------------------------------------------------------------
(* drive: count() polls the top-level chain until it ends and drops it.    *)

Top0 == Len(prog[<<>>])

DrivePoll ==
  /\ pc = "run" /\ stack = <<>> /\ reg.kind = "some"
  /\ stack' = <<Frame(<<>>, Top0, "")>>
  /\ reg' = Poll
  /\ UNCHANGED <<prog, doc, st, Effects, pc>>

(* A raised error discards the mutations.                                  *)
DriveEnd ==
  /\ pc = "run" /\ stack = <<>> /\ reg.kind = "none"
  /\ stdout' = stdout \o Buffered(<<>>, Top0)
  /\ st' = [st EXCEPT ![<<>>] = Flushed(<<>>, Top0)]
  /\ pc' = IF error = <<>> THEN "done" ELSE "failed"
  /\ UNCHANGED <<prog, doc, stack, reg, muts, flag, error, log>>

Init ==
  /\ prog \in Programs
  /\ doc \in Docs
  /\ st = [p \in DOMAIN prog |-> Chain(p, View(0, doc))]
  /\ stack = BuildAbove(<<>>, 0)
  /\ reg = Poll
  /\ muts = <<>> /\ flag = FALSE /\ error = <<>> /\ stdout = <<>> /\ log = <<>>
  /\ pc = "run"

Next ==
  \/ PollSource \/ PollThrough \/ PollBinder \/ PollFlatMap \/ PollReduce \/ PollAwk
  \/ PassEnd \/ FlatMapEnd \/ Split \/ Expand \/ Collapse \/ MapView \/ Filter
  \/ Substitute \/ Change \/ PrintView
  \/ NextFirst \/ NextSecond \/ NextEnd \/ GroupView \/ BinderView \/ TestView
  \/ AwkView \/ AwkEnd \/ CollectView \/ CollectEnd \/ BlockView \/ BlockEnd
  \/ DrivePoll \/ DriveEnd

Spec == Init /\ [][Next]_vars

-----------------------------------------------------------------------------
(* Properties.                                                             *)

Stages   == UNION {{<<p, k>> : k \in DOMAIN prog[p]} : p \in DOMAIN prog}
Command(stage) == prog[stage[1]][stage[2]]
State(stage)   == st[stage[1]][stage[2]]
OfStage(seq, stage) == SelectSeq(seq, LAMBDA r : r.stage = stage)
Ended == pc \in {"done", "failed"}

(* Every variable stays in its domain: the stack is a chain of stages that *)
(* wait for one another, and no writer holds more than BufCap records.     *)
TypeOK ==
  /\ \A i \in DOMAIN stack :
       /\ stack[i].p \in DOMAIN prog
       /\ stack[i].k \in 0..Len(prog[stack[i].p])
       /\ stack[i].wait \in {"", "up", "block", "collect"}
       /\ stack[i].wait = "" => i = Len(stack) /\ reg = Poll
  /\ reg.kind \in {"poll", "some", "none"}
  /\ flag \in BOOLEAN
  /\ Len(error) <= 1
  /\ \A s \in Stages : Len(State(s).buf) <= BufCap
  /\ pc \in {"run", "done", "failed", "panicked"}

(* Whether stage a comes before stage b on the way of a view.              *)
Before(a, b) ==
  LET x == Append(a[1], a[2])  y == Append(b[1], b[2]) IN
  \E i \in DOMAIN x \cap DOMAIN y :
    x[i] < y[i] /\ \A j \in 1..(i - 1) : x[j] = y[j]

(* No command that needs input offsets comes after one that makes views    *)
(* of its own memory.                                                      *)
InputOnly ==
  \A a, b \in Stages :
    Before(a, b) => ~ (Command(a).op \in {"c", "r"} /\ Command(b).op \in {"s", "c", "=", "N", "+"})

(* In such a program every mutation covers the input bytes its command was *)
(* to edit, a literal substitution exactly an occurrence of its literal;   *)
(* = prints offsets into the input, and N and + do not panic.              *)
EditsHitTheirMatch ==
  InputOnly =>
    /\ \A i \in DOMAIN muts :
         LET m == muts[i]  cmd == Command(m.by) IN
         /\ m.start <= m.end /\ m.end <= Len(doc)
         /\ cmd.op = "s" /\ cmd.re \notin {"line", "eol"} => MatchEnd(cmd.re, doc, m.start) = m.end
    /\ \A i \in DOMAIN log : log[i].what = "=" => EndOf(log[i].view) <= Len(doc)
    /\ pc # "panicked"

(* docs/language.md:213 of =, and :34-35 of mutations: the offsets are     *)
(* offsets into the original input, in every program.                      *)
CoordinatesInInput ==
  /\ \A i \in DOMAIN log : log[i].what = "=" => EndOf(log[i].view) <= Len(doc)
  /\ \A i \in DOMAIN muts : muts[i].end <= Len(doc)

(* Between two executions of a block nothing of its output is held back:   *)
(* the executions print in input order (comment of MapCommand).            *)
BlockOutputInOrder ==
  \A s, b \in Stages :
    b[1] = Append(s[1], s[2]) /\ ~ State(s).inner => State(b).buf = <<>>

(* tree.rs:6-11.  From a view whose brackets match, + moves to the         *)
(* smallest bracketed region around it, if there is one; - moves into the  *)
(* first region of the view, so that a + from there comes back to it.      *)
TreeMove ==
  pc' = "run" /\ reg'.kind = "some" =>
    LET v == reg.view  w == reg'.view
        around(r, from, to) == r.start < from /\ to < r.end
        regions == {r \in Regions(doc) : around(r, v.at, EndOf(v))}
    IN
    /\ Arrived("+", "some") /\ Balanced(v.text) =>
         IF regions = {} THEN w = v
         ELSE /\ [start |-> w.at, end |-> EndOf(w)] \in regions
              /\ \A r \in regions : r.start <= w.at /\ EndOf(w) <= r.end
    /\ Arrived("-", "some") /\ EndOf(v) <= Len(doc) /\ Balanced(v.text) =>
         LET back == Expanded(doc, w.at, EndOf(w)) IN
         /\ Balanced(w.text)
         /\ back.start >= v.at /\ back.end <= EndOf(v)
         /\ \A r \in Regions(v.text) : back.start <= v.at + r.start

TreeMoves == [][TreeMove]_vars

(* The program ends on every input.                                        *)
Terminates == <>(pc # "run")
=============================================================================
