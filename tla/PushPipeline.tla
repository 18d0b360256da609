---------------------------- MODULE PushPipeline ----------------------------
(***************************************************************************)
(* What a program means, free of iterators: a view is pushed through the   *)
(* commands, each one handing what it yields to the next at once, depth    *)
(* first.  A block is a program of its own, a reducer cuts a program in    *)
(* two.  The lazy chains of Pipeline are checked against this definition.  *)
(*                                                                         *)
(* A run is a sequence of tasks, done one by one; a task puts the tasks it *)
(* leads to in front of the others.  It is made when the chains are done.  *)
(***************************************************************************)
EXTENDS Pipeline

VARIABLE ref   (* What the run has done so far, and the tasks left to do.   *)

Task(what, p, k, v)   == [what |-> what, p |-> p, k |-> k, view |-> v]
PassOn(views, p, k)   == [i \in DOMAIN views |-> Task("view", p, k, views[i])]
OnBlock(views, b)     == [i \in DOMAIN views |-> Task("enter", b, 1, views[i])]

(* The stages of p from first to the next reducer: every BEGIN, the last   *)
(* stage first, then the views, then the end of the stream from the first  *)
(* stage to the last; then the reducer.                                    *)
Segment(views, p, first) ==
  LET n      == NextReduce(p, first - 1) - first
      ends   == [i \in 1..n |-> Task("end", p, first + i - 1, NoView)]
      begins == Reverse([i \in 1..n |-> Task("begin", p, first + i - 1, NoView)])
  IN begins \o PassOn(views, p, first) \o ends
     \o (IF first + n > Len(prog[p]) THEN <<>> ELSE <<Task("join", p, first + n, NoView)>>)

Idle == [errored |-> FALSE, held |-> <<>>]

Start == [muts |-> <<>>, flag |-> FALSE, error |-> <<>>, log |-> <<>>, panic |-> FALSE,
          stage |-> [p \in DOMAIN prog |-> [k \in DOMAIN prog[p] |-> Idle]],
          tasks |-> <<Task("enter", <<>>, 1, View(0, doc))>>]

Noted(R, t, what) ==
  [R EXCEPT !.log = Append(@, [stage |-> <<t.p, t.k>>, what |-> what, view |-> t.view])]
Then(R, tasks) == [R EXCEPT !.tasks = tasks \o @]
Hold(R, p, k, views) == [R EXCEPT !.stage[p][k].held = views]

(* Run a phase of the awk program of task t.                               *)
AwkPhase(R, t, what, fails) ==
  IF R.stage[t.p][t.k].errored THEN R
  ELSE LET N == Noted(R, t, what) IN
       IF fails THEN [N EXCEPT !.error = IF @ = <<>> THEN <<<<t.p, t.k>>>> ELSE @,
                               !.stage[t.p][t.k].errored = TRUE]
                ELSE N

Mutated(R, t, spans) ==
  [R EXCEPT !.muts = @ \o [i \in DOMAIN spans |->
     [start |-> t.view.at + spans[i].start, end |-> t.view.at + spans[i].end,
      by |-> <<t.p, t.k>>]]]

(* A view leaves block p.                                                  *)
Leave(R, p, v) ==
  IF p = <<>> THEN R
  ELSE LET q == Front(p)  j == Last(p) IN
       CASE prog[q][j].op \in {"group", "m"} -> Then(R, PassOn(<<v>>, q, j + 1))
         [] prog[q][j].op = "t" -> Hold(R, q, j, Append(R.stage[q][j].held, v))
         [] OTHER -> R

(* A view reaches the command of task t.                                   *)
Apply(R, t) ==
  LET v     == t.view
      cmd   == prog[t.p][t.k]
      held  == R.stage[t.p][t.k].held
      pass  == PassOn(<<v>>, t.p, t.k + 1)
      all(views) == PassOn(views, t.p, t.k + 1)
      block(views) == OnBlock(views, Append(t.p, t.k))
  IN
  CASE cmd.op = "x" -> Then(R, all(Extracted(cmd.re, v)))
    [] cmd.op = "y" -> Then(R, all(Yanked(cmd.re, v)))
    [] cmd.op \in {"g", "v"} ->
         Then(R, IF Found(cmd.re, v) = (cmd.op = "g") THEN pass ELSE <<>>)
    [] cmd.op = "+" ->
         IF v.at > Len(doc) THEN [R EXCEPT !.panic = TRUE]
         ELSE Then(R, all(<<Slice(View(0, doc), Expanded(doc, v.at, EndOf(v)))>>))
    [] cmd.op = "-" ->
         LET inner == Collapsed(v.text)
         IN  Then(R, all([i \in DOMAIN inner |-> Slice(v, inner[i])]))
    [] cmd.op = "s" ->
         LET M == Mutated(Noted(R, t, "s"), t, Edited(cmd, v)) IN
         Then([M EXCEPT !.flag = @ \/ Edited(cmd, v) # <<>>], pass)
    [] cmd.op = "c" ->
         Then(Mutated(Noted(R, t, "c"), t, <<[start |-> 0, end |-> Len(v.text)]>>),
              all(<<View(Foreign, ChangeText)>>))
    [] cmd.op \in {"p", "="} -> Then(Noted(R, t, cmd.op), pass)
    [] cmd.op = "@" ->
         Then(AwkPhase(R, t, "record", cmd.re = "record" /\ Contains(v.text, "b")), pass)
    [] cmd.op = "N" /\ held = <<>> -> Hold(R, t.p, t.k, <<v>>)
    [] cmd.op = "N" /\ held # <<>> ->
         IF held[1].at >= Foreign \/ v.at >= Foreign THEN [R EXCEPT !.panic = TRUE]
         ELSE Then(Hold(R, t.p, t.k, <<>>), all(<<Merged(held[1], v)>>))
    [] cmd.op = "group" -> Then(R, block(<<v>>))
    [] cmd.op = "m" -> Then(R, block(Extracted(cmd.re, v)))
    [] cmd.op = "/" -> Then(R, IF Found(cmd.re, v) THEN block(<<v>>) \o pass ELSE pass)
    [] cmd.op = "t" /\ R.flag ->
         Then([Noted(R, t, "taken") EXCEPT !.flag = FALSE],
              block(<<v>>) \o <<Task("release", t.p, t.k, NoView)>>)
    [] cmd.op = "t" /\ ~ R.flag -> Then(Noted(R, t, "not taken"), pass)
    [] cmd.op = "r" -> Hold(R, t.p, t.k, Append(held, v))

(* The stream ends at the command of task t.                               *)
AtEnd(R, t) ==
  CASE prog[t.p][t.k].op = "@" -> AwkPhase(R, t, "END", prog[t.p][t.k].re = "end")
    [] prog[t.p][t.k].op = "N" ->
         Then(Hold(R, t.p, t.k, <<>>), PassOn(R.stage[t.p][t.k].held, t.p, t.k + 1))
    [] OTHER -> R

Do(R, t) ==
  CASE t.what = "view" /\ t.k <= Len(prog[t.p]) -> Apply(R, t)
    [] t.what = "view" /\ t.k > Len(prog[t.p])  -> Leave(R, t.p, t.view)
    [] t.what = "enter" ->   (* a program is run on one view, from nothing *)
         Then([R EXCEPT !.stage[t.p] = [k \in DOMAIN prog[t.p] |-> Idle]],
              Segment(<<t.view>>, t.p, 1))
    [] t.what = "begin" ->
         IF prog[t.p][t.k].op = "@" THEN AwkPhase(R, t, "BEGIN", prog[t.p][t.k].re = "begin")
                                    ELSE R
    [] t.what = "end" -> AtEnd(R, t)
    [] t.what = "release" ->
         Then(Hold(R, t.p, t.k, <<>>), PassOn(R.stage[t.p][t.k].held, t.p, t.k + 1))
    [] t.what = "join" ->
         LET held == R.stage[t.p][t.k].held IN
         Then(R, Segment(IF held = <<>> THEN <<>> ELSE <<View(Foreign, Join(held))>>,
                         t.p, t.k + 1))

Done == ref.panic \/ ref.tasks = <<>>

DoTask ==
  /\ pc # "run" /\ ~ Done
  /\ ref' = Do([ref EXCEPT !.tasks = Tail(@)], Head(ref.tasks))
  /\ UNCHANGED vars

PushNext == (Next /\ UNCHANGED ref) \/ DoTask

PushInit == Init /\ ref = Start

(* drive polls the chain on one thread until it ends.                      *)
PushSpec == PushInit /\ [][PushNext]_<<vars, ref>> /\ WF_<<vars, ref>>(PushNext)

-----------------------------------------------------------------------------
(* The lazy chains do exactly this: the same effects in the same order,    *)
(* the same mutations, the same first error and the same panics.  No       *)
(* laziness, buffering, re-polling or early collection shows; buffering    *)
(* loses no record of a command and repeats none, in a failing run neither.*)
MatchesPush ==
  pc # "run" /\ Done =>
    /\ log = ref.log
    /\ muts = ref.muts
    /\ flag = ref.flag
    /\ error = ref.error
    /\ pc = IF ref.panic THEN "panicked" ELSE IF ref.error = <<>> THEN "done" ELSE "failed"
    /\ Ended => \A s \in Stages :
         Command(s).op \in {"p", "=", "@"} => OfStage(stdout, s) = OfStage(ref.log, s)
=============================================================================
