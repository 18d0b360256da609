# Verification of se

TLA+ models of `se`, a structural text editor in Rust, with the TLC runs that
check them and the TLAPS proofs of what matters most. Every definition is
translated from the code; PROJECT.json ("map") names the lines each one stands
for. Definitions named `Mutant...` are faulty variants of the definition that
follows them. No specification uses them: put in place of the original, each
makes one property fail, and so shows that the property depends on the code.

## 1. The system

A run of `se PROGRAM [FILE...]` parses the program into a `Pipeline` of
commands, maps each input, drives the pipeline over it and writes the result.

| Component | Source | State it keeps | Operations | Interacts with |
|---|---|---|---|---|
| Driver | `main.rs` | the argument being handled | file loop, `run_pipeline`, `run_in_place`, `watch_file` | everything |
| Input mapping | `core/mmap.rs` | the mapping, its length, the spill file | `open`, `from_stdin` | driver |
| View pipeline | `core/types.rs`, `commands/mod.rs` | one iterator per stage; `ExecutionContext`: mutations, substitution flag, first error | `Pipeline::execute`, one `apply` per command | each stage polls the one below; blocks start pipelines of their own |
| Match iterators | `engine/regex.rs` | cursor, done flag | `find_iter`, `find_iter_sub`, `captures_iter` | x, y, g, v, s, m, /re/ |
| Stitching | `main.rs` | cursor into the input | `stitch` | reads the recorded mutations, writes the document |
| In-place writer | `main.rs` | temporary file, directory entry | `atomic_write`, backup | file system |
| Watch loop | `platform/macos.rs` | kqueue registration, open file, retries | `run_watch_loop`, callback | kernel events, other processes |
| Optimizer and fused line filters | `parser/mod.rs`, `commands/mod.rs`, `engine/simd.rs` | search position, line bounds | `optimize`, `LineFilterCommand`, `RegexLineFilterCommand` | replaces stages of a pipeline |
| Parser | `parser/mod.rs` | position in the program text | `parse`, flags, blocks, awk blocks | builds pipelines |
| Replacement templates | `commands/replacement.rs` | list of segments | `compile`, `render` | s |
| Tree navigation | `commands/tree.rs` | depth counters | `+`, `-` | input bytes around a view |
| Fuzzy, semantic | `engine/fuzzy.rs`, `engine/semantic.rs` | pieces, concept table | `is_match` | filters |
| Awk interpreter | `awk/interp.rs`, `value.rs`, `mod.rs` | record, fields, variables, arrays (per command, for the life of the process) | BEGIN, record, END; statements and expressions | @ stage |
| Awk lexer and parser | `awk/lexer.rs`, `parser.rs`, `printf.rs` | position in the tokens | `lex`, `parse_program`, `sprintf` | reads the text of an action that the parser cut out |
| Command line | `cli.rs`, `main.rs` | none | argument declarations, installation of the manual page | driver |

**What is hard here.** There are no threads in the editing path: the difficulty
is the *lazy pull*. Effects (mutations, output, the flag of `t`, awk state)
happen when a view is pulled through a stage, some commands collect eagerly,
some poll again after the end, and every printing stage has a buffer of its own
that is flushed when its chain is dropped. Correctness then depends on an order
nobody wrote down. The second difficulty is the outside: a crash or a power loss
between two system calls of the rewrite, and a file that changes under the
watcher. The third is boundaries: empty matches, the end of a view, overlapping
mutations, bracket depth, buffer limits. The fourth is text that is read twice
or means several things: an action's end is found by one scanner and its tokens
by another, flags are glued to delimiters, concatenation has no operator. The
full list, with the line where each one bites, is in PROJECT.json ("hazards").

**What makes each part correct.**

- Stitching: each input byte is accounted for exactly once and in order; of
  conflicting mutations the first in document order wins.
- Match iteration: ordered, without overlap, complete, terminating; `y` is the
  complement of `x`; `s///N` edits exactly the matches asked for.
- Pipeline: the lazy chains mean the same as pushing each view through the
  commands depth first; an edit covers the match it was made for; nothing
  printed is lost; awk phases happen in order; errors end the run.
- In-place: a file is never half-written, keeps its permissions, and its
  original is recoverable; success means durable, where the directory was synced; temporary files go away.
- Watch: every reported change is followed by a run; Ctrl-C works.
- Optimizer: a fused command selects what the stages it replaces select.
- Input mapping: what a run reads is what its input held, wherever the buffer
  limit falls, and a file that changes while it is opened is not read past its
  end.
- Parser: whatever is written down as the language describes is read back as
  what was meant, whichever delimiters, separators and flags it was written
  with; an action's text ends where its tokens say.
- Template: a reference means the longest name, an unknown group nothing.
- Tree: `+` and `-` move between balanced regions.
- Fuzzy: the prefilter rejects no match.
- Awk: `$0`, fields and NF agree; control flow goes to where it belongs from any
  depth; a compound assignment is the plain one; the grammar has the documented
  precedences.

## 2. Plan

The order of the modules, most important behaviour first, all of it done:

1. `Stitch`, `StitchProofs`: the document from the mutations.
2. `MatchIter`, `MatchIterProofs`: the matches of one view.
3. `Pipeline`, `Tree` and `PushPipeline`, `MCPipeline`, `MCPush`: the lazy
   chains, and what they mean; `Recursion` and `PipelineProofs`.
4. `AtomicFiles`, `InPlace`, `MCInPlace`, `InPlaceProofs`: files on disk.
5. `Watch`, `InputProofs`: a file that is read again.
6. `LineFilter`, `MCLineFilter`, `LineFilterProofs`: the optimizer.
7. `MmapSource` (proved about in `InputProofs`); `Characters`, `Language`,
   `Template`, `Fuzzy`; `MCStartup`: everything before the first view.
8. `AwkStrings`, `AwkRecord`, `AwkRecordProofs`; `AwkLexer`, `AwkParser`,
   `AwkSyntax`; `AwkInterp`, `AwkMeaning`; `MCAwk`.

What is left, most useful first:

- `Session`: `Stitch` composed with `Pipeline`, so that the mutations stitched
  are those a program recorded, and the refinement of the hand-over.
- `InPlace` with another process that replaces the file between the backup, the
  mapping and the rename.
- `LineFilter` with bytes that are not UTF-8, which `.` does not match.
- A proof of `MatchesPush`: an invariant that says of every state of the lazy
  chains what the reference has still to do.
- `printf`, and numbers that are not integers.

## 3. Modules

### Stitch (with StitchProofs)

`run_pipeline` and `stitch`. State: the recorded mutations `muts`, `pending`
(those the loop has not visited), `cursor`, the pieces written `out`. Actions:
`NoMutation` (verbatim copy or nothing), `StartLoop`, `Skip`, `Apply`, `Panic`
(the slice is out of range), `CopyTail`. The stable sort is the order
`Precedes`; the loop takes the least pending mutation. Bytes are abstracted to
the input range a piece stands for. A mutation recorded through a view that is
not part of the input starts at `Foreign`.

### MatchIter (with MatchIterProofs)

The two implementations of the iterator (`AdvanceMatch`, `AdvanceCaptures`) and
the loops of x, y and s over them. A pattern is any partial function from start
to end of a match, which is all the code observes. Actions: `NextMatch` (with
`Yield`, the loop body), `NextNone`.

### Pipeline, Tree, PushPipeline, MCPipeline, MCPush (with PipelineProofs, Recursion)

`Pipeline` is the pull machine: `stack` holds the stages inside `next()`, `reg`
what goes up or down, `st` the iterator of each stage, and muts/flag/error the
`ExecutionContext`. One action per kind of poll and of arrival; a block starts
a fresh chain (`Enter`), a reducer drains the stages below when it is applied
(`BuildAbove`, `CollectView`, `CollectEnd`), `flat_map` drops its upstream at
its end (`FlatMapEnd`), a dropped chain flushes its writers (`Buffered`).
Patterns are the literals a and b, `.*\n?` and `$`; an awk program is reduced
to the phase in which it fails, if any. `~k/re/` and `:sem:/re/` have the shape
of g and v and stand behind them. `log` is history: every effect in order.

`Tree` defines the bracket scanners of `tree.rs` as the first (or last) bracket
that leaves the region, counting depth on the way as the loops do; `Expand` and
`Collapse` are the commands `+` and `-`. The code does not tell the kinds of
brackets apart, so there is one opener and one closer. `TreeMoves` states where
they lead in terms of balanced regions, a definition of its own.

`PushPipeline` says what a program means without iterators: a list of tasks
(`ref.tasks`), each one "this view reaches that command", done depth first. It
is carried out after the chains have ended, and `MatchesPush` then compares
every effect, in order. `MCPipeline` lists programs and inputs, and `MCPush`
checks both machines on them: the invariants of `Pipeline` hold while the chains
run and stay as they are while the reference does.

### LineFilter, MCLineFilter (with LineFilterProofs)

`optimize`, walking over the parsed program (`FuseLiteral`, `FuseIgnoreCase`,
`FusePrint`, `Keep`), then the commands of the plan, one after the other over
the views of the one before: `EachView` for the commands as written,
`KeepMatching` and `KeepOthers` for the loops of the fused ones, one action per
round. Below them is the search of `simd.rs`: `FindByte` is the NEON lane
comparison or the word arithmetic of `find_byte_swar` (subtraction modulo the
word, with its borrows), `Find` the two-byte prefilter and the verification.
`MetaFind` and `Split` are what the regex crate promises.

### MmapSource (with InputProofs)

`MmapSource::from_stdin`, `open` and `from_file`. Standard input arrives in
pieces of any size up to `ReadChunk` (`Collect`); the piece that would pass the
limit makes the spill file (`Spill`) and everything after it goes there. At the
end the buffer is cut to what was read, or the spill file is handed to
`from_file`, which takes a length (`Stat`) and then maps (`Map`). `Rewrite` is
another process that changes a named file until it is mapped; the spill file has
no name. Every step can fail. `sent` and `shrunk` are history: the bytes read,
and whether a file became shorter than it was taken to be, in which case
`as_slice` would panic and the property says nothing else.

### Characters, Language, Template, Fuzzy and MCStartup

`Characters` is what the readers of text share: a text is a sequence of
characters, and a reader returns what it read and the position after it.
`Language` is the recursive descent of `parser/mod.rs` from text to a tree of
commands, with `read_until` and its escapes, flags and their numbers (whose
multiplication saturates or wraps as in the code), blocks, and the scanner for
the text of an awk action. Its reference is a writer: `Written` spells a pipeline
with a delimiter, a separator and an order of flags, and puts a separator of its
own only where the grammar would glue two commands together (`Glues`).

`Template` compiles the replacement of `s` into literals and references and
renders it; the reference is a list of parts (`DocumentedParts`), each a byte
with its spelling or a reference with its meaning. `Fuzzy` is the piece split,
the prefilter and the row-by-row distance; its reference is the edit distance by
recursion. `MCStartup` takes them together with `MmapSource`: a behaviour is
either the opening of an input or one call of one of these functions, since they
share no state.

### AwkStrings and AwkRecord (with AwkRecordProofs)

`AwkRecord` is the record of the interpreter as a state machine: `set_record`,
the assignments to $0, to a field beyond the last, to NF (growing and cutting),
to FS and OFS, and the negative index that ends the program. `AwkStrings` has
`split_record` with its three kinds of separator. `built` is history: which side
was made from the other last, and with which separator.

### AwkLexer, AwkParser and AwkSyntax

`AwkLexer` and `AwkParser` are `lex` and the recursive descent, level by level as
in the source: an operator is a level, and the levels that take any number of
operands from the left are one operator over a table of them. A node of a tree is
its operator, a name and its parts. `AwkSyntax` writes a tree down as the tables
of docs/awk.md say, with parentheses only where the precedences need them, no
separator that is not needed (or blanks, newlines and comments everywhere), and
compares what is read back. Its second definition compares the scanner of
`Language`, which finds the end of an action, with the tokens of that text.

### AwkInterp, AwkMeaning and MCAwk

`AwkInterp` evaluates the trees: expressions, lvalues, coercions between text and
integers, arrays, `length`, `substr`, `index`, `split` and `int`, every statement
but `printf`, and `AwkRun`, the phases over the views of the inputs. `exec`
returns a `Flow` that travels up through the statements, as in the code. The
order in which a loop visits the keys of an array is that of a hash table in the
code, so it is a parameter of the model (`keys`), and two of them are taken.

`AwkMeaning` says the same without results that travel up: all that is still to
be done is one agenda of statements and marks, and `break`, `continue`, `next`
and an error drop everything up to the mark they belong to. It also states what
a compound assignment means in terms of the plain one and what `substr` gives.
An index in the target of a compound assignment is evaluated twice, as in the
code; the targets of the run have indexes without side effects, so that
CompoundAssigns says nothing about what `$(i++) += 1` should do.
`MCAwk` composes them with `AwkRecord`: a behaviour is a sequence of assignments
to the record, or one call.

### AtomicFiles, InPlace, MCInPlace (with InPlaceProofs)

`InPlace` is `run_in_place` and `atomic_write`, one action per system call, over
inodes and directory entries, each with what the process sees and what is on
disk: the names (`names`, `dnames`), and of every inode the bytes (`data`,
`ddata`) and the permissions (`mode`, `dmode`). Only `Fsync` makes bytes and
permissions durable. `StepFails` lets each call fail, `Kill` stops the process,
`Rerun` starts the same command again. After a `PowerLoss` the directory is the
one on disk; an inode that was not synced may have its present bytes, those of
the last sync or anything in between (`Torn`), and its present permissions or
those of the last sync, whichever the bytes are. `Drive` chooses each time it
runs whether there is something to edit, nothing, or an awk fault, because the
code drives on the content it has just mapped: a substitution that found its
word in the original may find none in the result. A run that finds nothing
succeeds and syncs nothing, even if the run before it was killed between its
rename and the sync of the directory; `unsynced` (history) keeps such paths over
the reruns, and `DurableWhenDone` leaves them out.

`AtomicFiles` is the promise: files go from version to version in one step, in
argument order.
`Atomic` is the refinement mapping: a file's version is the content its name
leads to, and `AtomicSpec` is checked as a property. The directory is modelled
as a journal: entries become durable together, in order. That is what ordinary
journaling file systems provide; it is an assumption about the system, not
about `se`. Another assumption is that the name of a backup is not the name of
another argument: `se -i=.bak ... a a.bak` edits its own backup, and is left out.

### Watch (with InputProofs)

`run_watch_loop` and the callback. The knote's flags accumulate until they are
read (EV_CLEAR). Other processes write, extend, replace, remove, create and move
the file at any moment. Opening the file may fail whether it is there or not: the
program ends if that happens at first (`FirstOpen`), prints a diagnostic and goes
on waiting in the callback (`RunPipeline`), and has used up an attempt after a
deletion (`Reopen`). `unseen` is history: the last change raised no event, or the
run that answered it could not open the file, so that nothing will show it.

## 4. What is checked

| Run | Shows | Bounds |
|---|---|---|
| `stitch` | Tiling, AppliedInOrder, AppliesSurvivors | 3 bytes, any 3 mutations: every relative position of two spans and an insertion occurs |
| `match_iter` | OrderedDisjoint, CompleteScan, EofRule, GapsComplementMatches, EditsFromOccurrence, Terminates | every match function on views of 0 to 4 bytes, N up to 2 |
| `pipeline` | TypeOK, EditsHitTheirMatch, BlockOutputInOrder, MatchesPush, TreeMoves, Terminates | `x/.*\n?/` followed by every pair of 18 commands, `x/a/ +` and each, every block command around every pair of 9, and blocks in blocks, on inputs of 0, 1 and 3 lines, with nested, closed and unclosed brackets; writers of 2 records, so that the third line overflows them |
| `pipeline_offsets` | violation of CoordinatesInInput (finding 1) | x, then c or r, then =, s or p |
| `in_place` | DestinationWhole, PermissionsKept, BackupBeforeReplace, TempsRemoved, DurableWhenDone, refinement of AtomicFiles | two files or one given twice, two runs, one power loss, every failure; each drive finds edits, none or a fault, whatever the one before it found |
| `in_place_backup` | violation of BackupSurvivesPowerLoss (finding 2) | the same, one run of the command |
| `watch` | SeenIsShown, NeverDeaf, InterruptStops | five changes of any kind, two attempts to reopen, every opening and registration may fail |
| `watch_rename` | violation of RerunAfterChange (finding 3) | four writes or replacements, no opening fails |
| `line_filter` | TypeOK, FindsFirst, SelectsLikePipeline | every input of up to 4 bytes of 2 bits, as one view or two; words of 2 bytes, so that a search takes more than one word and borrows from lane to lane; every filter, with and without the filter or the printer behind it |
| `line_filter_flags` | violation of SelectsLikePipeline (finding 4) | the same with 3 bytes, splitters with the flag s |
| `startup` | SliceIsInput, PipelineReadsAsWritten, TemplateMeansItsParts, FuzzyFindsAllNear | inputs of up to 5 bytes around a limit of 3 in reads of 1 or 2, so that the limit is met exactly, passed and reached in the middle of a read; pipelines of two commands of every kind and every way to end, and blocks in blocks, in 16 styles, and 17 malformed texts; templates of up to 3 parts; patterns and k up to 4 (so also k + 1 pieces of a shorter pattern) on texts of up to 5 over two letters |
| `awk` | RecordAgrees, SplitIsExact, SplitInvertsJoin, AwkActionsReadAsWritten, AwkRunsAsWritten, CompoundAssigns, SubstrGivesWhatIsThere | records and values of up to 3 symbols with a blank or a separator at every place, the four kinds of separator, fields and NF up to 2, one record after the first; trees of operators two deep and of statements nested two deep, the statements in two spellings; every text of up to 4 of the 7 characters that quote, comment or close an action; every kind of loop around every two of 10 steps, and nested in another loop, over three inputs (one of them empty) with two orders of the keys; 4 operations on 10 targets with 11 right sides in 4 states; substr of texts of up to 4, starts and counts from -2 to 6 |

Findings:

1. After `c` or `r` the offsets that `=` prints and `s` records are distances to
   memory outside the input (docs/language.md:213 and :34 promise offsets into
   the original input); `+` after them panics.
2. The backup of `-i=.bak` is not synced, the edit is: a power loss may leave the
   edit and no whole original (cli.rs:7-8).
3. A change between the run that answers a replacement and the registration of
   the new file is not shown (docs/getting-started.md:214-215).
4. The optimizer looks at the text of the splitting pattern and not at its
   flags: `x/.*\n/s g/lit/` selects lines when fused and, as written, everything
   up to the last newline (parser/mod.rs:389-390 and commands/mod.rs:607 call
   the rewrite always behaviour-preserving).

**Deadlock.** Every modelled program ends, so the runs do not check deadlock;
the `Terminates` and `InterruptStops` properties say where it must not be stuck.

**Fairness.** `MatchIter` (FairSpec) and `MCPush` (PushSpec) run on one thread
that takes every step it can: `drive` polls the chain until it ends, and so does
every loop over an iterator. That is weak fairness of the next-state relation.
`Stitch`, `LineFilter`, `MmapSource` and the awk modules have no liveness
property and no fairness: the other end of a pipe need never close, and a call
ends by the recursion that defines it. In `Watch` the watcher's thread is weakly fair;
`TakeSignal` is strongly fair because a kqueue hands out active events in the
order in which they were raised, so that file events cannot hold back a signal
for ever. Nothing is assumed of other processes.

## 5. What is proved

All proofs hold for every value of the constants, under the named ASSUMEs of
the modules only (`StitchAssumption`, `MatchIterAssumption`, `WatchAssumption`,
`InPlaceAssumption`, `MmapSourceAssumption`, `AwkRecordAssumption`,
`LineFilterAssumption`, `PipelineAssumption`); every one of them is evaluated by a
run. The last one says that programs are as the parser builds them (a command with
a block has one), that inputs are sequences over an alphabet with the bytes the
commands look for, and that they lie below `Foreign`, where the addresses of other
memory start. That of `LineFilter` says that a byte has at least two bits, that no
other byte folds to what the newline folds to, and that literals are not empty.
The type invariants of `Stitch`, `MatchIter`, `Watch`, `InPlace` and `MmapSource`
are proved here and are not in the runs; those of `Pipeline` and `LineFilter` are
both checked and proved.

- `StitchProofs`: TypeCorrect, TilingHolds, AppliedInOrderHolds,
  AppliesSurvivorsHolds. The inductive invariant adds to the
  properties what the loop relies on: everything visited precedes everything
  pending (the sorted order), each applied mutation is visited and ends at or
  before the cursor, and the cursor is the end of the last piece. The lemma
  `PrecedesIsOrder` shows that the sort key is a strict total order; without it
  "the next mutation" would not be unique.
- `InputProofs`, on `Watch`: WatchTypeCorrect, SeenIsShownHolds, NeverDeafHolds,
  for any number of changes and of attempts. SeenIsShown speaks of the watcher at rest only.
  The invariant adds what holds at each step of the way: what the registration
  has to do with the step (`Registration`), that an inode that lost its name
  never gets one again (`Inodes`), and which content has been shown or is
  announced by a flag (`UpToDate`).
- `InPlaceProofs`: TypeCorrect, DestinationWholeHolds, PermissionsKeptHolds,
  BackupBeforeReplaceHolds, TempsRemovedHolds, DurableWhenDoneHolds, and
  ImplementsAtomicFiles, the refinement, for any finite set of files, any lists of
  arguments, any number of reruns. The heart of the invariant is that no step writes to an inode that a
  file's name leads to, now or after a power loss (`Separate`), and that what is
  renamed over a file is complete and has its mode, both of them on disk since
  the sync (`TmpReady`); `BackupsApart` and `BackupDone` do the same for the backups, `Settling` says
  which replacements may still be undone by a power loss. TempsRemoved counts:
  `TempsCounted` says that all temporary files but the one in work were left by
  earlier runs, one each at the most, in the visible and in the durable
  directory. The refinement has one
  step per action: those that leave the names and what they lead to alone
  stutter (`Silent`), the rest is a step of `AtomicFiles`.
- `MatchIterProofs`: TypeCorrect, OrderedDisjointHolds, CompleteScanHolds,
  EditsFromOccurrenceHolds, GapsComplementMatchesHolds, EofRuleHolds, for views of any length and every match function. The invariant adds `Behind`:
  what was yielded lies behind the cursor, and an iterator that is done has its
  cursor past the end. What the users do with the matches is a second layer
  (`UserInv`), which rests on the first: the edits of s are the matches from the
  occurrence on, and the gaps of y are in order and hold, up to the end of the
  last match, exactly the bytes that are in no match. The lemma `MatchYields` says what a step that yields does
  whichever of the two iterators it belongs to; that there is a first match at or
  after the cursor is the least-number principle of the library.
- `InputProofs`, on `MmapSource`: SourceTypeCorrect, SliceIsInputHolds, for any
  limit, any size of reads and inputs of any length. The invariant adds where the
  bytes are before they are mapped (`Collected`: in the buffer until there is a
  spill file, then in that) and what the length is worth between `Stat` and `Map`
  (`Mapping`).
- `LineFilterProofs`: TypeCorrect, SearchIsComplete, FusionSelectsLikePipeline, for
  inputs of any length, any literals, any case folding, bytes of any width and
  words of any number of lanes. SearchIsComplete is about the algorithm, not about
  the steps. `LowestLane` says what the SWAR subtraction gets right: a borrow can
  flag a lane that does not hold the byte, but only behind one that does, so that
  the lowest flagged lane is the lowest hit. `FindByteFinds` puts the words and the
  rest together, and `FindFinds` the candidates. For the fusion there are two
  inductive invariants. `Shape` says how far the optimizer has come with its plan,
  that all views lie in the input, and when a cursor is set. `Progress` speaks of
  the future: what the running command has yielded, followed by what it would yield
  of the views it has still to read, from the cursor on in the first of them, is
  what it yields of all it was given, and likewise what it prints. Here a fused
  filter "yields" by definition what the splitter and the filter together do; that
  its search from hit to hit keeps `Progress` is the heart of the proof: the lines
  before a hit have none, and the line of the hit starts behind the last newline
  before it (`FilterHit`), because a plain literal matches no newline
  (`NoNewlineInHit`). At the end nothing remains, and what the plan yields is what
  the program yields (`PlanMeans`). The one exception is in the theorem: a splitter
  whose dot has the flag s (`Flagged`), which is finding 4.
- `PipelineProofs`: InvHolds, TypeOKHolds, BlockOutputInOrderHolds,
  EditsHitTheirMatchHolds, TreeMovesHolds, for any set of well-formed programs, any inputs and any capacity of the writers. None of these properties
  is inductive: each depends on which stages of which blocks may be inside
  `next()`. The invariant `IInv` therefore says what the whole machine is.
  `TypeInv` says that what iterators and register hold are slices of the input at
  their address, or views of foreign memory. `MachineInv` says how the stack goes
  with the flags of the iterators: the frames are a chain of stages, each polled
  by the one above; only the blocks on it are polled; a `flat_map` that has seen
  the end, and a reducer that drains, have nothing running in them.
  `BlocksFlushed` says that the writers of a block that is not polled are empty.
  For the edits there is a third layer, `PlacedInv`: views of foreign memory occur
  only behind a c or an r, in the order of the places in the program, so that a
  command nothing of the kind stands before has real addresses; `EditInv` says of
  every recorded mutation and effect what the property says. The module has one
  lemma for each action and each layer. TreeMoves is about texts: the counting
  scanners are first described by the height of the prefixes, a walk that goes up
  or down one at a bracket (`OpenIs`, `CloseIs`, `MatchingIs`), and the last place
  before a position where the walk is below its height there (`LastRise`), and the
  first one after it (`FirstFall`), are then the brackets of the smallest region.
- `Recursion` has no module of the system: it says, first-order, what the proofs
  need of recursive functions. A recursive definition whose body reads the
  function at lower ranks only (`ReadsLower`) has a solution, which is the
  function (`Solution`), and what holds at an argument if it holds at all lower
  ranks holds everywhere (`ByRank`). The matches of a view are such a function,
  by the length that is left, and so are the words and pieces of a record and the
  search for a literal; its gaps, joined views and joined fields by the number of
  items, the bits of an exclusive or by their sum.
- `AwkRecordProofs`: RecordAgreesHolds, SplitIsExactHolds, SplitInvertsJoinHolds,
  for any strings and separators and any number of records and fields. The
  invariant `RecordInv` adds to RecordAgrees that every view of the record is text
  (`Typed`): what `set_record` chops off, a split, a join, a field beyond the last
  and a changed NF all leave text. The two properties follow from it and from
  lemmas about the algorithms alone. `Listed` and `Listing` say what a recursion is that lists what
  it finds from a place on; `Words` and `Pieces` are two of them, and by rank, from
  the end of the string backwards, they list the runs (`WordsAreTheRuns`) and the
  pieces (`PiecesAreExact`). `JoinFirst` takes the first part off a join, so that
  two lists without the separator that join to the same string are the same
  (`JoinInjective`): the first separator in it ends the first part of both.

Model-checked only: liveness (Terminates, InterruptStops), which the prover does
not reach; MatchesPush, which would need an invariant relating two whole machines;
and everything said of `Language`, `Template`, `Fuzzy`, `AwkParser` and
`AwkInterp`.
These last are built from recursive operators, and what those compute for every
input is a statement by induction over data: the provers cannot use the induction
theorems of the library, which take an operator as a parameter, and `Recursion`
replaces them for functions only.

## 6. What is not modelled

- The regex engine: only what its callers see of it. Compilation of patterns
  belongs to it, so a command whose pattern does not compile is not refused.
- The layout of printed text: `=`, `p` of a buffer, printf and sprintf.
- A mapping in use whose file changes: undefined for the program.
- Write errors on standard output, which the code ignores for `p` and `=`.
- In awk, numbers that are not integers (so `/`, `^`, the mathematical functions,
  `inf` and `nan`), rand and srand, tolower and toupper, and string literals that
  are not ASCII (the lexer takes them byte by byte; docs/compatibility.md:244).
- The sums of long digit strings: `Occurrence` and `Distance` have the width of
  the word, but no run types a number that reaches it (parser/mod.rs:82: the sum
  wraps in a release build and panics in a debug build).
- `semantic.rs`: a table of words joined to a pattern, without state.
- Argument declarations and the installation of the manual page: a straight line
  of input and output.

BEGIN and END are modelled as the code runs them, once for every file and, in a
block, once for every view of it; awk/mod.rs:41 and :52 only say "once".
