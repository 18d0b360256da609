------------------------------ MODULE Language ------------------------------
(***************************************************************************)
(* The parser of the command language (src/parser/mod.rs): text to a tree  *)
(* of commands.                                                            *)
(***************************************************************************)
EXTENDS Characters

CONSTANT WordMax   (* usize::MAX                                           *)

-----------------------------------------------------------------------------
(* Delimited text, flags and numbers.                                      *)

MutantReadUntil(s, p, delimiter) ==
  LET from[q \in 1..(Len(s) + 2)] ==
        IF q > Len(s) THEN 0
        ELSE IF s[q] = Backslash /\ At(s, q + 1) = delimiter THEN from[q + 2]
        ELSE IF s[q] = delimiter THEN q
        ELSE from[q + 1]
      end == from[p]
  IN  IF end = 0 THEN Error ELSE Read(SubSeq(s, p, end - 1), end + 1)

(* Up to the next delimiter that no backslash escapes.                     *)
read_until(s, p, delimiter) ==
  LET from[q \in 1..(Len(s) + 2)] ==
        IF q > Len(s) THEN 0
        ELSE IF s[q] = Backslash THEN from[q + 2]
        ELSE IF s[q] = delimiter THEN q
        ELSE from[q + 1]
      end == from[p]
  IN  IF end = 0 THEN Error ELSE Read(SubSeq(s, p, end - 1), end + 1)

parse_pattern(s, p) == IF p > Len(s) THEN Error ELSE read_until(s, p + 1, s[p])

(* Adding a digit to a number: the multiplication of an occurrence stops   *)
(* at the largest word, that of a distance wraps, and so do both additions.*)
Saturating(n) == IF n > WordMax THEN WordMax ELSE n
Wrapping(n)   == n % (WordMax + 1)
Occurrence(ds) == FoldLeft(LAMBDA n, c : Wrapping(Saturating(n * 10) + DigitValue[c]), 0, ds)
Distance(ds)   == FoldLeft(LAMBDA n, c : Wrapping(n * 10 + DigitValue[c]), 0, ds)

FlagLetters == {"i", "I", "s", "g", "m", "M"}
FlagChars   == FlagLetters \cup Digits
None        == -1

(* The letters and digits right behind a delimiter, in any order; m says   *)
(* nothing.                                                                *)
FlagsOf(run) ==
  LET has(c) == \E i \in DOMAIN run : run[i] = c
      ds     == SelectSeq(run, LAMBDA c : c \in Digits)
  IN  [i |-> has("i") \/ has("I"), s |-> has("s"), g |-> has("g"),
       occurrence |-> IF ds = <<>> THEN None ELSE Occurrence(ds)]

parse_flags(s, p) ==
  LET q == Past(s, p, FlagChars) IN Read(FlagsOf(SubSeq(s, p, q - 1)), q)

(* unescape: n, t, r and 0 name control characters.                        *)
unescape(text) ==
  LET name == [c \in {"n", "t", "r", "0"} |->
                 CASE c = "n" -> "LF" [] c = "t" -> "TAB" [] c = "r" -> "CR" [] c = "0" -> "NUL"]
      from[p \in 1..(Len(text) + 1)] ==
        IF p > Len(text) THEN <<>>
        ELSE IF text[p] = Backslash /\ p < Len(text)
             THEN <<IF text[p + 1] \in DOMAIN name THEN name[text[p + 1]] ELSE text[p + 1]>>
                  \o from[p + 2]
        ELSE <<text[p]>> \o from[p + 1]
  IN  from[1]

(* read_awk_program: the text between the braces of an action.  Braces in  *)
(* a string or a comment do not count.  from[mode, depth, q] is the        *)
(* position of the brace that closes the action, or 0.                     *)
AwkModes == {"code", "string", "escape", "comment"}

AwkEnd(s, p) ==
  LET from[q \in 1..(Len(s) + 1), mode \in AwkModes, depth \in 1..(Len(s) + 1)] ==
        LET c == At(s, q) IN
        CASE c = EOF -> 0
          [] mode = "string" ->
               from[q + 1, CASE c = Backslash -> "escape" [] c = "\"" -> "code"
                             [] OTHER -> "string", depth]
          [] mode = "escape" -> from[q + 1, "string", depth]
          [] mode = "comment" -> from[q + 1, IF c = "LF" THEN "code" ELSE "comment", depth]
          [] c = "\"" -> from[q + 1, "string", depth]
          [] c = "#" -> from[q + 1, "comment", depth]
          [] c = "{" -> from[q + 1, "code", depth + 1]
          [] c = "}" -> IF depth = 1 THEN q ELSE from[q + 1, "code", depth - 1]
          [] OTHER -> from[q + 1, "code", depth]
  IN  from[p, "code", 1]

read_awk_program(s, p) ==
  LET open == Past(s, p, White)
      end  == IF At(s, open) = "{" THEN AwkEnd(s, open + 1) ELSE 0
  IN  IF end = 0 THEN Error ELSE Read(SubSeq(s, open + 1, end - 1), end + 1)

-----------------------------------------------------------------------------
(* Commands.                                                               *)

Cmd(op)          == [op |-> op]
Select(op, re, f)   == [op |-> op, re |-> re, flags |-> f]
Texted(op, text) == [op |-> op, text |-> text]
Near(k, text)    == [op |-> "~", k |-> k, text |-> text]
Subst(re, to, f) == [op |-> "s", re |-> re, to |-> to, flags |-> f]
Block(op, cmds)  == [op |-> op, block |-> cmds]
Guarded(op, re, f, cmds) == [op |-> op, re |-> re, flags |-> f, block |-> cmds]

(* A pattern and its flags.                                                *)
Pattern(s, p, k(_, _, _)) ==
  Then(parse_pattern(s, p), LAMBDA re, q :
    Then(parse_flags(s, q), LAMBDA f, r : k(re, f, r)))

RECURSIVE parse_pipeline(_, _)

parse_block(s, p) ==
  IF At(s, p) # "{" THEN Error
  ELSE Then(parse_pipeline(s, p + 1), LAMBDA cmds, q :
         LET close == Past(s, q, White)
         IN  IF At(s, close) = "}" THEN Read(cmds, close + 1) ELSE Error)

BlockAfter(s, p) == parse_block(s, Past(s, p, White))

(* The command at position p.                                              *)
Command(s, p) ==
  LET c == s[p] IN
  CASE c \in {"x", "y", "z", "g", "v"} ->
         Pattern(s, p + 1, LAMBDA re, f, q : Read(Select(IF c = "z" THEN "y" ELSE c, re, f), q))
    [] c \in {"c", "r"} ->
         Then(parse_pattern(s, p + 1), LAMBDA text, q : Read(Texted(c, unescape(text)), q))
    [] c \in {"p", "=", "N", "+", "-"} -> Read(Cmd(c), p + 1)
    [] c = "~" ->
         LET q == Past(s, p + 1, Digits) IN
         IF q = p + 1 THEN Error
         ELSE Then(parse_pattern(s, q), LAMBDA text, r :
                Read(Near(Distance(SubSeq(s, p + 1, q - 1)), unescape(text)), r))
    [] c = ":" ->
         Then(read_until(s, p + 1, ":"), LAMBDA name, q :
           IF name # <<"s", "e", "m">> THEN Error
           ELSE Then(parse_pattern(s, Past(s, q, White)), LAMBDA text, r :
                  Read(Texted(":", text), r)))
    [] c = "@" -> Then(read_awk_program(s, p + 1), LAMBDA src, q : Read(Texted("@", src), q))
    [] c = "{" -> Then(parse_block(s, p), LAMBDA cmds, q : Read(Block("{", cmds), q))
    [] c = "/" ->
         Pattern(s, p, LAMBDA re, f, q :
           LET brace == Past(s, q, White) IN
           IF At(s, brace) = "{"
           THEN Then(parse_block(s, brace), LAMBDA cmds, r : Read(Guarded("/", re, f, cmds), r))
           ELSE Read(Guarded("/", re, f, <<Cmd("p")>>), brace))
    [] c = "m" ->
         Pattern(s, p + 1, LAMBDA re, f, q :
           Then(BlockAfter(s, q), LAMBDA cmds, r : Read(Guarded("m", re, f, cmds), r)))
    [] c = "t" -> Then(BlockAfter(s, p + 1), LAMBDA cmds, q : Read(Block("t", cmds), q))
    [] c = "s" ->
         Then(parse_pattern(s, p + 1), LAMBDA re, q :
           Then(read_until(s, q, s[p + 1]), LAMBDA to, r :
             Then(parse_flags(s, r), LAMBDA f, t :
               IF f.occurrence = 0 THEN Error ELSE Read(Subst(re, to, f), t))))
    [] OTHER -> Error

(* Commands up to the end of the text or a brace that closes a block.      *)
parse_pipeline(s, p) ==
  LET q == Past(s, p, White \cup {";"}) IN
  IF At(s, q) \in {EOF, "}"} THEN Read(<<>>, q)
  ELSE Then(Command(s, q), LAMBDA cmd, r :
         Then(parse_pipeline(s, r), LAMBDA cmds, t : Read(<<cmd>> \o cmds, t)))

parse(s) ==
  Then(parse_pipeline(s, 1), LAMBDA cmds, p : IF p <= Len(s) THEN Error ELSE Read(cmds, p))

-----------------------------------------------------------------------------
(* The reference: how docs/language.md writes a tree of commands down.  A  *)
(* style has a delimiter, a separator of commands, and whether flags are   *)
(* written out at length.                                                  *)

(* Text that stands for itself, with what would end it escaped.            *)
Escaped(text, delimiter) ==
  FlattenSeq([i \in DOMAIN text |->
    CASE text[i] \in {Backslash, delimiter} -> <<Backslash, text[i]>>
      [] text[i] = "LF" -> <<Backslash, "n">>
      [] OTHER -> <<text[i]>>])

Numeral == [n \in {1, 2, 12, 20} |->
              CASE n = 1 -> <<"1">> [] n = 2 -> <<"0", "2">> [] n = 12 -> <<"1", "2">>
                [] n = 20 -> <<"2", "0">>]

FlagText(f, long) ==
  (IF long THEN <<"m">> ELSE <<>>)
  \o (IF f.g THEN <<"g">> ELSE <<>>)
  \o (IF f.occurrence = None THEN <<>> ELSE Numeral[f.occurrence])
  \o (IF f.s THEN <<"s">> ELSE <<>>)
  \o (IF f.i THEN <<IF long THEN "I" ELSE "i">> ELSE <<>>)

Between(d, text) == <<d>> \o text \o <<d>>

RECURSIVE Written(_, _)

WrittenBlock(cmds, style) == <<"{">> \o Written(cmds, style) \o style.sep \o <<"}">>

WrittenCommand(cmd, style) ==
  LET d == style.delimiter IN
  CASE cmd.op \in {"x", "y", "g", "v"} ->
         <<IF cmd.op = "y" /\ style.long THEN "z" ELSE cmd.op>>
           \o Between(d, cmd.re) \o FlagText(cmd.flags, style.long)
    [] cmd.op \in {"c", "r"} -> <<cmd.op>> \o Between(d, Escaped(cmd.text, d))
    [] cmd.op = "~" -> <<"~">> \o Numeral[cmd.k] \o Between(d, Escaped(cmd.text, d))
    [] cmd.op = ":" -> <<":", "s", "e", "m", ":">> \o Between(d, cmd.text)
    [] cmd.op = "@" -> <<"@", "{">> \o cmd.text \o <<"}">>
    [] cmd.op = "{" -> WrittenBlock(cmd.block, style)
    [] cmd.op = "t" -> <<"t">> \o (IF style.sep = <<>> THEN <<>> ELSE <<"LF">>) \o WrittenBlock(cmd.block, style)
    [] cmd.op = "s" -> <<"s", d>> \o cmd.re \o <<d>> \o cmd.to \o <<d>>
                         \o FlagText(cmd.flags, style.long)
    [] cmd.op = "/" ->
         Between("/", cmd.re) \o FlagText(cmd.flags, style.long)
           \o IF cmd.block = <<Cmd("p")>> /\ ~ style.long THEN <<>>
              ELSE <<" ">> \o WrittenBlock(cmd.block, style)
    [] cmd.op = "m" -> <<"m">> \o Between(d, cmd.re) \o FlagText(cmd.flags, style.long)
                         \o WrittenBlock(cmd.block, style)
    [] OTHER -> <<cmd.op>>

(* What is written behind flags must not be read as one more flag, nor a   *)
(* group behind a bare pattern as its block (docs/language.md:23-25).      *)
EndsInFlags(cmd, style) ==
  \/ cmd.op \in {"x", "y", "g", "v", "s"}
  \/ cmd.op = "/" /\ cmd.block = <<Cmd("p")>> /\ ~ style.long

Glues(cmd, next, style) ==
  EndsInFlags(cmd, style) => WrittenCommand(next, style)[1] \notin FlagChars \cup {"{"}

Written(cmds, style) ==
  FlattenSeq([i \in DOMAIN cmds |->
    (IF i = 1 THEN <<>>
     ELSE IF cmds[i - 1].op = "/" /\ cmds[i].op = "{" THEN <<";">>
     ELSE IF style.sep = <<>> /\ ~ Glues(cmds[i - 1], cmds[i], style) THEN <<" ">>
     ELSE style.sep) \o WrittenCommand(cmds[i], style)])

(* A pipeline is read as it was written.                                   *)
ReadsAsWritten(cmds, style) == parse(Written(cmds, style)) = Read(cmds, Len(Written(cmds, style)) + 1)
=============================================================================
