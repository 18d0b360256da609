----------------------------- MODULE MCStartup ------------------------------
(***************************************************************************)
(* What happens before any view flows, for TLC: the input is opened        *)
(* (MmapSource), and text is read or prepared by one call of a function of *)
(* Language, Template or Fuzzy.  The two have nothing in common, so a      *)
(* behaviour is either an opening or one call.                             *)
(***************************************************************************)
EXTENDS MmapSource, Language, Template, Fuzzy

VARIABLE call (* The function that is called and its arguments, or Opening.*)

Opening == [f |-> "open"]

-----------------------------------------------------------------------------
(* Pipelines and styles for Language.                                      *)

Plain == [i |-> FALSE, s |-> FALSE, g |-> FALSE, occurrence |-> None]
F1    == [Plain EXCEPT !.i = TRUE]
F2    == [Plain EXCEPT !.s = TRUE, !.g = TRUE, !.occurrence = 12]

Texts == {<<>>, <<"a">>, <<"\\", "#", "\\", "/">>, <<"a", "\\", "\\">>, <<";", "}">>,
          <<" ", "{", "\"">>}
Lits  == {<<"a", "LF">>, <<"\\", "/", "#">>, <<"n", "\\">>}
Srcs  == {<<>>, <<"{", "a", "}">>, <<"\"", "}", "\\", "\"", "\"">>, <<"#", "}", "\"", "LF">>}
PrintA == Guarded("/", <<"a">>, Plain, <<Cmd("p")>>)

SimpleCommands ==
  {Select(op, re, F1) : op \in {"x", "v"}, re \in Texts}
  \cup {Select(op, <<"a">>, f) : op \in {"y", "g"}, f \in {Plain, F2}}
  \cup {Subst(re, to, f) : re \in {<<"a">>, <<"\\", "\\">>}, to \in Texts, f \in {Plain, F2}}
  \cup {Texted(op, lit) : op \in {"c", "r"}, lit \in Lits}
  \cup {Near(k, lit) : k \in {2, 12}, lit \in Lits}
  \cup {Cmd(op) : op \in {"p", "=", "N", "+", "-"}}
  \cup {Texted(":", <<"a">>)} \cup {Texted("@", src) : src \in Srcs}
  \cup {Guarded("/", re, F1, <<Cmd("p")>>) : re \in {<<"a">>, <<"\\", "/">>}}

InnerCommands == {Select("x", <<"}">>, F1), Subst(<<"a">>, <<"{">>, F2), Cmd("p"),
                  Texted("@", <<"{", "}">>), PrintA}

(* One command of every way to end.                                        *)
Ends == InnerCommands \cup {Select("x", <<"a">>, F1), Texted("c", <<"n", "\\">>), Near(12, <<"a", "LF">>),
                            Texted(":", <<"a">>), Texted("@", <<"#", "}", "\"", "LF">>), Cmd("+")}

WithBlock(b) == {Block("{", b), Block("t", b), Guarded("/", <<"a">>, F1, b),
                 Guarded("m", <<"a">>, F2, b)}

Pipelines ==
  {<<>>} \cup {<<a>> : a \in SimpleCommands} \cup {<<a, b>> : a \in SimpleCommands, b \in Ends}
  \cup {<<b, a>> : a \in SimpleCommands, b \in Ends}
  \cup UNION {{<<a, w, Cmd("p")>> : a \in InnerCommands, w \in WithBlock(<<c, d>>) \cup WithBlock(<<>>)} :
                c, d \in InnerCommands}
  \cup UNION {{<<w, a>> : a \in InnerCommands, w \in WithBlock(<<u, b>>)} :
                b \in InnerCommands, u \in UNION {WithBlock(<<c>>) : c \in InnerCommands}}

Styles == [delimiter : {"/", "#"}, sep : {<<>>, <<" ">>, <<";">>, <<" ", "LF", ";", " ">>},
           long : BOOLEAN]

Malformed ==
  {<<"x">>, <<"x", "/", "a">>, <<"x", "/", "a", "\\", "/">>, <<"s", "/", "a", "/", "b">>,
   <<"s", "/", "a", "/", "b", "/", "0">>, <<"~", "/", "a", "/">>, <<":", "a", ":", "/", "a", "/">>,
   <<"@">>, <<"@", "{", "\"", "}">>, <<"@", "{", "#", "}">>, <<"t">>, <<"t", "p">>,
   <<"m", "/", "a", "/">>, <<"{", "p">>, <<"p", "}">>, <<"b">>, <<"p", ",">>}

-----------------------------------------------------------------------------
(* Templates and matches for Template, strings for Fuzzy.                  *)

MCGroups == (<<"a">> :> 1 @@ <<"a", "b">> :> 2)
Caps     == (0 :> <<"m">> @@ 1 :> <<"f", "g">> @@ 12 :> <<"t">>)
Strings(S, n) == UNION {[1..k -> S] : k \in 0..n}

Calls ==
  {[f |-> "parse", cmds |-> cmds, style |-> style] : cmds \in Pipelines, style \in Styles}
  \cup {[f |-> "reject", text |-> text] : text \in Malformed}
  \cup {[f |-> "compile", parts |-> parts] : parts \in {ps \in Strings(DocumentedParts, 3) : Apart(ps)}}
  \cup {[f |-> "is_match", pattern |-> pattern, k |-> k, text |-> text] :
          pattern \in Strings({"a", "b"}, 4), k \in 0..4, text \in Strings({"a", "b"}, 5)}

MCInit == SourceInit /\ (call = Opening \/ call \in Calls)
MCNext == call = Opening /\ SourceNext /\ UNCHANGED call
MCSpec == MCInit /\ [][MCNext]_<<sourceVars, call>>

-----------------------------------------------------------------------------
(* Properties.                                                             *)

(* docs/language.md:20-60: whatever the delimiter, the separators and the  *)
(* order of flags, Parser::parse reads back the commands that were         *)
(* written, blocks within blocks included, and text that is no pipeline is *)
(* refused.                                                                *)
PipelineReadsAsWritten ==
  /\ call.f = "parse" => ReadsAsWritten(call.cmds, call.style)
  /\ call.f = "reject" => ~ parse(call.text).ok

(* docs/language.md:183-194: a replacement that ReplacementTemplate        *)
(* compiles means what its parts mean: the longest name or number is one   *)
(* reference, and an unknown group is nothing.                             *)
TemplateMeansItsParts == call.f = "compile" => MeansItsParts(call.parts, Caps)

(* FuzzyMatcher::is_match finds exactly the views that have a part at most *)
(* k edits from the pattern: the search for pieces loses none of them.     *)
FuzzyFindsAllNear ==
  call.f = "is_match" =>
    (is_match(call.pattern, call.k, call.text) <=> Resembles(call.pattern, call.k, call.text))
=============================================================================
