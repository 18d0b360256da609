------------------------------ MODULE Template ------------------------------
(***************************************************************************)
(* The replacement of s/// (src/commands/replacement.rs): its text is      *)
(* compiled to literals and references, which are rendered for every match.*)
(*                                                                         *)
(* The byte of two hexadecimal digits is written <<h, l>>.                 *)
(***************************************************************************)
EXTENDS Characters

CONSTANTS
  GroupIndex,  (* The named groups of the pattern: their numbers.          *)
  NumberCap    (* usize::MAX, at which numbers of groups saturate.         *)

Letters == {"a", "b", "n", "r", "t", "x", "_"}
WordChars == Letters \cup Digits
Hex     == Digits \cup {"a", "b"}

-----------------------------------------------------------------------------
(* Compiling.                                                              *)

Literal(bytes) == [kind |-> "literal", bytes |-> bytes]
Group(n)       == [kind |-> "group", n |-> n]
ABSENT         == -1

Number(ds) ==
  FoldLeft(LAMBDA n, c : IF n * 10 + DigitValue[c] > NumberCap THEN NumberCap
                         ELSE n * 10 + DigitValue[c], 0, ds)

resolve_name(name) ==
  Group(IF name \in DOMAIN GroupIndex THEN GroupIndex[name] ELSE ABSENT)

resolve_braced(inner) ==
  IF inner # <<>> /\ (\A p \in DOMAIN inner : inner[p] \in Digits)
  THEN Group(Number(inner)) ELSE resolve_name(inner)

(* What stands at position p of the text: a byte or a reference, and the   *)
(* position after it.                                                      *)
OneByte(b, next)      == [segment |-> Literal(<<b>>), next |-> next]
Reference(g, next) == [segment |-> g, next |-> next]

Control == [c \in {"n", "t", "r"} |-> CASE c = "n" -> "LF" [] c = "t" -> "TAB" [] c = "r" -> "CR"]

Escape(s, p) ==
  LET c == s[p + 1] IN
  CASE c \in DOMAIN Control -> OneByte(Control[c], p + 2)
    [] c \in Digits -> Reference(Group(DigitValue[c]), p + 2)
    [] c = "x" /\ p + 3 <= Len(s) /\ s[p + 2] \in Hex /\ s[p + 3] \in Hex ->
         OneByte(<<s[p + 2], s[p + 3]>>, p + 4)
    [] OTHER -> OneByte(c, p + 2)

MutantDollar(s, p) ==
  LET c == s[p + 1] IN
  CASE c = "$" -> OneByte("$", p + 2)
    [] c = "{" /\ (\E q \in (p + 2)..Len(s) : s[q] = "}") ->
         LET q == SelectInSubSeq(s, p + 2, Len(s), LAMBDA d : d = "}")
         IN  Reference(resolve_braced(SubSeq(s, p + 2, q - 1)), q + 1)
    [] c \in Digits -> Reference(Group(DigitValue[c]), p + 2)
    [] c \in Letters ->
         LET q == Past(s, p + 1, WordChars)
         IN  Reference(resolve_name(SubSeq(s, p + 1, q - 1)), q)
    [] OTHER -> OneByte("$", p + 1)

Dollar(s, p) ==
  LET c == s[p + 1] IN
  CASE c = "$" -> OneByte("$", p + 2)
    [] c = "{" /\ (\E q \in (p + 2)..Len(s) : s[q] = "}") ->
         LET q == SelectInSubSeq(s, p + 2, Len(s), LAMBDA d : d = "}")
         IN  Reference(resolve_braced(SubSeq(s, p + 2, q - 1)), q + 1)
    [] c \in Digits ->
         LET q == Past(s, p + 1, Digits)
         IN  Reference(Group(Number(SubSeq(s, p + 1, q - 1))), q)
    [] c \in Letters ->
         LET q == Past(s, p + 1, WordChars)
         IN  Reference(resolve_name(SubSeq(s, p + 1, q - 1)), q)
    [] OTHER -> OneByte("$", p + 1)

Item(s, p) ==
  IF s[p] = Backslash /\ p < Len(s) THEN Escape(s, p)
  ELSE IF s[p] = "&" THEN Reference(Group(0), p + 1)
  ELSE IF s[p] = "$" /\ p < Len(s) THEN Dollar(s, p)
  ELSE OneByte(s[p], p + 1)

(* flush: neighbouring bytes make one literal.                             *)
Push(segments, segment) ==
  IF segment.kind = "literal" /\ segments # <<>> /\ Last(segments).kind = "literal"
  THEN Append(Front(segments), Literal(Last(segments).bytes \o segment.bytes))
  ELSE Append(segments, segment)

compile(raw) ==
  LET from[p \in 1..(Len(raw) + 1)] ==
        IF p > Len(raw) THEN <<>> ELSE <<Item(raw, p).segment>> \o from[Item(raw, p).next]
  IN  FoldLeft(Push, <<>>, from[1])

(* as_literal: the bytes of a template without references, or None.        *)
NoLiteral == [kind |-> "none"]
as_literal(segments) ==
  IF \A i \in DOMAIN segments : segments[i].kind = "literal"
  THEN Literal(FlattenSeq([i \in DOMAIN segments |-> segments[i].bytes]))
  ELSE NoLiteral

(* caps gives the bytes of the groups that took part in the match.         *)
render(segments, caps) ==
  FlattenSeq([i \in DOMAIN segments |->
    CASE segments[i].kind = "literal" -> segments[i].bytes
      [] segments[i].n \in DOMAIN caps -> caps[segments[i].n]
      [] OTHER -> <<>>])

-----------------------------------------------------------------------------
(* The reference: the table of docs/language.md:183-194.  A part of a      *)
(* template has a spelling, what it means, and the characters that cannot  *)
(* follow it because they would belong to it.                              *)

Spelled(text, means, notBefore) == [text |-> text, means |-> means, notBefore |-> notBefore]
Byte1(text, b) == Spelled(text, Literal(<<b>>), {})
Ref(text, n)   == Spelled(text, Group(n), {})

NameOf(name) == IF name \in DOMAIN GroupIndex THEN GroupIndex[name] ELSE ABSENT

DocumentedParts ==
  {Byte1(<<c>>, c) : c \in {"a", "1", "}", "n"}}
  \cup {Byte1(<<Backslash, "&">>, "&"), Byte1(<<"$", "$">>, "$"), Byte1(<<Backslash, "n">>, "LF"),
        Byte1(<<Backslash, "t">>, "TAB"),
        Byte1(<<Backslash, Backslash>>, Backslash),
        Byte1(<<Backslash, "x", "0", "a">>, <<"0", "a">>)}
  \cup {Spelled(<<"$">>, Literal(<<"$">>), WordChars \cup {"$", "{"})}
  \cup {Ref(t, 0) : t \in {<<"$", "{", "0", "}">>, <<"&">>, <<Backslash, "0">>}}
  \cup {Ref(<<Backslash, "1">>, 1), Ref(<<"$", "{", "1", "2", "}">>, 12)}
  \cup {Spelled(<<"$">> \o ds, Group(Number(ds)), Digits) : ds \in {<<"0">>, <<"1">>, <<"1", "2">>}}
  \cup {Spelled(<<"$">> \o name, Group(NameOf(name)), WordChars) : name \in {<<"a">>, <<"a", "b">>}}
  \cup {Ref(<<"$", "{">> \o name \o <<"}">>, NameOf(name)) : name \in {<<"a">>, <<"b">>}}

(* The parts of a template that is read as it was put together.            *)
Apart(parts) ==
  \A i \in 1..(Len(parts) - 1) : parts[i + 1].text[1] \notin parts[i].notBefore

(* A template renders to what its parts mean, and has a literal just when  *)
(* none of them is a reference.                                            *)
MeansItsParts(parts, caps) ==
  LET segments == compile(FlattenSeq([i \in DOMAIN parts |-> parts[i].text]))
      meaning  == render([i \in DOMAIN parts |-> parts[i].means], caps)
  IN  /\ render(segments, caps) = meaning
      /\ as_literal(segments) = IF \A i \in DOMAIN parts : parts[i].means.kind = "literal"
                                THEN Literal(meaning) ELSE NoLiteral
=============================================================================
