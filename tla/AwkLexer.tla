------------------------------ MODULE AwkLexer ------------------------------
(***************************************************************************)
(* The tokens of the awk language (src/awk/lexer.rs).  A token is its kind *)
(* and its characters, or its name; an operator is its own kind.           *)
(***************************************************************************)
EXTENDS Characters

Token(kind, text) == [t |-> kind, v |-> text]
Op(op)            == Token(op, "")
TextOf(chars)     == FoldLeft(LAMBDA s, c : s \o c, "", chars)

Singles == {"$", "(", ")", "{", "}", "[", "]", ",", ";", "?", ":",
            "+", "-", "*", "/", "%", "^", "=", "!", "<", ">"}
Doubles == {"++", "--", "+=", "-=", "*=", "/=", "%=", "^=", "==", "!=", "<=", ">=", "&&", "||"}
IdentLetters == {"a", "b", "c", "d", "e", "f", "g", "h", "i", "j", "k", "l", "m", "n", "o", "p", "q",
                 "r", "s", "t", "u", "v", "w", "x", "y", "z", "B", "E", "F", "G", "I", "N", "D", "_"}

(* lex_string: a backslash takes the next character with it.               *)
lex_string(s, start) ==
  LET named == [c \in {"n", "t", "r"} |-> CASE c = "n" -> "LF" [] c = "t" -> "TAB" [] c = "r" -> "CR"]
      from[q \in 1..(Len(s) + 1)] ==
        CASE q > Len(s) -> Error
          [] s[q] = "\"" -> Read(<<>>, q + 1)
          [] s[q] = Backslash /\ q < Len(s) ->
               LET c == IF s[q + 1] \in DOMAIN named THEN named[s[q + 1]] ELSE s[q + 1]
               IN  Then(from[q + 2], LAMBDA rest, next : Read(<<c>> \o rest, next))
          [] OTHER -> Then(from[q + 1], LAMBDA rest, next : Read(<<s[q]>> \o rest, next))
  IN  from[start + 1]

(* lex_number: digits with a point among them, and an exponent if digits   *)
(* follow its letter.  A point alone is not a number.                      *)
lex_number(s, start) ==
  LET whole == Past(s, start, Digits)
      point == IF At(s, whole) = "." THEN Past(s, whole + 1, Digits) ELSE whole
      sign  == IF At(s, point) \in {"e", "E"}
               THEN IF At(s, point + 1) \in {"+", "-"} THEN point + 2 ELSE point + 1
               ELSE 0
      end   == IF sign # 0 /\ At(s, sign) \in Digits THEN Past(s, sign, Digits) ELSE point
  IN  IF SubSeq(s, start, point - 1) = <<".">> THEN Error
      ELSE Read(SubSeq(s, start, end - 1), end)

(* The token at position p, which is no blank and in no comment.           *)
LexOne(s, p) ==
  LET c    == s[p]
      pair == c \o At(s, p + 1)
  IN  CASE c = "\"" ->
             Then(lex_string(s, p), LAMBDA chars, q : Read(Token("str", chars), q))
        [] pair \in Doubles -> Read(Op(pair), p + 2)
        [] pair \notin Doubles /\ c \in Singles -> Read(Op(c), p + 1)
        [] c \in Digits \cup {"."} ->
             Then(lex_number(s, p), LAMBDA chars, q : Read(Token("num", chars), q))
        [] c \in IdentLetters ->
             LET q == Past(s, p, IdentLetters \cup Digits)
             IN  Read(Token("id", TextOf(SubSeq(s, p, q - 1))), q)
        [] OTHER -> Error

lex(s) ==
  LET from[p \in 1..(Len(s) + 1)] ==
        CASE p > Len(s) -> Read(<<>>, p)
          [] s[p] \in White -> from[p + 1]
          [] s[p] = "#" -> from[CHOOSE q \in p..(Len(s) + 1) :
                                  /\ At(s, q) \in {EOF, "LF"}
                                  /\ \A r \in p..(q - 1) : s[r] # "LF"]
          [] OTHER -> Then(LexOne(s, p), LAMBDA token, q :
                        Then(from[q], LAMBDA tokens, end : Read(<<token>> \o tokens, end)))
  IN  from[1]
=============================================================================
