------------------------------- MODULE Lexer -------------------------------
(***************************************************************************)
(* The lexer of scripts: a text becomes tokens, or an error at a place.    *)
(*                                                                         *)
(*   pirc-scripting/src/lexer.rs, pirc-scripting/src/token.rs              *)
(*                                                                         *)
(* A character stands for its class: "o" and "n" for letters ("on" is a    *)
(* keyword, and \n an escape), "1" for digits, "=" for itself and for the  *)
(* second half of "==" and "!=", "&" for "&" and "|", "-" for itself and   *)
(* the delimiters, "." for itself and for what begins no token.            *)
(***************************************************************************)
EXTENDS Naturals, Sequences

CONSTANTS MaxDigits,  \* how many digits an i64 holds
          MaxText     \* bound: the length of a text

VARIABLE text         \* what is lexed

Blank == " "
Letter == {"o", "n"}
Digit == {"1"}
Escapes == [e \in {"n", "bs", "quote"} |-> IF e = "n" THEN "nl" ELSE e]
Keyword == {<<"o", "n">>}
Char == Letter \cup Digit \cup
        {Blank, "nl", "cr", ";", "quote", "bs", "%", "$", "/", ".", "-", "=", "!", "&"}

IsIdentStart(c) == c \in Letter
IsIdentContinue(c) == c \in Letter \cup Digit \cup {"-"}

----------------------------------------------------------------------------
(* Lexer *)

\* The character at a position; "" past the end.
PeekAt(s, i) == IF i \in DOMAIN s THEN s[i] ELSE ""

AdvanceWhile(s, pos, Pred(_)) ==
  CHOOSE e \in pos..(Len(s) + 1) :
    /\ \A i \in pos..(e - 1) : Pred(s[i])
    /\ e = Len(s) + 1 \/ ~Pred(s[e])

SkipWhitespace(s, pos) == AdvanceWhile(s, pos, LAMBDA c : c = Blank)

\* A token from start up to, and without, end.
Token(kind, start, end, value) == [kind |-> kind, start |-> start, end |-> end, value |-> value]
SingleToken(kind, start) == Token(kind, start, start + 1, <<>>)
DoubleToken(kind, start) == Token(kind, start, start + 2, <<>>)
LexError(start) == Token("error", start, start, <<>>)

LexNewline(s, start) ==
  Token("newline", start,
        IF s[start] = "cr" /\ PeekAt(s, start + 1) = "nl" THEN start + 2 ELSE start + 1, <<>>)

LexComment(s, start) ==
  Token("comment", start, AdvanceWhile(s, start + 1, LAMBDA c : c # "nl"), <<>>)

\* The loop of lex_string, from pos on, with the value read so far.
RECURSIVE LexString(_, _, _, _)
LexString(s, start, pos, value) ==
  CASE PeekAt(s, pos) \in {"", "nl"} -> LexError(start)        \* UnterminatedString
    [] PeekAt(s, pos) = "quote"      -> Token("string", start, pos + 1, value)
    [] PeekAt(s, pos) = "bs"         ->
         IF PeekAt(s, pos + 1) \in DOMAIN Escapes
         THEN LexString(s, start, pos + 2, Append(value, Escapes[s[pos + 1]]))
         ELSE LexError(start)                                  \* InvalidEscape, or the end
    [] OTHER -> LexString(s, start, pos + 1, Append(value, s[pos]))

\* %name, %%name, $name and names: the name begins at from.
LexName(s, kind, start, from) ==
  LET end == AdvanceWhile(s, from, IsIdentContinue)
  IN  Token(kind, start, end, SubSeq(s, from, end - 1))

LexIdentifierOrKeyword(s, start) ==
  LET name == LexName(s, "identifier", start, start)
  IN  IF name.value \in Keyword THEN [name EXCEPT !.kind = "keyword"] ELSE name

\* A decimal point counts when a digit follows; an i64 that overflows is an error.
LexNumber(s, start) ==
  LET int   == AdvanceWhile(s, start, LAMBDA c : c \in Digit)
      end   == AdvanceWhile(s, int + 1, LAMBDA c : c \in Digit)
  IN  IF PeekAt(s, int) = "." /\ PeekAt(s, int + 1) \in Digit
      THEN Token("number", start, end, <<>>)
      ELSE IF int - start > MaxDigits THEN LexError(start) ELSE Token("int", start, int, <<>>)

NextToken(s, pos) ==
  LET start == SkipWhitespace(s, pos)
      c     == PeekAt(s, start)
      next  == PeekAt(s, start + 1)
  IN  CASE c = ""                      -> Token("eof", start, start, <<>>)
        [] c \in {"nl", "cr"}          -> LexNewline(s, start)
        [] c = ";"                     -> LexComment(s, start)
        [] c = "quote"                 -> LexString(s, start, start + 1, <<>>)
        [] c = "%" /\ next = "%"       -> LexName(s, "global", start, start + 2)
        [] c = "%" /\ IsIdentStart(next) -> LexName(s, "variable", start, start + 1)
        [] c = "%" /\ next # "%" /\ ~IsIdentStart(next) -> SingleToken("%", start)
        [] c = "$" /\ (IsIdentStart(next) \/ next \in Digit) ->
             LexName(s, "builtin", start, start + 1)
        [] c \in Digit                 -> LexNumber(s, start)
        [] IsIdentStart(c)             -> LexIdentifierOrKeyword(s, start)
        [] c \in {"/", "-"}            -> SingleToken(c, start)
        [] c \in {"=", "!"} /\ next = "="  -> DoubleToken(c \o "=", start)
        [] c \in {"=", "!"} /\ next # "="  -> SingleToken(c, start)
        [] c = "&" /\ next = "&"       -> DoubleToken("&&", start)
        [] OTHER                       -> LexError(start)

RECURSIVE TokensFrom(_, _)
TokensFrom(s, pos) ==
  LET token == NextToken(s, pos)
  IN  IF token.kind \in {"eof", "error"} THEN <<token>>
      ELSE <<token>> \o TokensFrom(s, token.end)

Tokenize(s) == TokensFrom(s, 1)

----------------------------------------------------------------------------
(* What the tokens are, one set of texts each *)

Rest(t, k) == SubSeq(t, k, Len(t))
All(t, C) == \A i \in DOMAIN t : t[i] \in C
Name(t) == All(t, Letter \cup Digit \cup {"-"})
Digits(t) == t # <<>> /\ All(t, Digit)

\* Between the quotes, a line break never stands, and a quote or a backslash only in a pair.
StringText(t) ==
  /\ Len(t) > 1 /\ t[1] = "quote" /\ t[Len(t)] = "quote"
  /\ \E pairs \in SUBSET (2..(Len(t) - 2)) :
       /\ \A i \in pairs : t[i] = "bs" /\ t[i + 1] \in {"n", "bs", "quote"} /\ i + 1 \notin pairs
       /\ \A i \in 2..(Len(t) - 1) :
            t[i] \in {"quote", "bs", "nl"} => i \in pairs \/ i - 1 \in pairs

Symbols == {<<c>> : c \in {"%", "/", "-", "=", "!"}} \cup {<<"=", "=">>, <<"!", "=">>, <<"&", "&">>}

IsToken(t) ==
  \/ t \in Symbols \cup {<<"nl">>, <<"cr">>, <<"cr", "nl">>}
  \/ t[1] = ";" /\ \A i \in DOMAIN t : t[i] # "nl"
  \/ StringText(t)
  \/ t[1] \in Letter /\ Name(t)
  \/ t[1] = "%" /\ Len(t) > 1 /\ t[2] \in Letter /\ Name(Rest(t, 2))
  \/ t[1] = "%" /\ Len(t) > 1 /\ t[2] = "%" /\ Name(Rest(t, 3))
  \/ t[1] = "$" /\ Len(t) > 1 /\ t[2] # "-" /\ Name(Rest(t, 2))
  \/ Digits(t)
  \/ \E i \in DOMAIN t : t[i] = "." /\ Digits(SubSeq(t, 1, i - 1)) /\ Digits(Rest(t, i + 1))

\* Where the longest token that begins at start ends.
Ends(s, start) == {e \in (start + 1)..(Len(s) + 1) : IsToken(SubSeq(s, start, e - 1))}
Longest(s, start) == CHOOSE e \in Ends(s, start) : \A f \in Ends(s, start) : f <= e
TooLong(s, start, end) == Digits(SubSeq(s, start, end - 1)) /\ end - start > MaxDigits

\* The tokens from pos on, if the longest is taken each time.
RECURSIVE Munch(_, _)
Munch(s, pos) ==
  IF pos > Len(s) THEN <<<<pos, pos>>>>
  ELSE IF s[pos] = Blank THEN Munch(s, pos + 1)
  ELSE IF Ends(s, pos) = {} \/ TooLong(s, pos, Longest(s, pos)) THEN <<<<pos, pos>>>>
  ELSE <<<<pos, Longest(s, pos)>>>> \o Munch(s, Longest(s, pos))

\* A text as a literal: every character that has an escape is escaped.
EscapeOf(c) == CASE c = "nl" -> <<"bs", "n">> [] c \in {"bs", "quote"} -> <<"bs", c>> [] OTHER -> <<c>>
RECURSIVE Escape(_)
Escape(s) == IF s = <<>> THEN <<>> ELSE EscapeOf(Head(s)) \o Escape(Tail(s))
Quoted(s) == <<"quote">> \o Escape(s) \o <<"quote">>

----------------------------------------------------------------------------
LexerInit == text = <<>>

\* A longer text.
Write(c) == Len(text) < MaxText /\ text' = Append(text, c)

LexerNext == \E c \in Char : Write(c)

----------------------------------------------------------------------------
(* Properties *)

\* The lexer, which decides by one character of lookahead, takes the longest
\* token at every place, leaves out blanks only, and gives up exactly where no
\* token begins (next_token and what it calls).
LexesLongest ==
  LET tokens == Tokenize(text)
  IN  [i \in DOMAIN tokens |-> <<tokens[i].start, tokens[i].end>>] = Munch(text, 1)

\* Every text can be written as a string literal, and is its value (lex_string).
LiteralsReadBack ==
  LET tokens == Tokenize(Quoted(text))
  IN  Len(tokens) = 2 /\ tokens[1].kind = "string" /\ tokens[1].value = text

LexesExact == LexesLongest /\ LiteralsReadBack
============================================================================
