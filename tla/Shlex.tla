------------------------------- MODULE Shlex --------------------------------
(***************************************************************************)
(* Python's shlex.split in its default (POSIX) mode, as pipeline.py,       *)
(* filter.py and cli_executor.py use it.  A text is a sequence of          *)
(* characters, a character a string of length one.                         *)
(***************************************************************************)
EXTENDS SequencesExt

Quotes == {"'", "\""}
Blank  == {" ", "\t", "\n"}    \* what separates words
Space  == Blank \cup {"\f"}    \* what str.strip() removes

\* mode: "gap" between words, "word" in one, a quote while inside it,
\* "escape" after a backslash, "in quotes" after one between double quotes.
Outside(lex) == lex.mode \in {"gap", "word"}

LexChar(lex, c) ==
  CASE lex.mode = "gap" /\ c \in Blank -> lex
    [] lex.mode = "word" /\ c \in Blank ->
         [mode |-> "gap", word |-> <<>>, words |-> Append(lex.words, lex.word)]
    [] Outside(lex) /\ c \in Quotes -> [lex EXCEPT !.mode = c]
    [] Outside(lex) /\ c = "\\" -> [lex EXCEPT !.mode = "escape"]
    [] lex.mode \in Quotes /\ c = lex.mode -> [lex EXCEPT !.mode = "word"]
    [] lex.mode = "\"" /\ c = "\\" -> [lex EXCEPT !.mode = "in quotes"]
    [] lex.mode \in Quotes /\ c # lex.mode /\ <<lex.mode, c>> # <<"\"", "\\">> ->
         [lex EXCEPT !.word = Append(@, c)]
    [] lex.mode = "in quotes" ->
         [lex EXCEPT !.mode = "\"",
                     !.word = @ \o IF c \in {"\\", "\""} THEN <<c>> ELSE <<"\\", c>>]
    [] OTHER -> [lex EXCEPT !.mode = "word", !.word = Append(@, c)]

LexStart == [mode |-> "gap", word |-> <<>>, words |-> <<>>]

Lex(text) == FoldLeft(LexChar, LexStart, text)

\* split() raises ValueError inside a quote and after a trailing backslash.
Splits(text) == Outside(Lex(text))

Split(text) ==
  LET lex == Lex(text)
  IN IF lex.mode = "word" THEN Append(lex.words, lex.word) ELSE lex.words

LStrip(text) ==
  LET kept == {i \in DOMAIN text : \E j \in 1..i : text[j] \notin Space}
  IN SubSeq(text, Len(text) - Cardinality(kept) + 1, Len(text))

Strip(text) ==
  LET kept == {i \in DOMAIN text : \E j \in i..Len(text) : text[j] \notin Space}
  IN LStrip(SubSeq(text, 1, Cardinality(kept)))
=============================================================================
