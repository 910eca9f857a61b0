---------------------------- MODULE Text_proofs ----------------------------
(***************************************************************************)
(* Proofs about texts: what the loops of pipeline.py and shlex compute     *)
(* over a text of any length, and what strip() and lstrip() leave of it.   *)
(*                                                                         *)
(* Lex and Scan are folds, which the community modules define with CHOOSE. *)
(* FoldExists shows that what is chosen exists, so that LexAppend and      *)
(* ScanAppend hold; facts about every text then follow by Induction, which *)
(* is stated for the members of a set.                                     *)
(***************************************************************************)
EXTENDS Quoting, SequenceTheorems, FiniteSetTheorems, FunctionTheorems,
        WellFoundedInduction, TLAPS

USE QuotingAssumption

\* Induction over the naturals, for the members of a set.
LEMMA Induction ==
  ASSUME NEW S, 0 \in S, \A n \in Nat : n \in S => n + 1 \in S
  PROVE  \A n \in Nat : n \in S
<1> SUFFICES ASSUME NEW m \in Nat, m \notin S PROVE FALSE
  OBVIOUS
<1> DEFINE R == {ss \in Nat \X Nat : ss[1] < ss[2]}
           T == {n \in Nat : n \notin S}
<1>1. IsWellFoundedOn(R, Nat)
  BY NatLessThanWellFounded, Zenon DEF OpToRel
<1>2. \A x, y \in Nat : <<y, x>> \in R <=> y < x
  OBVIOUS
<1> HIDE DEF R
<1>3. PICK x \in T : \A y \in T : <<y, x>> \notin R
  BY <1>1, WFMin
<1>4. x # 0 /\ x - 1 \in Nat /\ x - 1 < x
  BY <1>3
<1>5. x - 1 \in S
  BY <1>2, <1>3, <1>4
<1>6. (x - 1) + 1 = x
  BY <1>3
<1>7. QED
  BY <1>3, <1>4, <1>5, <1>6

\* The largest of a set of positions.
LEMMA Largest ==
  ASSUME NEW n \in Nat, NEW s \in SUBSET (1..n), s # {}
  PROVE  Max(s) \in s /\ \A i \in s : Max(s) >= i
<1> DEFINE Has(k) == \A r \in SUBSET (1..k) : r # {} => \E m \in r : \A i \in r : m >= i
           S == {k \in Nat : Has(k)}
<1>1. 0 \in S
  <2>1. 1..0 = {}
    OBVIOUS
  <2>2. QED
    BY <2>1
<1>2. ASSUME NEW k \in Nat, k \in S PROVE k + 1 \in S
  <2> SUFFICES ASSUME NEW r \in SUBSET (1..(k + 1)), r # {}
               PROVE  \E m \in r : \A i \in r : m >= i
    OBVIOUS
  <2>1. CASE k + 1 \in r
    BY <2>1
  <2>2. CASE k + 1 \notin r
    <3>1. r \in SUBSET (1..k)
      BY <2>2
    <3>2. QED
      BY <1>2, <3>1
  <2>3. QED
    BY <2>1, <2>2
<1>3. n \in S
  <2> HIDE DEF S
  <2>1. QED
    BY <1>1, <1>2, Induction
<1>4. PICK m \in s : \A i \in s : m >= i
  BY <1>3
<1>5. QED
  BY <1>4 DEF Max

\* A fold over a text has a value at each of its positions: the function that
\* MapThenFoldSet takes its result from exists.
Folds(iter, F, base, t, k) ==
  \A s \in SUBSET (1..k) :
    iter[s] = IF s = {} THEN base ELSE F[<<iter[s \ {Max(s)}], t[Max(s)]>>]

\* One position more.
LEMMA FoldExtends ==
  ASSUME NEW S, NEW A, NEW F \in [S \X A -> S], NEW base \in S, NEW t, NEW k \in Nat,
         t[k + 1] \in A, NEW old \in [SUBSET (1..k) -> S], Folds(old, F, base, t, k)
  PROVE  \E iter \in [SUBSET (1..(k + 1)) -> S] : Folds(iter, F, base, t, k + 1)
<1> DEFINE rest(s) == s \ {k + 1}
           value(s) == IF k + 1 \in s THEN F[<<old[rest(s)], t[k + 1]>>] ELSE old[s]
           iter == [s \in SUBSET (1..(k + 1)) |-> value(s)]
<1>1. \A s \in SUBSET (1..(k + 1)) : rest(s) \in SUBSET (1..k)
  OBVIOUS
<1>2. \A s \in SUBSET (1..k) : s \in SUBSET (1..(k + 1)) /\ k + 1 \notin s
  OBVIOUS
<1>3. \A s \in SUBSET (1..(k + 1)) : k + 1 \notin s => s \in SUBSET (1..k)
  BY <1>1
<1>4. \A s \in SUBSET (1..(k + 1)) : value(s) \in S
  <2> SUFFICES ASSUME NEW s \in SUBSET (1..(k + 1)) PROVE value(s) \in S
    OBVIOUS
  <2>1. CASE k + 1 \in s
    <3>1. old[rest(s)] \in S
      BY <1>1
    <3>2. QED
      BY <2>1, <3>1
  <2>2. CASE k + 1 \notin s
    BY <1>3, <2>2
  <2>3. QED
    BY <2>1, <2>2
<1>5. iter \in [SUBSET (1..(k + 1)) -> S]
  <2> HIDE DEF value
  <2>1. QED
    BY <1>4
<1>6. \A s \in SUBSET (1..(k + 1)) : iter[s] = value(s)
  <2> HIDE DEF value
  <2>1. QED
    OBVIOUS
<1> HIDE DEF iter
<1>7. \A s \in SUBSET (1..k) : iter[s] = old[s]
  BY <1>2, <1>6
<1>8. ASSUME NEW s \in SUBSET (1..(k + 1)), s # {}
      PROVE  iter[s] = F[<<iter[s \ {Max(s)}], t[Max(s)]>>]
  <2>1. Max(s) \in s /\ \A i \in s : Max(s) >= i
    <3>1. k + 1 \in Nat
      OBVIOUS
    <3>2. QED
      BY <1>8, <3>1, Largest
  <2>2. CASE k + 1 \in s
    <3>1. Max(s) = k + 1
      <4>1. Max(s) \in 1..(k + 1) /\ Max(s) >= k + 1
        BY <2>1, <2>2
      <4>2. QED
        BY <4>1
    <3>2. iter[rest(s)] = old[rest(s)]
      BY <1>1, <1>7
    <3>3. iter[s] = F[<<old[rest(s)], t[k + 1]>>]
      BY <1>6, <2>2
    <3>4. QED
      BY <3>1, <3>2, <3>3
  <2>3. CASE k + 1 \notin s
    <3>1. s \in SUBSET (1..k) /\ s \ {Max(s)} \in SUBSET (1..k)
      BY <1>3, <2>3
    <3>2. old[s] = F[<<old[s \ {Max(s)}], t[Max(s)]>>]
      BY <1>8, <3>1 DEF Folds
    <3>3. QED
      BY <1>7, <3>1, <3>2
  <2>4. QED
    BY <2>2, <2>3
<1>9. iter[{}] = base
  <2>1. {} \in SUBSET (1..k) /\ old[{}] = base
    BY DEF Folds
  <2>2. QED
    BY <1>7, <2>1
<1>10. Folds(iter, F, base, t, k + 1)
  BY <1>8, <1>9 DEF Folds
<1>11. QED
  BY <1>5, <1>10

\* It exists for the whole text.
LEMMA FoldExists ==
  ASSUME NEW S, NEW A, NEW F \in [S \X A -> S], NEW base \in S, NEW t \in Seq(A)
  PROVE  \E iter \in [SUBSET (1..Len(t)) -> S] : Folds(iter, F, base, t, Len(t))
<1> DEFINE Exists(k) == \E iter \in [SUBSET (1..k) -> S] : Folds(iter, F, base, t, k)
           N == {k \in Nat : k <= Len(t) => Exists(k)}
<1>0. Len(t) \in Nat /\ \A i \in 1..Len(t) : t[i] \in A
  BY LenProperties, ElementOfSeq
<1>1. 0 \in N
  <2> DEFINE iter == [s \in SUBSET (1..0) |-> base]
  <2>1. 1..0 = {}
    OBVIOUS
  <2>2. iter \in [SUBSET (1..0) -> S]
    OBVIOUS
  <2>3. Folds(iter, F, base, t, 0)
    BY <2>1 DEF Folds
  <2>4. QED
    BY <2>2, <2>3
<1>2. ASSUME NEW k \in Nat, k \in N PROVE k + 1 \in N
  <2>1. ASSUME k + 1 <= Len(t) PROVE Exists(k + 1)
    <3>1. Exists(k)
      <4> HIDE DEF Exists
      <4>1. QED
        BY <1>0, <1>2, <2>1
    <3>2. PICK old \in [SUBSET (1..k) -> S] : Folds(old, F, base, t, k)
      BY <3>1
    <3>3. t[k + 1] \in A
      BY <1>0, <2>1
    <3>4. QED
      BY <3>2, <3>3, FoldExtends
  <2> HIDE DEF Exists
  <2>2. QED
    BY <2>1
<1>3. \A k \in Nat : k \in N
  <2> HIDE DEF N
  <2>1. QED
    BY <1>1, <1>2, Induction
<1>4. Exists(Len(t))
  <2> HIDE DEF Exists
  <2>1. QED
    BY <1>0, <1>3
<1>5. QED
  BY <1>4

\* What such a function says of the values along the text, when F is only
\* known on the members of S and A.
Along(iter, S, F, base, t) ==
  /\ iter[1..0] = base
  /\ \A k \in 0..(Len(t) - 1) :
       iter[1..k] \in S => iter[1..(k + 1)] = F[<<iter[1..k], t[k + 1]>>]

\* A function that unfolds so on the parts of a text does along the text.
LEMMA FoldAlong ==
  ASSUME NEW S, NEW A, NEW F \in [S \X A -> S], NEW base \in S, NEW t \in Seq(A),
         NEW iter, iter[{}] = base,
         \A s \in SUBSET DOMAIN t : s # {} =>
            (iter[s \ {Max(s)}] \in S => iter[s] = F[<<iter[s \ {Max(s)}], t[Max(s)]>>])
  PROVE  Along(iter, S, F, base, t)
<1>1. 1..0 = {} /\ Len(t) \in Nat /\ DOMAIN t = 1..Len(t)
  BY LenProperties
<1>2. ASSUME NEW k \in 0..(Len(t) - 1), iter[1..k] \in S
      PROVE  iter[1..(k + 1)] = F[<<iter[1..k], t[k + 1]>>]
  <2>1. k + 1 \in Nat /\ 1..(k + 1) \in SUBSET DOMAIN t /\ 1..(k + 1) # {}
    BY <1>1
  <2>2. Max(1..(k + 1)) \in 1..(k + 1) /\ \A i \in 1..(k + 1) : Max(1..(k + 1)) >= i
    BY <2>1, Largest
  <2>3. Max(1..(k + 1)) = k + 1
    BY <2>1, <2>2
  <2>4. (1..(k + 1)) \ {k + 1} = 1..k
    BY <1>1
  <2>5. QED
    BY <1>2, <2>1, <2>3, <2>4
<1>3. QED
  BY <1>1, <1>2 DEF Along

AlongBoth(short, long, S, A, F, base, t, c) ==
  /\ F \in [S \X A -> S] /\ base \in S /\ t \in Seq(A) /\ c \in A
  /\ Along(short, S, F, base, t) /\ Along(long, S, F, base, Append(t, c))

\* The value of a fold over a text with one character more is F of its value
\* before and that character.
LEMMA AlongAppend ==
  ASSUME NEW S, NEW A, NEW F, NEW base, NEW t, NEW c, NEW short, NEW long,
         AlongBoth(short, long, S, A, F, base, t, c)
  PROVE  /\ short[1..Len(t)] \in S
         /\ long[1..Len(Append(t, c))] = F[<<short[1..Len(t)], c>>]
<1> DEFINE Same(k) == short[1..k] \in S /\ long[1..k] = short[1..k]
           N == {k \in Nat : k <= Len(t) => Same(k)}
<1> USE DEF AlongBoth
<1>0. /\ Len(t) \in Nat /\ Len(Append(t, c)) = Len(t) + 1 /\ Append(t, c)[Len(t) + 1] = c
      /\ \A i \in 1..Len(t) : t[i] \in A /\ Append(t, c)[i] = t[i]
  BY LenProperties, ElementOfSeq, AppendProperties
<1>1. 0 \in N
  BY DEF Along
<1>2. ASSUME NEW k \in Nat, k \in N PROVE k + 1 \in N
  <2>1. ASSUME k + 1 <= Len(t) PROVE Same(k + 1)
    <3>1. Same(k) /\ k \in 0..(Len(t) - 1) /\ k \in 0..(Len(Append(t, c)) - 1)
      BY <1>0, <1>2, <2>1
    <3>2. /\ short[1..(k + 1)] = F[<<short[1..k], t[k + 1]>>]
          /\ long[1..(k + 1)] = F[<<long[1..k], Append(t, c)[k + 1]>>]
      BY <3>1 DEF Along
    <3>3. t[k + 1] \in A /\ Append(t, c)[k + 1] = t[k + 1]
      BY <1>0, <2>1
    <3>4. QED
      BY <3>1, <3>2, <3>3
  <2> HIDE DEF Same
  <2>2. QED
    BY <2>1
<1>3. Same(Len(t))
  <2> HIDE DEF N
  <2>1. Len(t) \in N
    BY <1>0, <1>1, <1>2, Induction
  <2> HIDE DEF Same
  <2>2. QED
    BY <1>0, <2>1 DEF N
<1>4. Len(t) \in 0..(Len(Append(t, c)) - 1)
  BY <1>0
<1>5. long[1..(Len(t) + 1)] = F[<<long[1..Len(t)], Append(t, c)[Len(t) + 1]>>]
  BY <1>3, <1>4 DEF Along
<1>6. QED
  BY <1>0, <1>3, <1>5

-----------------------------------------------------------------------------
(* One turn of each loop.                                                  *)

\* Short sequences have their type, whatever it is.
LEMMA ShortSequences ==
  ASSUME NEW S
  PROVE  <<>> \in Seq(S) /\ \A d, e \in S : <<d>> \in Seq(S) /\ <<d, e>> \in Seq(S)
OBVIOUS

\* One turn of the scanner's loop, as far as quotes and segments go.
LEMMA ScanTurn ==
  ASSUME NEW s \in Scans, NEW c \in Chars, s.skip => s.quote # "no"
  PROVE  LET t == ScanChar(s, c)
         IN /\ t \in Scans
            /\ t.skip <=> s.quote # "no" /\ ~s.skip /\ c # s.quote /\ c = "\\"
            /\ t.quote = IF s.quote = "no" THEN (IF c \in Quotes THEN c ELSE "no")
                         ELSE IF c = s.quote /\ ~s.skip THEN "no" ELSE s.quote
            /\ t.segments = IF s.quote = "no" /\ c = "|"
                            THEN Append(s.segments, s.buf) ELSE s.segments
            /\ t.buf = IF s.quote = "no" /\ c = "|" THEN <<>> ELSE Append(s.buf, c)
<1> DEFINE t == ScanChar(s, c)
           read == [s EXCEPT !.buf = Append(@, c)]
<1> USE DEF Scans, Quotes
<1>1. read \in Scans /\ read = [s EXCEPT !.buf = Append(s.buf, c)]
  <2>1. s.buf \in Seq(Chars)
    OBVIOUS
  <2>2. Append(s.buf, c) \in Seq(Chars)
    BY <2>1, AppendProperties
  <2>3. QED
    BY <2>2
<1>2. CASE s.skip
  <2>1. t = [read EXCEPT !.skip = FALSE]
    BY <1>2 DEF ScanChar
  <2>2. QED
    BY <1>1, <1>2, <2>1
<1>3. CASE ~s.skip /\ s.quote # "no"
  <2>1. t = [read EXCEPT !.quote = IF c = s.quote THEN "no" ELSE s.quote,
                         !.skip = (c = "\\")]
    BY <1>3 DEF ScanChar
  <2>2. QED
    BY <1>1, <1>3, <2>1
<1>4. CASE ~s.skip /\ s.quote = "no" /\ c = "|"
  <2>1. t = [s EXCEPT !.segments = Append(@, s.buf), !.buf = <<>>,
                      !.bad = @ \/ s.last = "|", !.last = c]
    BY <1>4 DEF ScanChar
  <2>2. Append(s.segments, s.buf) \in Seq(Seq(Chars)) /\ <<>> \in Seq(Chars)
    <3>1. s.segments \in Seq(Seq(Chars)) /\ s.buf \in Seq(Chars)
      OBVIOUS
    <3>2. QED
      BY <3>1, AppendProperties, ShortSequences
  <2>3. QED
    BY <1>4, <2>1, <2>2
<1>5. CASE ~s.skip /\ s.quote = "no" /\ c # "|"
  <2>1. t = [read EXCEPT !.quote = IF c \in Quotes THEN c ELSE "no", !.last = c,
                !.bad = @ \/ c \in ForbiddenSingle \/ <<s.last, c>> \in ForbiddenPair]
    BY <1>5 DEF ScanChar
  <2>2. QED
    BY <1>1, <1>5, <2>1
<1>6. QED
  BY <1>2, <1>3, <1>4, <1>5

\* One turn of shlex's loop, as far as quotes go.
LEMMA LexTurn ==
  ASSUME NEW x \in Lexes, NEW c \in Chars
  PROVE  LET y == LexChar(x, c)
         IN /\ y \in Lexes
            /\ Outside(x) => IF c \in Quotes THEN y.mode = c
                             ELSE IF c = "\\" THEN y.mode = "escape" ELSE Outside(y)
            /\ x.mode = "'" => IF c = "'" THEN y.mode = "word" ELSE y.mode = "'"
            /\ x.mode = "\"" => IF c = "\"" THEN y.mode = "word"
                                ELSE IF c = "\\" THEN y.mode = "in quotes" ELSE y.mode = "\""
            /\ x.mode = "in quotes" => y.mode = "\""
            /\ x.mode = "escape" => y.mode = "word"
<1> DEFINE y == LexChar(x, c)
<1> USE DEF Lexes, Outside, Quotes, Blank
<1>0. /\ Append(x.word, c) \in Seq(Letters)
      /\ Append(x.words, x.word) \in Seq(Seq(Letters))
      /\ <<>> \in Seq(Letters)
      /\ \A e \in {<<c>>, <<"\\", c>>} : x.word \o e \in Seq(Letters)
  <2>1. x.word \in Seq(Letters) /\ x.words \in Seq(Seq(Letters)) /\ c \in Letters
    BY DEF Letters
  <2>2. <<c>> \in Seq(Letters) /\ <<"\\", c>> \in Seq(Letters) /\ <<>> \in Seq(Letters)
    <3>1. "\\" \in Letters
      BY DEF Letters
    <3>2. QED
      BY <2>1, <3>1, ShortSequences
  <2>3. QED
    BY <2>1, <2>2, AppendProperties, ConcatProperties
<1>1. CASE x.mode = "gap" /\ c \in Blank
  <2>1. y = x
    BY <1>1 DEF LexChar
  <2>2. QED
    BY <1>1, <2>1
<1>2. CASE x.mode = "word" /\ c \in Blank
  <2>1. y = [mode |-> "gap", word |-> <<>>, words |-> Append(x.words, x.word)]
    BY <1>2 DEF LexChar
  <2>2. c \notin Quotes /\ c # "\\"
    BY <1>2
  <2>3. y.mode = "gap"
    <3> HIDE DEF Lexes, Blank, Quotes, Outside
    <3>1. QED
      BY <2>1
  <2>4. y \in Lexes
    <3>1. \A w \in Seq(Letters), ws \in Seq(Seq(Letters)) :
            [mode |-> "gap", word |-> w, words |-> ws] \in Lexes
      OBVIOUS
    <3> HIDE DEF Lexes, Blank, Quotes, Outside
    <3>2. QED
      BY <1>0, <2>1, <3>1
  <2>5. QED
    BY <1>2, <2>2, <2>3, <2>4
<1>3. CASE x.mode \in {"gap", "word"} /\ c \in Quotes
  <2>1. y = [x EXCEPT !.mode = c]
    BY <1>3 DEF LexChar
  <2>2. QED
    BY <1>3, <2>1
<1>4. CASE x.mode \in {"gap", "word"} /\ c = "\\"
  <2>1. y = [x EXCEPT !.mode = "escape"]
    BY <1>4 DEF LexChar
  <2>2. QED
    BY <1>4, <2>1
<1>5. CASE x.mode \in Quotes /\ c = x.mode
  <2>1. y = [x EXCEPT !.mode = "word"]
    BY <1>5 DEF LexChar
  <2>2. QED
    BY <1>5, <2>1
<1>6. CASE x.mode = "\"" /\ c = "\\"
  <2>1. y = [x EXCEPT !.mode = "in quotes"]
    BY <1>6 DEF LexChar
  <2>2. QED
    BY <1>6, <2>1
<1>7. CASE x.mode = "in quotes"
  <2>1. y = [x EXCEPT !.mode = "\"",
                      !.word = @ \o IF c \in {"\\", "\""} THEN <<c>> ELSE <<"\\", c>>]
    BY <1>7 DEF LexChar
  <2>2. QED
    BY <1>0, <1>7, <2>1
<1>8. CASE x.mode \in Quotes /\ c # x.mode /\ <<x.mode, c>> # <<"\"", "\\">>
  <2>1. y = [x EXCEPT !.word = Append(@, c)]
    BY <1>8 DEF LexChar
  <2>2. QED
    BY <1>0, <1>8, <2>1
<1>9. CASE \/ x.mode = "escape"
           \/ x.mode \in {"gap", "word"} /\ c \notin Blank \cup Quotes \cup {"\\"}
  <2>1. y = [x EXCEPT !.mode = "word", !.word = Append(@, c)]
    BY <1>9 DEF LexChar
  <2>2. QED
    BY <1>0, <1>9, <2>1
<1>10. QED
  BY <1>1, <1>2, <1>3, <1>4, <1>5, <1>6, <1>7, <1>8, <1>9

\* Both loops start in their types.
LEMMA StartIsTyped == LexStart \in Lexes /\ ScanStart \in Scans
<1>1. <<>> \in Seq(Letters) /\ <<>> \in Seq(Seq(Letters))
  BY ShortSequences
<1>2. <<>> \in Seq(Chars) /\ <<>> \in Seq(Seq(Chars))
  BY ShortSequences
<1>3. \A w \in Seq(Letters), ws \in Seq(Seq(Letters)) :
        [mode |-> "gap", word |-> w, words |-> ws] \in Lexes
  BY DEF Lexes
<1>4. \A b \in Seq(Chars), ss \in Seq(Seq(Chars)) :
        [quote |-> "no", skip |-> FALSE, last |-> "", bad |-> FALSE,
         buf |-> b, segments |-> ss] \in Scans
  BY DEF Scans
<1>5. QED
  BY <1>1, <1>2, <1>3, <1>4 DEF LexStart, ScanStart

-----------------------------------------------------------------------------
(* The folds take the turns in order.                                      *)

\* Lex is a fold along the text.
LEMMA LexAlong ==
  ASSUME NEW t \in Seq(Chars)
  PROVE  LET F == [p \in Lexes \X Chars |-> LexChar(p[1], p[2])]
         IN \E iter : Lex(t) = iter[1..Len(t)] /\ Along(iter, Lexes, F, LexStart, t)
<1> DEFINE F == [p \in Lexes \X Chars |-> LexChar(p[1], p[2])]
           Unfolds(iter) == iter = [s \in SUBSET DOMAIN t |->
             IF s = {} THEN LexStart ELSE LexChar(iter[s \ {Max(s)}], t[Max(s)])]
           result == CHOOSE iter : Unfolds(iter)
<1>1. Len(t) \in Nat /\ DOMAIN t = 1..Len(t) /\ \A i \in 1..Len(t) : t[i] \in Chars
  BY LenProperties, ElementOfSeq
<1>2. \A x \in Lexes, c \in Chars : LexChar(x, c) \in Lexes /\ F[<<x, c>>] = LexChar(x, c)
  BY LexTurn
<1>3. F \in [Lexes \X Chars -> Lexes]
  BY <1>2
<1>4. \A s \in SUBSET DOMAIN t : s # {} => Max(s) \in s /\ t[Max(s)] \in Chars
  BY <1>1, Largest
<1>5. Unfolds(result)
  <2> HIDE DEF F
  <2>1. PICK iter \in [SUBSET (1..Len(t)) -> Lexes] : Folds(iter, F, LexStart, t, Len(t))
    BY <1>3, StartIsTyped, FoldExists
  <2>2. Unfolds(iter)
    BY <1>1, <1>2, <1>4, <2>1 DEF Folds
  <2>3. QED
    BY <2>2, Zenon
<1> HIDE DEF result
<1>6. result[{}] = LexStart
  BY <1>5
<1>7. \A s \in SUBSET DOMAIN t : s # {} =>
         (result[s \ {Max(s)}] \in Lexes => result[s] = F[<<result[s \ {Max(s)}], t[Max(s)]>>])
  <2> HIDE DEF F
  <2>1. QED
    BY <1>2, <1>4, <1>5, ZenonT(30)
<1>8. Along(result, Lexes, F, LexStart, t)
  <2> HIDE DEF F
  <2>1. QED
    BY <1>3, <1>6, <1>7, StartIsTyped, FoldAlong
<1>9. Lex(t) = result[1..Len(t)]
  BY <1>1 DEF Lex, FoldLeft, MapThenFoldSet, result
<1>10. QED
  BY <1>8, <1>9

\* shlex on a text with one character more takes one turn more.
LEMMA LexAppend ==
  ASSUME NEW t \in Seq(Chars), NEW c \in Chars
  PROVE  Lex(t) \in Lexes /\ Lex(Append(t, c)) = LexChar(Lex(t), c)
<1> DEFINE F == [p \in Lexes \X Chars |-> LexChar(p[1], p[2])]
<1>1. \A x \in Lexes : LexChar(x, c) \in Lexes /\ F[<<x, c>>] = LexChar(x, c)
  BY LexTurn
<1>2. F \in [Lexes \X Chars -> Lexes]
  BY LexTurn
<1>3. Append(t, c) \in Seq(Chars)
  BY AppendProperties
<1>4. PICK short : Lex(t) = short[1..Len(t)] /\ Along(short, Lexes, F, LexStart, t)
  BY LexAlong
<1>5. PICK long : /\ Lex(Append(t, c)) = long[1..Len(Append(t, c))]
                  /\ Along(long, Lexes, F, LexStart, Append(t, c))
  BY <1>3, LexAlong
<1> HIDE DEF F
<1>6. /\ short[1..Len(t)] \in Lexes
      /\ long[1..Len(Append(t, c))] = F[<<short[1..Len(t)], c>>]
  <2>1. AlongBoth(short, long, Lexes, Chars, F, LexStart, t, c)
    BY <1>2, <1>4, <1>5, StartIsTyped DEF AlongBoth
  <2>2. QED
    BY <2>1, AlongAppend
<1>7. QED
  BY <1>1, <1>4, <1>5, <1>6

\* shlex on nothing is where it starts.
LEMMA LexEmpty == Lex(<<>>) = LexStart
<1>1. <<>> \in Seq(Chars) /\ Len(<<>>) = 0
  OBVIOUS
<1>2. QED
  BY <1>1, LexAlong DEF Along

\* The same of the scanner.
SkipScans == {s \in Scans : s.skip => s.quote # "no"}

\* The scanner skips inside quotes only.
LEMMA ScanStays ==
  ScanStart \in SkipScans /\ \A s \in SkipScans, c \in Chars : ScanChar(s, c) \in SkipScans
<1>1. ScanStart \in SkipScans
  BY StartIsTyped DEF SkipScans, ScanStart
<1>2. ASSUME NEW s \in SkipScans, NEW c \in Chars PROVE ScanChar(s, c) \in SkipScans
  <2>1. s \in Scans /\ (s.skip => s.quote # "no")
    BY DEF SkipScans
  <2>2. ScanChar(s, c) \in Scans
    BY <2>1, ScanTurn
  <2>3. ScanChar(s, c).skip => ScanChar(s, c).quote # "no"
    <3>1. /\ ScanChar(s, c).skip <=> s.quote # "no" /\ ~s.skip /\ c # s.quote /\ c = "\\"
          /\ ScanChar(s, c).quote = IF s.quote = "no" THEN (IF c \in Quotes THEN c ELSE "no")
                         ELSE IF c = s.quote /\ ~s.skip THEN "no" ELSE s.quote
      BY <2>1, ScanTurn
    <3>2. QED
      BY <3>1
  <2>4. QED
    BY <2>2, <2>3 DEF SkipScans
<1>3. QED
  BY <1>1, <1>2

\* Scan is a fold along the command.
LEMMA ScanAlong ==
  ASSUME NEW t \in Seq(Chars)
  PROVE  LET F == [p \in SkipScans \X Chars |-> ScanChar(p[1], p[2])]
         IN \E iter : Scan(t) = iter[1..Len(t)] /\ Along(iter, SkipScans, F, ScanStart, t)
<1> DEFINE F == [p \in SkipScans \X Chars |-> ScanChar(p[1], p[2])]
           Unfolds(iter) == iter = [s \in SUBSET DOMAIN t |->
             IF s = {} THEN ScanStart ELSE ScanChar(iter[s \ {Max(s)}], t[Max(s)])]
           result == CHOOSE iter : Unfolds(iter)
<1>1. Len(t) \in Nat /\ DOMAIN t = 1..Len(t) /\ \A i \in 1..Len(t) : t[i] \in Chars
  BY LenProperties, ElementOfSeq
<1>2. \A s \in SkipScans, c \in Chars :
         ScanChar(s, c) \in SkipScans /\ F[<<s, c>>] = ScanChar(s, c)
  BY ScanStays
<1>3. F \in [SkipScans \X Chars -> SkipScans]
  BY <1>2
<1>4. \A s \in SUBSET DOMAIN t : s # {} => Max(s) \in s /\ t[Max(s)] \in Chars
  BY <1>1, Largest
<1>5. Unfolds(result)
  <2> HIDE DEF F
  <2>1. PICK iter \in [SUBSET (1..Len(t)) -> SkipScans] : Folds(iter, F, ScanStart, t, Len(t))
    BY <1>3, ScanStays, FoldExists
  <2>2. Unfolds(iter)
    BY <1>1, <1>2, <1>4, <2>1 DEF Folds
  <2>3. QED
    BY <2>2, Zenon
<1> HIDE DEF result
<1>6. result[{}] = ScanStart
  BY <1>5
<1>7. \A s \in SUBSET DOMAIN t : s # {} =>
         (result[s \ {Max(s)}] \in SkipScans => result[s] = F[<<result[s \ {Max(s)}], t[Max(s)]>>])
  <2> HIDE DEF F
  <2>1. QED
    BY <1>2, <1>4, <1>5, ZenonT(30)
<1>8. Along(result, SkipScans, F, ScanStart, t)
  <2> HIDE DEF F
  <2>1. QED
    BY <1>3, <1>6, <1>7, ScanStays, FoldAlong
<1>9. Scan(t) = result[1..Len(t)]
  BY <1>1 DEF Scan, FoldLeft, MapThenFoldSet, result
<1>10. QED
  BY <1>8, <1>9

\* The scanner on a command with one character more takes one turn more.
LEMMA ScanAppend ==
  ASSUME NEW t \in Seq(Chars), NEW c \in Chars
  PROVE  Scan(t) \in SkipScans /\ Scan(Append(t, c)) = ScanChar(Scan(t), c)
<1> DEFINE F == [p \in SkipScans \X Chars |-> ScanChar(p[1], p[2])]
<1>1. \A s \in SkipScans : ScanChar(s, c) \in SkipScans /\ F[<<s, c>>] = ScanChar(s, c)
  BY ScanStays
<1>2. F \in [SkipScans \X Chars -> SkipScans]
  BY ScanStays
<1>3. Append(t, c) \in Seq(Chars)
  BY AppendProperties
<1>4. PICK short : Scan(t) = short[1..Len(t)] /\ Along(short, SkipScans, F, ScanStart, t)
  BY ScanAlong
<1>5. PICK long : /\ Scan(Append(t, c)) = long[1..Len(Append(t, c))]
                  /\ Along(long, SkipScans, F, ScanStart, Append(t, c))
  BY <1>3, ScanAlong
<1> HIDE DEF F
<1>6. /\ short[1..Len(t)] \in SkipScans
      /\ long[1..Len(Append(t, c))] = F[<<short[1..Len(t)], c>>]
  <2>1. AlongBoth(short, long, SkipScans, Chars, F, ScanStart, t, c)
    BY <1>2, <1>4, <1>5, ScanStays DEF AlongBoth
  <2>2. QED
    BY <2>1, AlongAppend
<1>7. QED
  BY <1>1, <1>4, <1>5, <1>6

\* The scanner on nothing is where it starts.
LEMMA ScanEmpty == Scan(<<>>) = ScanStart
<1>1. <<>> \in Seq(Chars) /\ Len(<<>>) = 0
  OBVIOUS
<1>2. QED
  BY <1>1, ScanAlong DEF Along

-----------------------------------------------------------------------------
(* Pieces of a text, and what strip() and lstrip() leave of it.            *)

\* A longer piece of a sequence has one element more.
LEMMA Grows ==
  ASSUME NEW S, NEW t \in Seq(S), NEW a \in 1..(Len(t) + 1), NEW k \in (a - 1)..(Len(t) - 1)
  PROVE  /\ SubSeq(t, a, k) \in Seq(S) /\ t[k + 1] \in S
         /\ SubSeq(t, a, k + 1) = Append(SubSeq(t, a, k), t[k + 1])
<1>1. Len(t) \in Nat /\ a \in Int /\ k \in Int /\ k + 1 \in 1..Len(t)
  BY LenProperties
<1>2. t[k + 1] \in S
  BY <1>1, ElementOfSeq
<1>3. SubSeq(t, a, k) \in Seq(S)
  <2>1. CASE k < a
    BY <1>1, <2>1, SubSeqEmpty, EmptySeq
  <2>2. CASE k >= a
    <3>1. \A i \in a..k : t[i] \in S
      BY <1>1, ElementOfSeq
    <3>2. QED
      BY <1>1, <3>1, SubSeqProperties
  <2>3. QED
    BY <1>1, <2>1, <2>2
<1>4. SubSeq(t, a, k + 1) = SubSeq(t, a, k) \o <<t[k + 1]>>
  <2>1. a \in 1..Len(t) /\ k + 1 \in a..Len(t)
    BY <1>1
  <2>2. SubSeq(t, a, k + 1) = SubSeq(t, a, (k + 1) - 1) \o <<t[k + 1]>>
    BY <1>1, <2>1, SubSeqRecursiveSecond
  <2>3. QED
    BY <1>1, <2>2
<1>5. QED
  BY <1>2, <1>3, <1>4, AppendIsConcat

\* Lex of a longer piece of a text.
LEMMA LexGrows ==
  ASSUME NEW t \in Seq(Chars), NEW a \in 1..(Len(t) + 1), NEW k \in (a - 1)..(Len(t) - 1)
  PROVE  /\ Lex(SubSeq(t, a, k)) \in Lexes /\ t[k + 1] \in Chars
         /\ Lex(SubSeq(t, a, k + 1)) = LexChar(Lex(SubSeq(t, a, k)), t[k + 1])
<1>1. /\ SubSeq(t, a, k) \in Seq(Chars) /\ t[k + 1] \in Chars
      /\ SubSeq(t, a, k + 1) = Append(SubSeq(t, a, k), t[k + 1])
  BY Grows
<1>2. QED
  BY <1>1, LexAppend

\* shlex stays in its type on every text.
LEMMA LexIsTyped == \A t \in Seq(Chars) : Lex(t) \in Lexes
<1> TAKE t \in Seq(Chars)
<1>1. CASE t = <<>>
  BY <1>1, LexEmpty, StartIsTyped
<1>2. CASE t # <<>>
  <2>1. PICK s \in Seq(Chars), c \in Chars : t = Append(s, c)
    BY <1>2, SequenceEmptyOrAppend
  <2>2. QED
    BY <2>1, LexAppend, LexTurn
<1>3. QED
  BY <1>1, <1>2

\* lstrip() leaves the rest of the text from its first character that is not
\* whitespace.
LEMMA LStripIs ==
  ASSUME NEW t \in Seq(Chars)
  PROVE  \E a \in 1..(Len(t) + 1) :
           /\ LStrip(t) = SubSeq(t, a, Len(t))
           /\ \A i \in 1..(a - 1) : t[i] \in Space
           /\ a <= Len(t) => t[a] \notin Space
<1> DEFINE kept == {i \in DOMAIN t : \E j \in 1..i : t[j] \notin Space}
           Skips(k) == k <= Len(t) + 1 =>
             \/ \A i \in 1..(k - 1) : t[i] \in Space
             \/ \E a \in 1..(k - 1) : t[a] \notin Space /\ \A i \in 1..(a - 1) : t[i] \in Space
           N == {k \in Nat : Skips(k)}
<1>1. Len(t) \in Nat /\ DOMAIN t = 1..Len(t)
  BY LenProperties
<1>2. Skips(Len(t) + 1)
  <2>1. 0 \in N
    BY <1>1
  <2>2. ASSUME NEW k \in Nat, k \in N PROVE k + 1 \in N
    <3> SUFFICES ASSUME k + 1 <= Len(t) + 1,
                        ~ \A i \in 1..((k + 1) - 1) : t[i] \in Space
                 PROVE  \E a \in 1..((k + 1) - 1) :
                          t[a] \notin Space /\ \A i \in 1..(a - 1) : t[i] \in Space
      OBVIOUS
    <3>1. Skips(k) /\ k <= Len(t) + 1
      BY <1>1, <2>2
    <3>2. CASE \A i \in 1..(k - 1) : t[i] \in Space
      <4>1. k \in 1..((k + 1) - 1) /\ t[k] \notin Space
        BY <3>2
      <4>2. QED
        BY <3>2, <4>1
    <3>3. CASE \E a \in 1..(k - 1) : t[a] \notin Space /\ \A i \in 1..(a - 1) : t[i] \in Space
      <4>1. PICK a \in 1..(k - 1) : t[a] \notin Space /\ \A i \in 1..(a - 1) : t[i] \in Space
        BY <3>3
      <4>2. a \in 1..((k + 1) - 1)
        OBVIOUS
      <4>3. QED
        BY <4>1, <4>2
    <3>4. QED
      BY <3>1, <3>2, <3>3
  <2>3. Len(t) + 1 \in N
    <3> HIDE DEF N
    <3>1. QED
      BY <1>1, <2>1, <2>2, Induction
  <2>4. QED
    BY <2>3
<1>3. PICK a \in 1..(Len(t) + 1) : /\ \A i \in 1..(a - 1) : t[i] \in Space
                                   /\ a <= Len(t) => t[a] \notin Space
  <2>1. CASE \A i \in 1..Len(t) : t[i] \in Space
    <3>1. Len(t) + 1 \in 1..(Len(t) + 1) /\ (Len(t) + 1) - 1 = Len(t)
      BY <1>1
    <3>2. QED
      BY <1>1, <2>1, <3>1
  <2>2. CASE ~ \A i \in 1..Len(t) : t[i] \in Space
    <3>1. (Len(t) + 1) - 1 = Len(t)
      BY <1>1
    <3>2. PICK a \in 1..Len(t) : t[a] \notin Space /\ \A i \in 1..(a - 1) : t[i] \in Space
      BY <1>1, <1>2, <2>2, <3>1
    <3>3. a \in 1..(Len(t) + 1)
      BY <1>1
    <3>4. QED
      BY <3>2, <3>3
  <2>3. QED
    BY <2>1, <2>2
<1>4. kept = a..Len(t)
  <2>1. \A i \in 1..Len(t) : i < a => \A j \in 1..i : t[j] \in Space
    BY <1>1, <1>3
  <2>2. \A i \in a..Len(t) : a \in 1..i /\ t[a] \notin Space
    BY <1>1, <1>3
  <2>3. ASSUME NEW i \in 1..Len(t) PROVE (\E j \in 1..i : t[j] \notin Space) <=> a <= i
    BY <1>1, <2>1, <2>2
  <2>4. QED
    BY <1>1, <2>3
<1>5. Cardinality(kept) = Len(t) - a + 1
  <2>1. Cardinality(a..Len(t)) = IF a > Len(t) THEN 0 ELSE Len(t) - a + 1
    <3>1. a \in Int /\ Len(t) \in Int
      BY <1>1
    <3>2. QED
      BY <3>1, FS_Interval
  <2>2. Cardinality(a..Len(t)) = Len(t) - a + 1
    BY <1>1, <2>1
  <2>3. QED
    BY <1>4, <2>2
<1>6. Len(t) - Cardinality(kept) + 1 = a
  BY <1>1, <1>5
<1>7. LStrip(t) = SubSeq(t, a, Len(t))
  BY <1>6 DEF LStrip
<1>8. QED
  BY <1>3, <1>7

\* A text is whitespace after some position that is not.
LEMMA LastNotSpace ==
  ASSUME NEW t \in Seq(Chars)
  PROVE  \E b \in 0..Len(t) : /\ \A i \in (b + 1)..Len(t) : t[i] \in Space
                              /\ b >= 1 => t[b] \notin Space
<1> DEFINE spaced(k) == \A i \in (Len(t) - k + 1)..Len(t) : t[i] \in Space
           Found(k) == \E b \in 0..Len(t) : /\ \A i \in (b + 1)..Len(t) : t[i] \in Space
                                            /\ b >= 1 => t[b] \notin Space
           N == {k \in Nat : k <= Len(t) => spaced(k) \/ Found(k)}
<1>1. Len(t) \in Nat
  BY LenProperties
<1>2. 0 \in N
  BY <1>1
<1>3. ASSUME NEW k \in Nat, k \in N PROVE k + 1 \in N
  <2> SUFFICES ASSUME k + 1 <= Len(t), ~Found(k) PROVE spaced(k + 1)
    OBVIOUS
  <2>1. spaced(k)
    BY <1>1, <1>3
  <2>2. Len(t) - k \in 1..Len(t) /\ Len(t) - k \in 0..Len(t)
    BY <1>1
  <2>3. t[Len(t) - k] \in Space
    BY <1>1, <2>1, <2>2
  <2>4. \A i \in (Len(t) - (k + 1) + 1)..Len(t) : i = Len(t) - k \/ i \in (Len(t) - k + 1)..Len(t)
    BY <1>1
  <2>5. QED
    BY <2>1, <2>3, <2>4
<1>4. Len(t) \in N
  <2> HIDE DEF N
  <2>1. QED
    BY <1>1, <1>2, <1>3, Induction
<1>5. CASE spaced(Len(t))
  <2>1. Len(t) - Len(t) + 1 = 1 /\ 0 \in 0..Len(t) /\ 0 + 1 = 1
    BY <1>1
  <2>2. \A i \in (0 + 1)..Len(t) : t[i] \in Space
    BY <1>5, <2>1
  <2>3. QED
    BY <2>1, <2>2
<1>6. QED
  BY <1>1, <1>4, <1>5

\* strip() leaves the piece of the text between its whitespace.
LEMMA StripIs ==
  ASSUME NEW t \in Seq(Chars)
  PROVE  \E a \in 1..(Len(t) + 1), b \in 0..Len(t) :
           /\ a <= b + 1 /\ Strip(t) = SubSeq(t, a, b)
           /\ \A i \in 1..(a - 1) : t[i] \in Space
           /\ \A i \in (b + 1)..Len(t) : t[i] \in Space
           /\ a <= b => t[a] \notin Space /\ t[b] \notin Space
<1> DEFINE kept == {i \in DOMAIN t : \E j \in i..Len(t) : t[j] \notin Space}
<1>1. Len(t) \in Nat /\ DOMAIN t = 1..Len(t)
  BY LenProperties
<1>2. PICK b \in 0..Len(t) : /\ \A i \in (b + 1)..Len(t) : t[i] \in Space
                             /\ b >= 1 => t[b] \notin Space
  BY LastNotSpace
<1>3. kept = 1..b
  <2>1. \A i \in 1..Len(t) : i > b => \A j \in i..Len(t) : t[j] \in Space
    BY <1>1, <1>2
  <2>2. \A i \in 1..b : b \in i..Len(t) /\ t[b] \notin Space
    BY <1>1, <1>2
  <2>3. ASSUME NEW i \in 1..Len(t) PROVE (\E j \in i..Len(t) : t[j] \notin Space) <=> i <= b
    BY <1>1, <2>1, <2>2
  <2>4. QED
    BY <1>1, <2>3
<1>4. Cardinality(kept) = b
  <2>1. Cardinality(1..b) = IF 1 > b THEN 0 ELSE b - 1 + 1
    <3>1. 1 \in Int /\ b \in Int
      BY <1>1
    <3>2. QED
      BY <3>1, FS_Interval
  <2>2. Cardinality(1..b) = b
    BY <1>1, <2>1
  <2>3. QED
    BY <1>3, <2>2
<1> DEFINE left == SubSeq(t, 1, b)
<1>5. /\ left \in Seq(Chars) /\ Len(left) = b /\ \A i \in 1..b : left[i] = t[i]
      /\ Strip(t) = LStrip(left)
  <2>1. \A i \in 1..b : t[i] \in Chars
    BY <1>1, ElementOfSeq
  <2>2. 1 \in Int /\ b \in Int /\ b \in Nat
    BY <1>1
  <2>3. left \in Seq(Chars) /\ Len(left) = IF 1 <= b THEN b - 1 + 1 ELSE 0
    BY <2>1, <2>2, SubSeqProperties
  <2>4. \A i \in 1..b : left[i] = t[i]
    <3>1. \A i \in 1..(b - 1 + 1) : left[i] = t[1 + i - 1]
      BY <2>1, <2>2, SubSeqProperties
    <3>2. QED
      BY <2>2, <3>1
  <2>5. Strip(t) = LStrip(left)
    BY <1>4 DEF Strip
  <2>6. QED
    BY <2>2, <2>3, <2>4, <2>5
<1> HIDE DEF left
<1>6. PICK a \in 1..(Len(left) + 1) : /\ LStrip(left) = SubSeq(left, a, Len(left))
                                      /\ \A i \in 1..(a - 1) : left[i] \in Space
                                      /\ a <= Len(left) => left[a] \notin Space
  BY <1>5, LStripIs
<1>7. SubSeq(left, a, b) = SubSeq(t, a, b)
  <2>1. CASE b < a
    BY <1>1, <1>5, <1>6, <2>1, SubSeqEmpty
  <2>2. CASE a <= b
    <3>1. /\ 1 \in 1..(Len(t) + 1) /\ b \in 0..Len(t)
          /\ a \in 1..(b - 1 + 1 + 1) /\ b \in 0..(b - 1 + 1)
      BY <1>1, <1>5, <1>6
    <3>2. QED
      BY <1>1, <1>5, <1>6, <2>2, <3>1, SubSeqOfSubSeq DEF left
  <2>3. QED
    BY <1>1, <1>5, <1>6, <2>1, <2>2
<1>8. a \in 1..(Len(t) + 1) /\ a <= b + 1
  BY <1>1, <1>5, <1>6
<1>9. \A i \in 1..(a - 1) : t[i] \in Space
  BY <1>1, <1>5, <1>6
<1>10. a <= b => t[a] \notin Space /\ t[b] \notin Space
  BY <1>1, <1>2, <1>5, <1>6
<1>11. QED
  BY <1>2, <1>5, <1>6, <1>7, <1>8, <1>9, <1>10

\* If a piece of a text has all its form feeds, the rest has none.
LEMMA FormFeedsKept ==
  ASSUME NEW t \in Seq(Chars), NEW a \in 1..(Len(t) + 1), NEW b \in 0..Len(t), a <= b + 1,
         Cardinality({j \in DOMAIN t : t[j] = "\f"})
           = Cardinality({j \in DOMAIN SubSeq(t, a, b) : SubSeq(t, a, b)[j] = "\f"})
  PROVE  \A i \in 1..Len(t) : t[i] = "\f" => i \in a..b
<1> DEFINE all == {j \in DOMAIN t : t[j] = "\f"}
           piece == {j \in DOMAIN SubSeq(t, a, b) : SubSeq(t, a, b)[j] = "\f"}
           f == [j \in piece |-> a + j - 1]
<1>1. Len(t) \in Nat /\ DOMAIN t = 1..Len(t) /\ \A i \in 1..Len(t) : t[i] \in Chars
  BY LenProperties, ElementOfSeq
<1>2. /\ DOMAIN SubSeq(t, a, b) = 1..(b - a + 1)
      /\ \A j \in 1..(b - a + 1) : SubSeq(t, a, b)[j] = t[a + j - 1] /\ a + j - 1 \in a..b
  <2>1. a \in Int /\ b \in Int /\ \A i \in a..b : t[i] \in Chars
    BY <1>1
  <2>2. /\ SubSeq(t, a, b) \in Seq(Chars)
        /\ Len(SubSeq(t, a, b)) = IF a <= b THEN b - a + 1 ELSE 0
        /\ \A i \in 1..(b - a + 1) : SubSeq(t, a, b)[i] = t[a + i - 1]
    BY <2>1, SubSeqProperties
  <2>3. Len(SubSeq(t, a, b)) = b - a + 1
    BY <1>1, <2>1, <2>2
  <2>4. DOMAIN SubSeq(t, a, b) = 1..(b - a + 1)
    BY <2>2, <2>3, LenProperties
  <2>5. \A j \in 1..(b - a + 1) : a + j - 1 \in a..b
    BY <2>1
  <2>6. QED
    BY <2>2, <2>4, <2>5
<1>3. IsFiniteSet(all)
  <2>1. IsFiniteSet(1..Len(t))
    BY <1>1, FS_Interval
  <2>2. all \in SUBSET (1..Len(t))
    BY <1>1
  <2>3. QED
    BY <2>1, <2>2, FS_Subset
<1>4. f \in Injection(piece, all)
  <2>1. \A j \in piece : a + j - 1 \in all
    BY <1>1, <1>2
  <2>2. \A j, k \in piece : a + j - 1 = a + k - 1 => j = k
    BY <1>2
  <2>3. f \in [piece -> all] /\ \A j \in piece : f[j] = a + j - 1
    BY <2>1
  <2> HIDE DEF f, piece, all
  <2>4. QED
    BY <2>2, <2>3 DEF Injection, IsInjective
<1>5. f \in Surjection(piece, all)
  <2> HIDE DEF f
  <2>1. QED
    BY <1>3, <1>4, FS_Injection
<1>6. \A i \in all : \E j \in piece : f[j] = i
  <2> HIDE DEF f
  <2>1. QED
    BY <1>5 DEF Surjection
<1>7. ASSUME NEW i \in 1..Len(t), t[i] = "\f" PROVE i \in a..b
  <2>1. i \in all
    BY <1>1, <1>7
  <2>2. PICK j \in piece : f[j] = i
    BY <1>6, <2>1
  <2>3. f[j] = a + j - 1 /\ j \in 1..(b - a + 1)
    BY <1>2
  <2>4. QED
    BY <1>2, <2>2, <2>3
<1>8. QED
  BY <1>7

-----------------------------------------------------------------------------
(* Whitespace around a text.                                               *)

\* Two readers are in the same quotes.
SameModes(x, y) == x.mode = y.mode \/ (Outside(x) /\ Outside(y))

\* A turn keeps two readers in the same modes.
LEMMA ModeTurn ==
  ASSUME NEW x \in Lexes, NEW y \in Lexes, NEW c \in Chars, SameModes(x, y)
  PROVE  SameModes(LexChar(x, c), LexChar(y, c))
<1> DEFINE Turns(z, u) ==
         /\ Outside(z) => IF c \in Quotes THEN u.mode = c
                          ELSE IF c = "\\" THEN u.mode = "escape" ELSE Outside(u)
         /\ z.mode = "'" => IF c = "'" THEN u.mode = "word" ELSE u.mode = "'"
         /\ z.mode = "\"" => IF c = "\"" THEN u.mode = "word"
                             ELSE IF c = "\\" THEN u.mode = "in quotes" ELSE u.mode = "\""
         /\ z.mode = "in quotes" => u.mode = "\""
         /\ z.mode = "escape" => u.mode = "word"
<1>1. Turns(x, LexChar(x, c)) /\ Turns(y, LexChar(y, c))
  BY LexTurn
<1>2. /\ x.mode \in {"gap", "word", "'", "\"", "in quotes", "escape"}
      /\ y.mode \in {"gap", "word", "'", "\"", "in quotes", "escape"}
  BY DEF Lexes, Quotes
<1> DEFINE u == LexChar(x, c)
           v == LexChar(y, c)
<1> HIDE DEF u, v
<1>3. Turns(x, u) /\ Turns(y, v)
  BY <1>1 DEF u, v
<1>4. SameModes(u, v)
  BY <1>2, <1>3 DEF SameModes, Outside
<1>5. QED
  BY <1>4 DEF u, v

\* Whitespace outside quotes leaves shlex there, and does not lead there from
\* inside quotes.
LEMMA SpaceTurn ==
  ASSUME NEW x \in Lexes, NEW c \in Chars, c \in Space
  PROVE  Outside(LexChar(x, c)) <=> Outside(x) \/ x.mode = "escape"
<1> DEFINE u == LexChar(x, c)
<1>1. c \notin Quotes /\ c # "\\"
  BY DEF Space, Blank, Quotes
<1>2. /\ Outside(x) => Outside(u)
      /\ x.mode = "'" => u.mode = "'"
      /\ x.mode = "\"" => u.mode = "\""
      /\ x.mode = "in quotes" => u.mode = "\""
      /\ x.mode = "escape" => u.mode = "word"
  BY <1>1, LexTurn DEF Quotes
<1>3. x.mode \in {"gap", "word", "'", "\"", "in quotes", "escape"}
  BY DEF Lexes, Quotes
<1> HIDE DEF u
<1>4. QED
  BY <1>2, <1>3 DEF Outside, u

\* A text between whitespace that shlex can split is split without it too,
\* unless a backslash escapes some of it.
LEMMA StripSplits ==
  ASSUME NEW t \in Seq(Chars), NeverEscapes(t), Splits(t)
  PROVE  Splits(Strip(t))
<1>0. Len(t) \in Nat /\ SubSeq(t, 1, Len(t)) = t
  BY LenProperties, SubSeqFull
<1>1. PICK a \in 1..(Len(t) + 1), b \in 0..Len(t) :
           /\ a <= b + 1 /\ Strip(t) = SubSeq(t, a, b)
           /\ \A i \in 1..(a - 1) : t[i] \in Space
           /\ \A i \in (b + 1)..Len(t) : t[i] \in Space
  BY StripIs
<1> DEFINE M == {j \in Nat : j <= Len(t) - b => Outside(Lex(SubSeq(t, 1, Len(t) - j)))}
<1>2. Outside(Lex(SubSeq(t, 1, b)))
  <2>1. 0 \in M
    <3>1. Outside(Lex(SubSeq(t, 1, Len(t) - 0)))
      <4>1. Len(t) - 0 = Len(t)
        BY <1>0
      <4>2. QED
        BY <1>0, <4>1 DEF Splits
    <3>2. QED
      BY <3>1
  <2>2. ASSUME NEW j \in Nat, j \in M PROVE j + 1 \in M
    <3> SUFFICES ASSUME j + 1 <= Len(t) - b PROVE Outside(Lex(SubSeq(t, 1, Len(t) - (j + 1))))
      OBVIOUS
    <3> DEFINE k == Len(t) - (j + 1)
    <3>1. /\ k \in (1 - 1)..(Len(t) - 1) /\ k + 1 = Len(t) - j
          /\ k + 1 \in (b + 1)..Len(t) /\ 1 \in 1..(Len(t) + 1)
          /\ k \in 0..Len(t)
      BY <1>0
    <3>2. Outside(Lex(SubSeq(t, 1, k + 1)))
      <4>1. j <= Len(t) - b
        BY <1>0
      <4>2. QED
        BY <2>2, <3>1, <4>1
    <3> HIDE DEF k
    <3>3. /\ Lex(SubSeq(t, 1, k)) \in Lexes /\ t[k + 1] \in Chars
          /\ Lex(SubSeq(t, 1, k + 1)) = LexChar(Lex(SubSeq(t, 1, k)), t[k + 1])
      BY <3>1, LexGrows
    <3>4. Lex(SubSeq(t, 1, k)).mode # "escape"
      BY <3>1 DEF NeverEscapes
    <3>5. t[k + 1] \in Space
      BY <1>1, <3>1
    <3>6. Outside(Lex(SubSeq(t, 1, k)))
      BY <3>2, <3>3, <3>4, <3>5, SpaceTurn
    <3>7. QED
      BY <3>6 DEF k
  <2> HIDE DEF M
  <2>3. Len(t) - b \in Nat /\ Len(t) - (Len(t) - b) = b
    BY <1>0
  <2>4. Len(t) - b \in M
    BY <2>1, <2>2, <2>3, Induction
  <2>5. QED
    BY <2>3, <2>4 DEF M
<1> DEFINE N == {k \in Nat : k <= a - 1 => Outside(Lex(SubSeq(t, 1, k)))}
<1>3. Outside(Lex(SubSeq(t, 1, a - 1)))
  <2>1. 0 \in N
    <3>1. SubSeq(t, 1, 0) = <<>>
      BY SubSeqEmpty
    <3>2. Outside(Lex(<<>>))
      BY LexEmpty DEF LexStart, Outside
    <3>3. Outside(Lex(SubSeq(t, 1, 0)))
      BY <3>1, <3>2
    <3>4. QED
      BY <3>3
  <2>2. ASSUME NEW k \in Nat, k \in N PROVE k + 1 \in N
    <3> SUFFICES ASSUME k + 1 <= a - 1 PROVE Outside(Lex(SubSeq(t, 1, k + 1)))
      OBVIOUS
    <3>1. k \in (1 - 1)..(Len(t) - 1) /\ 1 \in 1..(Len(t) + 1) /\ k <= a - 1 /\ k + 1 \in 1..(a - 1)
      BY <1>0
    <3>2. /\ Lex(SubSeq(t, 1, k)) \in Lexes /\ t[k + 1] \in Chars
          /\ Lex(SubSeq(t, 1, k + 1)) = LexChar(Lex(SubSeq(t, 1, k)), t[k + 1])
      BY <3>1, LexGrows
    <3>3. Outside(Lex(SubSeq(t, 1, k))) /\ t[k + 1] \in Space
      BY <1>1, <2>2, <3>1
    <3>4. QED
      BY <3>2, <3>3, SpaceTurn
  <2> HIDE DEF N
  <2>3. a - 1 \in N
    BY <1>0, <2>1, <2>2, Induction
  <2>4. QED
    BY <1>0, <2>3 DEF N
<1> DEFINE Q == {j \in Nat : a - 1 + j <= b =>
                   SameModes(Lex(SubSeq(t, 1, a - 1 + j)), Lex(SubSeq(t, a, a - 1 + j)))}
<1>4. SameModes(Lex(SubSeq(t, 1, b)), Lex(SubSeq(t, a, b)))
  <2>1. 0 \in Q
    <3>1. SubSeq(t, a, a - 1 + 0) = <<>> /\ a - 1 + 0 = a - 1
      BY <1>0, SubSeqEmpty
    <3>2. Outside(Lex(<<>>))
      BY LexEmpty DEF LexStart, Outside
    <3>3. SameModes(Lex(SubSeq(t, 1, a - 1 + 0)), Lex(SubSeq(t, a, a - 1 + 0)))
      BY <1>3, <3>1, <3>2 DEF SameModes
    <3>4. QED
      BY <3>3
  <2>2. ASSUME NEW j \in Nat, j \in Q PROVE j + 1 \in Q
    <3> SUFFICES ASSUME a - 1 + (j + 1) <= b
                 PROVE  SameModes(Lex(SubSeq(t, 1, a - 1 + (j + 1))),
                           Lex(SubSeq(t, a, a - 1 + (j + 1))))
      OBVIOUS
    <3> DEFINE k == a - 1 + j
    <3>1. k \in (1 - 1)..(Len(t) - 1) /\ k \in (a - 1)..(Len(t) - 1) /\ 1 \in 1..(Len(t) + 1)
          /\ a - 1 + (j + 1) = k + 1 /\ k <= b
      BY <1>0
    <3>2. SameModes(Lex(SubSeq(t, 1, k)), Lex(SubSeq(t, a, k)))
      BY <2>2, <3>1
    <3> HIDE DEF k
    <3>3. /\ Lex(SubSeq(t, 1, k)) \in Lexes /\ t[k + 1] \in Chars
          /\ Lex(SubSeq(t, 1, k + 1)) = LexChar(Lex(SubSeq(t, 1, k)), t[k + 1])
          /\ Lex(SubSeq(t, a, k)) \in Lexes
          /\ Lex(SubSeq(t, a, k + 1)) = LexChar(Lex(SubSeq(t, a, k)), t[k + 1])
      BY <3>1, LexGrows
    <3>4. SameModes(Lex(SubSeq(t, 1, k + 1)), Lex(SubSeq(t, a, k + 1)))
      BY <3>2, <3>3, ModeTurn
    <3>5. QED
      BY <3>1, <3>4
  <2> HIDE DEF Q
  <2>3. b - a + 1 \in Nat /\ a - 1 + (b - a + 1) = b
    BY <1>0, <1>1
  <2>4. b - a + 1 \in Q
    BY <2>1, <2>2, <2>3, Induction
  <2>5. QED
    BY <2>3, <2>4 DEF Q
<1>5. QED
  BY <1>1, <1>2, <1>4 DEF SameModes, Splits, Outside

\* The words of split() when the text ends here.
WordsOf(lex) == IF lex.mode = "word" THEN Append(lex.words, lex.word) ELSE lex.words

\* Blanks outside quotes end a word, or change nothing.
LEMMA BlankTurn ==
  ASSUME NEW x \in Lexes, NEW c \in Chars, c \in Blank, Outside(x)
  PROVE  /\ LexChar(x, c) = IF x.mode = "gap" THEN x
                            ELSE [mode |-> "gap", word |-> <<>>, words |-> Append(x.words, x.word)]
         /\ Outside(LexChar(x, c)) /\ WordsOf(LexChar(x, c)) = WordsOf(x)
<1>1. c \notin Quotes /\ c # "\\"
  BY DEF Blank, Quotes
<1>2. CASE x.mode = "gap"
  <2>1. LexChar(x, c) = x
    BY <1>2 DEF LexChar, Outside, Quotes, Blank, Lexes
  <2>2. QED
    BY <1>2, <2>1
<1>3. CASE x.mode = "word"
  <2>1. LexChar(x, c) = [mode |-> "gap", word |-> <<>>, words |-> Append(x.words, x.word)]
    BY <1>3 DEF LexChar, Outside, Quotes, Blank, Lexes
  <2>2. /\ LexChar(x, c).mode = "gap"
        /\ LexChar(x, c).words = Append(x.words, x.word)
    BY <2>1
  <2>3. Outside(LexChar(x, c)) /\ WordsOf(LexChar(x, c)) = WordsOf(x)
    BY <1>3, <2>2 DEF Outside, WordsOf
  <2>4. QED
    BY <1>3, <2>1, <2>3
<1>4. QED
  BY <1>2, <1>3 DEF Outside

\* Blanks before a text change nothing.
LEMMA LeadingBlanks ==
  ASSUME NEW t \in Seq(Chars), NEW a \in 1..(Len(t) + 1), \A i \in 1..(a - 1) : t[i] \in Blank,
         NEW b \in (a - 1)..Len(t)
  PROVE  Lex(SubSeq(t, 1, b)) = Lex(SubSeq(t, a, b))
<1>0. Len(t) \in Nat
  BY LenProperties
<1> DEFINE Starts(k) == Lex(SubSeq(t, 1, k)) = LexStart
           N == {k \in Nat : k <= a - 1 => Starts(k)}
<1>1. Starts(a - 1)
  <2>1. 0 \in N
    <3>1. SubSeq(t, 1, 0) = <<>>
      BY SubSeqEmpty
    <3>2. Starts(0)
      BY <3>1, LexEmpty
    <3>3. QED
      BY <3>2
  <2>2. ASSUME NEW k \in Nat, k \in N PROVE k + 1 \in N
    <3>1. ASSUME k + 1 <= a - 1 PROVE Starts(k + 1)
      <4>1. /\ k \in (1 - 1)..(Len(t) - 1) /\ 1 \in 1..(Len(t) + 1)
            /\ k <= a - 1 /\ k + 1 \in 1..(a - 1)
        BY <1>0, <3>1
      <4>2. /\ Lex(SubSeq(t, 1, k)) \in Lexes /\ t[k + 1] \in Chars
            /\ Lex(SubSeq(t, 1, k + 1)) = LexChar(Lex(SubSeq(t, 1, k)), t[k + 1])
        BY <4>1, LexGrows
      <4>3. Lex(SubSeq(t, 1, k)) = LexStart /\ t[k + 1] \in Blank
        BY <2>2, <4>1
      <4>4. LexStart.mode = "gap" /\ Outside(LexStart)
        BY DEF LexStart, Outside
      <4>5. QED
        BY <4>2, <4>3, <4>4, BlankTurn
    <3> HIDE DEF Starts
    <3>2. QED
      BY <3>1
  <2> HIDE DEF N
  <2>3. a - 1 \in N
    BY <1>0, <2>1, <2>2, Induction
  <2>4. QED
    BY <1>0, <2>3 DEF N
<1> DEFINE Same(j) == Lex(SubSeq(t, 1, a - 1 + j)) = Lex(SubSeq(t, a, a - 1 + j))
           Q == {j \in Nat : a - 1 + j <= b => Same(j)}
<1>2. Same(b - a + 1)
  <2>1. 0 \in Q
    <3>1. SubSeq(t, a, a - 1 + 0) = <<>> /\ a - 1 + 0 = a - 1
      BY <1>0, SubSeqEmpty
    <3>2. Same(0)
      BY <1>1, <3>1, LexEmpty
    <3>3. QED
      BY <3>2
  <2>2. ASSUME NEW j \in Nat, j \in Q PROVE j + 1 \in Q
    <3>1. ASSUME a - 1 + (j + 1) <= b PROVE Same(j + 1)
      <4> DEFINE k == a - 1 + j
      <4>1. k \in (1 - 1)..(Len(t) - 1) /\ k \in (a - 1)..(Len(t) - 1) /\ 1 \in 1..(Len(t) + 1)
            /\ a - 1 + (j + 1) = k + 1 /\ k <= b
        BY <1>0, <3>1
      <4>2. Lex(SubSeq(t, 1, k)) = Lex(SubSeq(t, a, k))
        BY <2>2, <4>1
      <4> HIDE DEF k
      <4>3. /\ Lex(SubSeq(t, 1, k + 1)) = LexChar(Lex(SubSeq(t, 1, k)), t[k + 1])
            /\ Lex(SubSeq(t, a, k + 1)) = LexChar(Lex(SubSeq(t, a, k)), t[k + 1])
        BY <4>1, LexGrows
      <4>4. QED
        BY <4>1, <4>2, <4>3
    <3> HIDE DEF Same
    <3>2. QED
      BY <3>1
  <2> HIDE DEF Q
  <2>3. b - a + 1 \in Nat /\ a - 1 + (b - a + 1) = b
    BY <1>0
  <2>4. b - a + 1 \in Q
    BY <2>1, <2>2, <2>3, Induction
  <2>5. QED
    BY <2>3, <2>4 DEF Q
<1>3. a - 1 + (b - a + 1) = b
  BY <1>0
<1>4. QED
  BY <1>2, <1>3

\* Blanks after a text change nothing either, if it ends outside quotes.
LEMMA TrailingBlanks ==
  ASSUME NEW t \in Seq(Chars), NEW b \in 0..Len(t), \A i \in (b + 1)..Len(t) : t[i] \in Blank,
         Splits(SubSeq(t, 1, b))
  PROVE  Splits(t) /\ Split(t) = Split(SubSeq(t, 1, b))
<1>0. Len(t) \in Nat /\ SubSeq(t, 1, Len(t)) = t
  BY LenProperties, SubSeqFull
<1> DEFINE lex(k) == Lex(SubSeq(t, 1, k))
           Same(j) == Outside(lex(b + j)) /\ WordsOf(lex(b + j)) = WordsOf(lex(b))
           N == {j \in Nat : b + j <= Len(t) => Same(j)}
<1>1. 0 \in N
  <2>1. b + 0 = b
    BY <1>0
  <2>2. Same(0)
    BY <2>1 DEF Splits
  <2>3. QED
    BY <2>2
<1>2. ASSUME NEW j \in Nat, j \in N PROVE j + 1 \in N
  <2>1. ASSUME b + (j + 1) <= Len(t) PROVE Same(j + 1)
    <3> DEFINE k == b + j
    <3>1. k \in (1 - 1)..(Len(t) - 1) /\ 1 \in 1..(Len(t) + 1) /\ k <= Len(t)
          /\ b + (j + 1) = k + 1 /\ k + 1 \in (b + 1)..Len(t)
      BY <1>0, <2>1
    <3>2. Outside(lex(k)) /\ WordsOf(lex(k)) = WordsOf(lex(b))
      BY <1>2, <3>1
    <3> HIDE DEF k
    <3>3. lex(k) \in Lexes /\ t[k + 1] \in Chars /\ lex(k + 1) = LexChar(lex(k), t[k + 1])
      BY <3>1, LexGrows
    <3>4. t[k + 1] \in Blank
      BY <3>1
    <3> HIDE DEF lex
    <3>5. Outside(lex(k + 1)) /\ WordsOf(lex(k + 1)) = WordsOf(lex(b))
      BY <3>2, <3>3, <3>4, BlankTurn
    <3>6. QED
      BY <3>1, <3>5
  <2> HIDE DEF Same
  <2>2. QED
    BY <2>1
<1>3. Same(Len(t) - b)
  <2> HIDE DEF N
  <2>1. Len(t) - b \in Nat /\ b + (Len(t) - b) = Len(t)
    BY <1>0
  <2>2. Len(t) - b \in N
    BY <1>1, <1>2, <2>1, Induction
  <2>3. QED
    BY <2>1, <2>2 DEF N
<1>4. b + (Len(t) - b) = Len(t)
  BY <1>0
<1>5. Outside(Lex(t)) /\ WordsOf(Lex(t)) = WordsOf(Lex(SubSeq(t, 1, b)))
  BY <1>0, <1>3, <1>4
<1>6. QED
  BY <1>5 DEF Splits, Split, WordsOf

\* strip() does not change the words, unless it takes the space after a
\* backslash or a form feed.
LEMMA StripSameWords ==
  ASSUME NEW t \in Seq(Chars), Splits(Strip(t)),
         Cardinality({j \in DOMAIN t : t[j] = "\f"})
           = Cardinality({j \in DOMAIN Strip(t) : Strip(t)[j] = "\f"})
  PROVE  Splits(t) /\ Split(t) = Split(Strip(t))
<1>0. Len(t) \in Nat
  BY LenProperties
<1>1. PICK a \in 1..(Len(t) + 1), b \in 0..Len(t) :
           /\ a <= b + 1 /\ Strip(t) = SubSeq(t, a, b)
           /\ \A i \in 1..(a - 1) : t[i] \in Space
           /\ \A i \in (b + 1)..Len(t) : t[i] \in Space
  BY StripIs
<1>2. \A i \in 1..Len(t) : t[i] = "\f" => i \in a..b
  BY <1>1, FormFeedsKept
<1>3. \A i \in 1..(a - 1) : t[i] \in Blank
  BY <1>0, <1>1, <1>2 DEF Space
<1>4. \A i \in (b + 1)..Len(t) : t[i] \in Blank
  BY <1>0, <1>1, <1>2 DEF Space
<1>5. Lex(SubSeq(t, 1, b)) = Lex(Strip(t))
  <2>1. b \in (a - 1)..Len(t)
    BY <1>0, <1>1
  <2>2. QED
    BY <1>1, <1>3, <2>1, LeadingBlanks
<1>6. Splits(SubSeq(t, 1, b)) /\ Split(SubSeq(t, 1, b)) = Split(Strip(t))
  BY <1>5 DEF Splits, Split
<1>7. QED
  BY <1>4, <1>6, TrailingBlanks

-----------------------------------------------------------------------------
(* A tool's name at the start of a segment.                                *)

\* What a turn does to the word and to the words, as far as two states of the
\* same mode share it.
LEMMA TurnTogether ==
  ASSUME NEW x \in Lexes, NEW y \in Lexes, NEW c \in Chars,
         x.mode = y.mode \/ (Outside(x) /\ Outside(y) /\ c \notin Blank)
  PROVE  LET u == LexChar(x, c)
             v == LexChar(y, c)
         IN \/ /\ x.mode = "word" /\ y.mode = "word" /\ c \in Blank
               /\ u = [mode |-> "gap", word |-> <<>>, words |-> Append(x.words, x.word)]
               /\ v = [mode |-> "gap", word |-> <<>>, words |-> Append(y.words, y.word)]
            \/ /\ u.mode = v.mode /\ u.words = x.words /\ v.words = y.words
               /\ \E e \in Seq(Letters) : u.word = x.word \o e /\ v.word = y.word \o e
<1> DEFINE u == LexChar(x, c)
           v == LexChar(y, c)
           Modes == Quotes \cup {"gap", "word", "escape", "in quotes"}
           Adds(e) == /\ u.mode = v.mode /\ u.words = x.words /\ v.words = y.words
                      /\ u.word = x.word \o e /\ v.word = y.word \o e
<1>0. /\ x.word \in Seq(Letters) /\ y.word \in Seq(Letters)
      /\ x.mode \in Modes /\ y.mode \in Modes
  BY DEF Lexes
<1>1. /\ <<>> \in Seq(Letters) /\ <<c>> \in Seq(Letters) /\ <<"\\", c>> \in Seq(Letters)
      /\ c \in Letters
  <2>1. c \in Letters /\ "\\" \in Letters
    BY DEF Letters
  <2>2. QED
    BY <2>1, ShortSequences
<1>2. /\ x.word \o <<>> = x.word /\ y.word \o <<>> = y.word
      /\ Append(x.word, c) = x.word \o <<c>> /\ Append(y.word, c) = y.word \o <<c>>
  BY <1>0, <1>1, ConcatEmptySeq, AppendIsConcat
<1>4. CASE x.mode = y.mode /\ x.mode = "gap" /\ c \in Blank
  <2>1. u = x /\ v = y
    BY <1>4 DEF LexChar, Outside, Quotes, Blank
  <2>2. Adds(<<>>)
    BY <1>0, <1>2, <1>4, <2>1
  <2>3. QED
    BY <1>1, <2>2
<1>5. CASE x.mode = y.mode /\ x.mode = "word" /\ c \in Blank
  <2>1. /\ u = [mode |-> "gap", word |-> <<>>, words |-> Append(x.words, x.word)]
        /\ v = [mode |-> "gap", word |-> <<>>, words |-> Append(y.words, y.word)]
    BY <1>5 DEF LexChar, Outside, Quotes, Blank
  <2>2. QED
    BY <1>5, <2>1
<1>6. CASE Outside(x) /\ Outside(y) /\ c \in Quotes
  <2>1. u = [x EXCEPT !.mode = c] /\ v = [y EXCEPT !.mode = c]
    BY <1>6 DEF LexChar, Outside, Quotes, Blank
  <2>2. Adds(<<>>)
    BY <1>2, <2>1 DEF Lexes
  <2>3. QED
    BY <1>1, <1>6, <2>2
<1>7. CASE Outside(x) /\ Outside(y) /\ c = "\\"
  <2>1. u = [x EXCEPT !.mode = "escape"] /\ v = [y EXCEPT !.mode = "escape"]
    BY <1>7 DEF LexChar, Outside, Quotes, Blank
  <2>2. Adds(<<>>)
    BY <1>2, <2>1 DEF Lexes
  <2>3. QED
    BY <1>1, <2>2
<1>8. CASE \/ x.mode = y.mode /\ x.mode = "escape"
           \/ Outside(x) /\ Outside(y) /\ c \notin Blank \cup Quotes \cup {"\\"}
  <2>1. /\ u = [x EXCEPT !.mode = "word", !.word = Append(@, c)]
        /\ v = [y EXCEPT !.mode = "word", !.word = Append(@, c)]
    BY <1>8 DEF LexChar, Outside, Quotes, Blank
  <2>2. Adds(<<c>>)
    BY <1>2, <2>1 DEF Lexes
  <2>3. QED
    BY <1>1, <2>2
<1>9. CASE x.mode = y.mode /\ x.mode \in Quotes /\ c = x.mode
  <2>1. u = [x EXCEPT !.mode = "word"] /\ v = [y EXCEPT !.mode = "word"]
    BY <1>9 DEF LexChar, Outside, Quotes, Blank
  <2>2. Adds(<<>>)
    BY <1>2, <2>1 DEF Lexes
  <2>3. QED
    BY <1>1, <2>2
<1>10. CASE x.mode = y.mode /\ x.mode = "\"" /\ c = "\\"
  <2>1. u = [x EXCEPT !.mode = "in quotes"] /\ v = [y EXCEPT !.mode = "in quotes"]
    BY <1>10 DEF LexChar, Outside, Quotes, Blank
  <2>2. Adds(<<>>)
    BY <1>2, <2>1 DEF Lexes
  <2>3. QED
    BY <1>1, <2>2
<1>11. CASE /\ x.mode = y.mode /\ x.mode \in Quotes
            /\ c # x.mode /\ <<x.mode, c>> # <<"\"", "\\">>
  <2>1. u = [x EXCEPT !.word = Append(@, c)] /\ v = [y EXCEPT !.word = Append(@, c)]
    BY <1>11 DEF LexChar, Outside, Quotes, Blank
  <2>2. Adds(<<c>>)
    BY <1>2, <1>11, <2>1 DEF Lexes
  <2>3. QED
    BY <1>1, <1>11, <2>2
<1>12. CASE x.mode = y.mode /\ x.mode = "in quotes"
  <2> DEFINE e == IF c \in {"\\", "\""} THEN <<c>> ELSE <<"\\", c>>
  <2>1. /\ u = [x EXCEPT !.mode = "\"", !.word = @ \o e]
        /\ v = [y EXCEPT !.mode = "\"", !.word = @ \o e]
    BY <1>12 DEF LexChar, Outside, Quotes, Blank
  <2>2. Adds(e)
    BY <2>1 DEF Lexes
  <2>3. e \in Seq(Letters)
    BY <1>1
  <2> HIDE DEF e
  <2>4. QED
    BY <2>2, <2>3
<1>13. QED
  BY <1>0, <1>4, <1>5, <1>6, <1>7, <1>8, <1>9, <1>10, <1>11, <1>12 DEF Outside, Quotes

\* A word that is finished stays the first one.
LEMMA FirstWordStays ==
  ASSUME NEW t \in Seq(Chars), NEW k \in 0..Len(t), Lex(SubSeq(t, 1, k)).words # <<>>
  PROVE  Split(t) # <<>> /\ Head(Split(t)) = Head(Lex(SubSeq(t, 1, k)).words)
<1>0. Len(t) \in Nat /\ SubSeq(t, 1, Len(t)) = t
  BY LenProperties, SubSeqFull
<1> DEFINE lex(i) == Lex(SubSeq(t, 1, i))
           Stays(i) == lex(i).words # <<>> /\ Head(lex(i).words) = Head(lex(k).words)
           N == {j \in Nat : k + j <= Len(t) => Stays(k + j)}
<1>1. 0 \in N
  <2>1. Stays(k + 0)
    <3>1. k + 0 = k
      BY <1>0
    <3>2. QED
      BY <3>1
  <2>2. QED
    BY <2>1
<1>2. ASSUME NEW j \in Nat, j \in N PROVE j + 1 \in N
  <2>1. ASSUME k + (j + 1) <= Len(t) PROVE Stays(k + (j + 1))
    <3> DEFINE i == k + j
    <3>1. i \in (1 - 1)..(Len(t) - 1) /\ 1 \in 1..(Len(t) + 1) /\ i <= Len(t) /\ k + (j + 1) = i + 1
      BY <1>0, <2>1
    <3>2. Stays(i)
      BY <1>2, <3>1
    <3> HIDE DEF i
    <3>3. lex(i) \in Lexes /\ t[i + 1] \in Chars /\ lex(i + 1) = LexChar(lex(i), t[i + 1])
      BY <3>1, LexGrows
    <3>4. \/ lex(i + 1).words = lex(i).words
          \/ lex(i + 1).words = Append(lex(i).words, lex(i).word)
      BY <3>3, TurnTogether
    <3>5. /\ lex(i).words \in Seq(Seq(Letters)) /\ lex(i).word \in Seq(Letters)
      BY <3>3 DEF Lexes
    <3>6. ASSUME lex(i + 1).words = lex(i).words PROVE Stays(i + 1)
      BY <3>2, <3>6
    <3>7. ASSUME lex(i + 1).words = Append(lex(i).words, lex(i).word) PROVE Stays(i + 1)
      <4>1. ASSUME NEW ws \in Seq(Seq(Letters)), NEW d \in Seq(Letters), ws # <<>>
            PROVE  Append(ws, d) # <<>> /\ Head(Append(ws, d)) = Head(ws)
        <5>1. Append(ws, d) # <<>>
          BY AppendProperties
        <5>2. Head(Append(ws, d)) = Head(ws)
          BY <4>1, HeadTailAppend
        <5>3. QED
          BY <5>1, <5>2
      <4>2. QED
        BY <3>2, <3>5, <3>7, <4>1
    <3>8. Stays(i + 1)
      BY <3>4, <3>6, <3>7
    <3>9. QED
      BY <3>1, <3>8
  <2> HIDE DEF Stays
  <2>2. QED
    BY <2>1
<1>3. Stays(Len(t))
  <2> HIDE DEF N, Stays
  <2>1. Len(t) - k \in Nat /\ k + (Len(t) - k) = Len(t)
    BY <1>0
  <2>2. Len(t) - k \in N
    BY <1>1, <1>2, <2>1, Induction
  <2>3. QED
    BY <2>1, <2>2 DEF N
<1>4. Lex(t).words # <<>> /\ Head(Lex(t).words) = Head(lex(k).words)
  BY <1>0, <1>3
<1>5. /\ Lex(t) \in Lexes /\ Lex(t).words \in Seq(Seq(Letters)) /\ Lex(t).word \in Seq(Letters)
  BY LexIsTyped DEF Lexes
<1>6. QED
  BY <1>4, <1>5, HeadTailAppend, AppendProperties DEF Split

\* No character of w is special for shlex, but for a blank.
Plain(w) == ToSet(w) \cap (Quotes \cup {"\\"}) = {}

\* The words of a text are sequences of characters, with a backslash perhaps.
LEMMA SplitIsTyped == \A t \in Seq(Chars) : Split(t) \in Seq(Seq(Letters))
<1> TAKE t \in Seq(Chars)
<1>1. /\ Lex(t).words \in Seq(Seq(Letters)) /\ Lex(t).word \in Seq(Letters)
  BY LexIsTyped DEF Lexes
<1>2. QED
  BY <1>1, AppendProperties DEF Split

\* shlex reads a name at the start of a text as it is written.
LEMMA NameIsWord ==
  ASSUME NEW t \in Seq(Chars), Split(t) # <<>>,
         IsPrefix(Head(Split(t)), t), Plain(Head(Split(t))),
         t # <<>> => t[1] \notin Blank
  PROVE  LET w == Head(Split(t))
             lex == Lex(SubSeq(t, 1, Len(w)))
         IN /\ w \in Seq(Letters) /\ Len(w) \in 0..Len(t)
            /\ lex \in Lexes /\ lex.word = w /\ lex.words = <<>>
            /\ lex.mode = IF w = <<>> THEN "gap" ELSE "word"
<1> DEFINE w == Head(Split(t))
           lex(k) == Lex(SubSeq(t, 1, k))
           Reads(k) == /\ lex(k).word = SubSeq(t, 1, k) /\ lex(k).words = <<>>
                       /\ lex(k).mode = IF k = 0 THEN "gap" ELSE "word"
           N == {k \in Nat : k <= Len(w) => Reads(k)}
<1>0. /\ Len(t) \in Nat /\ \A i \in 1..Len(t) : t[i] \in Chars
  BY LenProperties, ElementOfSeq
<1>1. w \in Seq(Letters)
  BY SplitIsTyped, HeadTailProperties
<1>2. Len(w) \in Nat /\ Len(w) <= Len(t) /\ SubSeq(t, 1, Len(w)) = w
  <2>1. Len(w) \in Nat /\ SubSeq(w, 1, Len(w)) = w
    BY <1>1, LenProperties, SubSeqFull
  <2> HIDE DEF w
  <2>2. Len(w) <= Len(t) /\ SubSeq(w, 1, Len(w)) = SubSeq(t, 1, Len(w))
    BY DEF IsPrefix, w
  <2>3. QED
    BY <2>1, <2>2
<1> HIDE DEF w
<1>3. \A i \in 1..Len(w) : t[i] = w[i] /\ t[i] \notin Quotes /\ t[i] # "\\"
  <2> TAKE i \in 1..Len(w)
  <2>1. 1 \in Int /\ Len(w) \in Int /\ \A j \in 1..Len(w) : t[j] \in Chars
    BY <1>0, <1>2
  <2>2. \A j \in 1..(Len(w) - 1 + 1) : SubSeq(t, 1, Len(w))[j] = t[1 + j - 1]
    BY <2>1, SubSeqProperties
  <2>3. w[i] = t[i]
    BY <1>2, <2>1, <2>2
  <2>4. w[i] \in ToSet(w)
    BY <1>1, LenProperties DEF ToSet
  <2>5. QED
    BY <2>3, <2>4 DEF Plain, w
<1>4. 0 \in N
  <2>1. SubSeq(t, 1, 0) = <<>>
    BY SubSeqEmpty
  <2>2. LexStart.word = <<>> /\ LexStart.words = <<>> /\ LexStart.mode = "gap"
    BY DEF LexStart
  <2>3. Reads(0)
    BY <2>1, <2>2, LexEmpty
  <2>4. QED
    BY <2>3
<1>5. ASSUME NEW k \in Nat, k \in N PROVE k + 1 \in N
  <2>1. ASSUME k + 1 <= Len(w) PROVE Reads(k + 1)
    <3>1. k \in (1 - 1)..(Len(t) - 1) /\ 1 \in 1..(Len(t) + 1) /\ k <= Len(w) /\ k + 1 \in 1..Len(w)
          /\ k + 1 \in 0..Len(t)
      BY <1>0, <1>2, <2>1
    <3>2. Reads(k)
      BY <1>5, <3>1
    <3>3. lex(k) \in Lexes /\ t[k + 1] \in Chars /\ lex(k + 1) = LexChar(lex(k), t[k + 1])
      BY <3>1, LexGrows
    <3>4. SubSeq(t, 1, k) \in Seq(Chars) /\ SubSeq(t, 1, k + 1) = Append(SubSeq(t, 1, k), t[k + 1])
      BY <3>1, Grows
    <3>5. t[k + 1] \notin Quotes /\ t[k + 1] # "\\"
      BY <1>3, <3>1
    <3>6. CASE t[k + 1] \in Blank
      <4>1. k # 0
        <5>1. k = 0 => t[1] \in Blank /\ t # <<>>
          BY <1>0, <3>1, <3>6
        <5>2. QED
          BY <5>1
      <4>2. lex(k).mode = "word" /\ Outside(lex(k))
        BY <3>2, <4>1 DEF Outside
      <4>3. lex(k + 1).words = Append(lex(k).words, lex(k).word)
        <5> HIDE DEF lex
        <5>1. lex(k + 1) = [mode |-> "gap", word |-> <<>>,
                            words |-> Append(lex(k).words, lex(k).word)]
          BY <3>3, <3>6, <4>2, BlankTurn
        <5>2. QED
          BY <5>1
      <4>4. lex(k + 1).words = <<SubSeq(t, 1, k)>>
        BY <3>2, <4>3
      <4>5. w = SubSeq(t, 1, k)
        <5>1. lex(k + 1).words # <<>> /\ Head(lex(k + 1).words) = SubSeq(t, 1, k)
          <6>1. \A x : <<x>> # <<>> /\ Head(<<x>>) = x
            OBVIOUS
          <6> HIDE DEF lex
          <6>2. QED
            BY <4>4, <6>1, Zenon
        <5>2. QED
          BY <3>1, <5>1, FirstWordStays DEF w
      <4>6. Len(SubSeq(t, 1, k)) = k
        <5>1. 1 \in Int /\ k \in Int /\ \A i \in 1..k : t[i] \in Chars
          BY <1>0, <3>1
        <5>2. Len(SubSeq(t, 1, k)) = IF 1 <= k THEN k - 1 + 1 ELSE 0
          BY <5>1, SubSeqProperties
        <5>3. QED
          BY <4>1, <5>2
      <4>7. QED
        BY <3>1, <4>5, <4>6
    <3>7. CASE t[k + 1] \notin Blank
      <4>1. Outside(lex(k))
        BY <3>2 DEF Outside
      <4> HIDE DEF lex
      <4>2. lex(k + 1) = [lex(k) EXCEPT !.mode = "word", !.word = Append(@, t[k + 1])]
        BY <3>3, <3>5, <3>7, <4>1 DEF LexChar, Outside, Quotes
      <4>3. /\ lex(k + 1).mode = "word" /\ lex(k + 1).words = lex(k).words
            /\ lex(k + 1).word = Append(lex(k).word, t[k + 1])
        BY <3>3, <4>2 DEF Lexes
      <4>4. k + 1 # 0
        OBVIOUS
      <4>5. QED
        BY <3>2, <3>4, <4>3, <4>4
    <3>8. QED
      BY <3>6, <3>7
  <2> HIDE DEF Reads
  <2>2. QED
    BY <2>1
<1>6. Reads(Len(w))
  <2> HIDE DEF N, Reads
  <2>1. Len(w) \in N
    BY <1>2, <1>4, <1>5, Induction
  <2>2. QED
    BY <1>2, <2>1 DEF N
<1>7. SubSeq(t, 1, Len(w)) \in Seq(Chars)
  <2>1. 1 \in Int /\ Len(w) \in Int /\ \A j \in 1..Len(w) : t[j] \in Chars
    BY <1>0, <1>2
  <2>2. QED
    BY <2>1, SubSeqProperties
<1>8. lex(Len(w)) \in Lexes
  BY <1>7, LexIsTyped
<1>9. Len(w) = 0 <=> w = <<>>
  BY <1>1, EmptySeq
<1>10. QED
  BY <1>1, <1>2, <1>6, <1>8, <1>9 DEF w

\* How shlex reads a text that starts with the name w (x), and what it reads of
\* the text after the name (y).
AfterName(w, x, y) ==
  \/ /\ x.words = <<>> /\ y.words = <<>> /\ x.word = w \o y.word
     /\ x.mode = y.mode \/ (x.mode = "word" /\ y.mode = "gap" /\ y.word = <<>>)
  \/ /\ x.words # <<>> /\ x.mode = y.mode /\ x.word = y.word
     /\ y.words \in {Tail(x.words), << <<>> >> \o Tail(x.words)}

\* Words are added at the end of both.
LEMMA TailGrows ==
  ASSUME NEW S, NEW s \in Seq(S), NEW r \in Seq(S), NEW d \in S, NEW e \in S, s # <<>>,
         r \in {Tail(s), <<d>> \o Tail(s)}
  PROVE  Append(s, e) # <<>> /\ Append(r, e) \in {Tail(Append(s, e)), <<d>> \o Tail(Append(s, e))}
<1>1. Tail(s) \in Seq(S)
  BY HeadTailProperties
<1>2. Append(s, e) # <<>> /\ Tail(Append(s, e)) = Append(Tail(s), e)
  BY AppendProperties, HeadTailAppend
<1>3. <<d>> \in Seq(S) /\ <<e>> \in Seq(S)
  BY ShortSequences
<1>4. CASE r = Tail(s)
  BY <1>2, <1>4
<1>5. CASE r = <<d>> \o Tail(s)
  <2>1. Append(r, e) = (<<d>> \o Tail(s)) \o <<e>>
    BY <1>5, AppendIsConcat
  <2>2. (<<d>> \o Tail(s)) \o <<e>> = <<d>> \o (Tail(s) \o <<e>>)
    BY <1>1, <1>3, ConcatAssociative
  <2>3. Tail(s) \o <<e>> = Append(Tail(s), e)
    BY <1>1, AppendIsConcat
  <2>4. QED
    BY <1>2, <2>1, <2>2, <2>3
<1>6. QED
  BY <1>4, <1>5

\* The word that ends first is the name.
LEMMA FirstWordEnds ==
  ASSUME NEW w \in Seq(Letters), NEW x \in Lexes, NEW y \in Lexes, AfterName(w, x, y),
         x.words = <<>>, x.mode = "word", Outside(y), x.word = w
  PROVE  LET ended == Append(x.words, x.word)
         IN ended # <<>> /\ y.word = <<>> /\ WordsOf(y) \in {Tail(ended), << <<>> >> \o Tail(ended)}
<1> DEFINE ended == Append(x.words, x.word)
<1>1. x.word \in Seq(Letters) /\ x.words \in Seq(Seq(Letters)) /\ y.word \in Seq(Letters)
  BY DEF Lexes
<1>2. y.words = <<>> /\ x.word = w \o y.word
  BY DEF AfterName
<1>3. y.word = <<>>
  BY <1>1, <1>2, ConcatEqualIffEmpty
<1>4. ended # <<>> /\ Tail(ended) = <<>>
  BY <1>1, AppendProperties, HeadTailAppend
<1>5. <<>> \in Seq(Seq(Letters)) /\ << <<>> >> \in Seq(Seq(Letters)) /\ <<>> \in Seq(Letters)
  <2>1. <<>> \in Seq(Letters)
    BY ShortSequences
  <2>2. QED
    BY <2>1, ShortSequences
<1>6. << <<>> >> \o <<>> = << <<>> >>
  BY <1>5, ConcatEmptySeq
<1>7. Append(<<>>, <<>>) = << <<>> >>
  BY <1>5, ConcatEmptySeq, AppendIsConcat
<1>8. WordsOf(y) = IF y.mode = "word" THEN << <<>> >> ELSE <<>>
  BY <1>2, <1>3, <1>7 DEF WordsOf
<1>9. QED
  BY <1>3, <1>4, <1>6, <1>8

\* A turn of both keeps it so, when the first word to end is the name.
LEMMA AfterNameTurn ==
  ASSUME NEW w \in Seq(Letters), NEW x \in Lexes, NEW y \in Lexes, NEW c \in Chars,
         AfterName(w, x, y),
         LexChar(x, c).words # <<>> => Head(LexChar(x, c).words) = w
  PROVE  AfterName(w, LexChar(x, c), LexChar(y, c))
<1> DEFINE u == LexChar(x, c)
           v == LexChar(y, c)
<1>0. /\ x.word \in Seq(Letters) /\ x.words \in Seq(Seq(Letters))
      /\ y.word \in Seq(Letters) /\ y.words \in Seq(Seq(Letters)) /\ <<>> \in Seq(Letters)
  BY ShortSequences DEF Lexes
<1>1. CASE x.words = <<>>
  <2>0. /\ y.words = <<>> /\ x.word = w \o y.word
        /\ x.mode = y.mode \/ (x.mode = "word" /\ y.mode = "gap" /\ y.word = <<>>)
    BY <1>1 DEF AfterName
  <2>1. CASE x.mode = "word" /\ c \in Blank
    <3>1. u = [mode |-> "gap", word |-> <<>>, words |-> Append(x.words, x.word)]
      BY <2>1, BlankTurn DEF Outside
    <3>2. x.word = w
      <4>1. u.words = Append(x.words, x.word)
        BY <3>1
      <4>2. Append(x.words, x.word) # <<>> /\ Head(Append(x.words, x.word)) = x.word
        BY <1>0, <1>1, AppendProperties, HeadTailAppend
      <4>3. QED
        BY <4>1, <4>2
    <3>3. Outside(y)
      BY <2>0, <2>1 DEF Outside
    <3>4. /\ Append(x.words, x.word) # <<>> /\ y.word = <<>>
          /\ WordsOf(y) \in {Tail(Append(x.words, x.word)),
                             << <<>> >> \o Tail(Append(x.words, x.word))}
      BY <1>1, <2>1, <3>2, <3>3, FirstWordEnds
    <3>5. v = IF y.mode = "gap" THEN y
              ELSE [mode |-> "gap", word |-> <<>>, words |-> Append(y.words, y.word)]
      BY <2>1, <3>3, BlankTurn
    <3>6. v.mode = "gap" /\ v.word = <<>> /\ v.words = WordsOf(y)
      BY <3>3, <3>4, <3>5 DEF WordsOf, Outside
    <3>7. u.mode = "gap" /\ u.word = <<>> /\ u.words = Append(x.words, x.word)
      BY <3>1
    <3>8. QED
      BY <3>4, <3>6, <3>7 DEF AfterName
  <2>2. CASE ~(x.mode = "word" /\ c \in Blank)
    <3>1. x.mode = y.mode \/ (Outside(x) /\ Outside(y) /\ c \notin Blank)
      BY <2>0, <2>2 DEF Outside
    <3>2. /\ u.mode = v.mode /\ u.words = x.words /\ v.words = y.words
          /\ \E e \in Seq(Letters) : u.word = x.word \o e /\ v.word = y.word \o e
      BY <2>2, <3>1, TurnTogether
    <3>3. PICK e \in Seq(Letters) : u.word = x.word \o e /\ v.word = y.word \o e
      BY <3>2
    <3>4. u.word = w \o v.word
      <4>1. \A d \in Seq(Letters) : (w \o d) \o e = w \o (d \o e)
        BY <3>3, ConcatAssociative, SMTT(30)
      <4>2. QED
        BY <1>0, <2>0, <3>3, <4>1, Zenon
    <3>5. QED
      BY <1>1, <2>0, <3>2, <3>4 DEF AfterName
  <2>3. QED
    BY <2>1, <2>2
<1>2. CASE x.words # <<>>
  <2>0. /\ x.mode = y.mode /\ x.word = y.word
        /\ y.words \in {Tail(x.words), << <<>> >> \o Tail(x.words)}
    BY <1>2 DEF AfterName
  <2>1. CASE /\ x.mode = "word" /\ c \in Blank
             /\ u = [mode |-> "gap", word |-> <<>>, words |-> Append(x.words, x.word)]
             /\ v = [mode |-> "gap", word |-> <<>>, words |-> Append(y.words, y.word)]
    <3>1. /\ u.mode = v.mode /\ u.word = v.word
          /\ u.words = Append(x.words, x.word) /\ v.words = Append(y.words, x.word)
      BY <2>0, <2>1
    <3>2. /\ Append(x.words, x.word) # <<>>
          /\ Append(y.words, x.word) \in {Tail(Append(x.words, x.word)),
                                          << <<>> >> \o Tail(Append(x.words, x.word))}
      BY <1>0, <1>2, <2>0, TailGrows
    <3>3. QED
      BY <3>1, <3>2 DEF AfterName
  <2>2. CASE /\ u.mode = v.mode /\ u.words = x.words /\ v.words = y.words
             /\ \E e \in Seq(Letters) : u.word = x.word \o e /\ v.word = y.word \o e
    <3>1. u.word = v.word
      BY <2>0, <2>2
    <3>2. QED
      BY <1>2, <2>0, <2>2, <3>1 DEF AfterName
  <2>3. QED
    BY <2>0, <2>1, <2>2, TurnTogether, ZenonT(30)
<1>3. QED
  BY <1>1, <1>2

\* At the end of the text.
LEMMA AfterNameEnds ==
  ASSUME NEW w \in Seq(Letters), NEW x \in Lexes, NEW y \in Lexes, AfterName(w, x, y),
         Outside(x), WordsOf(x) # <<>>, Head(WordsOf(x)) = w
  PROVE  /\ Outside(y)
         /\ WordsOf(y) \in {Tail(WordsOf(x)), << <<>> >> \o Tail(WordsOf(x))}
<1>0. /\ x.word \in Seq(Letters) /\ x.words \in Seq(Seq(Letters))
      /\ y.word \in Seq(Letters) /\ y.words \in Seq(Seq(Letters)) /\ <<>> \in Seq(Letters)
  BY ShortSequences DEF Lexes
<1>1. Outside(y)
  BY DEF AfterName, Outside
<1>2. CASE x.words = <<>>
  <2>1. x.mode = "word" /\ WordsOf(x) = Append(x.words, x.word)
    BY <1>2 DEF Outside, WordsOf
  <2>2. x.word = w
    BY <1>0, <1>2, <2>1, HeadTailAppend
  <2>3. QED
    BY <1>1, <1>2, <2>1, <2>2, FirstWordEnds
<1>3. CASE x.words # <<>>
  <2>0. /\ x.mode = y.mode /\ x.word = y.word
        /\ y.words \in {Tail(x.words), << <<>> >> \o Tail(x.words)}
    BY <1>3 DEF AfterName
  <2>1. CASE x.mode = "word"
    <3>1. WordsOf(x) = Append(x.words, x.word) /\ WordsOf(y) = Append(y.words, x.word)
      BY <2>0, <2>1 DEF WordsOf
    <3>2. Append(y.words, x.word) \in {Tail(Append(x.words, x.word)),
                                       << <<>> >> \o Tail(Append(x.words, x.word))}
      BY <1>0, <1>3, <2>0, TailGrows
    <3>3. QED
      BY <1>1, <3>1, <3>2
  <2>2. CASE x.mode = "gap"
    BY <1>1, <2>0, <2>2 DEF WordsOf
  <2>3. QED
    BY <2>1, <2>2 DEF Outside
<1>4. QED
  BY <1>2, <1>3

\* The words after the name, read from the text after it.
LEMMA RestAfterName ==
  ASSUME NEW t \in Seq(Chars), Splits(t), Split(t) # <<>>,
         IsPrefix(Head(Split(t)), t), Plain(Head(Split(t))),
         t # <<>> => t[1] \notin Blank
  PROVE  LET rest == SubSeq(t, Len(Head(Split(t))) + 1, Len(t))
         IN /\ rest \in Seq(Chars) /\ Splits(rest)
            /\ Split(rest) \in {Tail(Split(t)), << <<>> >> \o Tail(Split(t))}
<1> DEFINE w == Head(Split(t))
           n == Len(w)
           rest == SubSeq(t, n + 1, Len(t))
           x(k) == Lex(SubSeq(t, 1, k))
           y(k) == Lex(SubSeq(t, n + 1, k))
           Kept(j) == AfterName(w, x(n + j), y(n + j))
           N == {j \in Nat : n + j <= Len(t) => Kept(j)}
<1>0. Len(t) \in Nat /\ SubSeq(t, 1, Len(t)) = t
  BY LenProperties, SubSeqFull
<1>1. /\ w \in Seq(Letters) /\ n \in 0..Len(t)
      /\ x(n) \in Lexes /\ x(n).word = w /\ x(n).words = <<>>
      /\ x(n).mode = IF w = <<>> THEN "gap" ELSE "word"
  BY NameIsWord
<1> HIDE DEF w, n
<1>2. 0 \in N
  <2>1. n + 0 = n /\ SubSeq(t, n + 1, n) = <<>>
    BY <1>0, <1>1, SubSeqEmpty
  <2>2. y(n) = LexStart
    BY <2>1, LexEmpty
  <2>3. w \o <<>> = w
    BY <1>1, ConcatEmptySeq
  <2>4. AfterName(w, x(n), y(n))
    BY <1>1, <2>2, <2>3 DEF AfterName, LexStart
  <2>5. QED
    BY <2>1, <2>4
<1>3. ASSUME NEW j \in Nat, j \in N PROVE j + 1 \in N
  <2>1. ASSUME n + (j + 1) <= Len(t) PROVE Kept(j + 1)
    <3> DEFINE k == n + j
    <3>1. /\ k \in (1 - 1)..(Len(t) - 1) /\ k \in ((n + 1) - 1)..(Len(t) - 1)
          /\ 1 \in 1..(Len(t) + 1) /\ n + 1 \in 1..(Len(t) + 1)
          /\ n + (j + 1) = k + 1 /\ k <= Len(t) /\ k + 1 \in 0..Len(t)
      BY <1>0, <1>1, <2>1
    <3>2. AfterName(w, x(k), y(k))
      BY <1>3, <3>1
    <3> HIDE DEF k
    <3>3. x(k) \in Lexes /\ t[k + 1] \in Chars /\ x(k + 1) = LexChar(x(k), t[k + 1])
      BY <3>1, LexGrows
    <3>4. y(k) \in Lexes /\ y(k + 1) = LexChar(y(k), t[k + 1])
      BY <3>1, LexGrows
    <3>5. x(k + 1).words # <<>> => Head(x(k + 1).words) = w
      BY <3>1, FirstWordStays DEF w
    <3> HIDE DEF x, y
    <3>6. AfterName(w, x(k + 1), y(k + 1))
      BY <1>1, <3>2, <3>3, <3>4, <3>5, AfterNameTurn
    <3>7. QED
      BY <3>1, <3>6
  <2> HIDE DEF Kept
  <2>2. QED
    BY <2>1
<1>4. AfterName(w, x(Len(t)), y(Len(t)))
  <2>1. Len(t) - n \in Nat /\ n + (Len(t) - n) = Len(t)
    BY <1>0, <1>1
  <2>2. Len(t) - n \in N
    <3> HIDE DEF N
    <3>1. QED
      BY <1>2, <1>3, <2>1, Induction
  <2>3. Kept(Len(t) - n)
    <3> HIDE DEF Kept
    <3>1. QED
      BY <2>1, <2>2
  <2>4. QED
    BY <2>1, <2>3
<1>5. rest \in Seq(Chars)
  <2>1. n + 1 \in Int /\ Len(t) \in Int /\ \A i \in (n + 1)..Len(t) : t[i] \in Chars
    BY <1>0, <1>1, ElementOfSeq
  <2>2. QED
    BY <2>1, SubSeqProperties
<1>6. x(Len(t)) = Lex(t) /\ y(Len(t)) = Lex(rest)
  BY <1>0
<1>7. Lex(t) \in Lexes /\ Lex(rest) \in Lexes
  BY <1>5, LexIsTyped
<1>8. WordsOf(Lex(t)) = Split(t) /\ WordsOf(Lex(rest)) = Split(rest)
  BY DEF WordsOf, Split
<1>9. w = Head(Split(t)) /\ Outside(Lex(t))
  BY DEF w, Splits
<1> HIDE DEF rest
<1>10. /\ Outside(Lex(rest))
       /\ WordsOf(Lex(rest)) \in {Tail(WordsOf(Lex(t))), << <<>> >> \o Tail(WordsOf(Lex(t)))}
  <2>1. AfterName(w, Lex(t), Lex(rest))
    BY <1>4, <1>6
  <2>2. WordsOf(Lex(t)) # <<>> /\ Head(WordsOf(Lex(t))) = w
    BY <1>8, <1>9
  <2>3. QED
    BY <1>1, <1>7, <1>9, <2>1, <2>2, AfterNameEnds
<1>11. QED
  BY <1>5, <1>8, <1>10 DEF Splits, rest, n, w

\* lstrip() does not change the words of a text without form feeds.
LEMMA LStripSameWords ==
  ASSUME NEW t \in Seq(Chars), \A i \in 1..Len(t) : t[i] # "\f"
  PROVE  Lex(LStrip(t)) = Lex(t)
<1>0. Len(t) \in Nat /\ SubSeq(t, 1, Len(t)) = t
  BY LenProperties, SubSeqFull
<1>1. PICK a \in 1..(Len(t) + 1) : /\ LStrip(t) = SubSeq(t, a, Len(t))
                                   /\ \A i \in 1..(a - 1) : t[i] \in Space
  BY LStripIs
<1>2. \A i \in 1..(a - 1) : t[i] \in Blank
  BY <1>0, <1>1 DEF Space
<1>3. Len(t) \in (a - 1)..Len(t)
  BY <1>0, <1>1
<1>4. QED
  BY <1>0, <1>1, <1>2, <1>3, LeadingBlanks

\* What strip() leaves is characters of the text, the first of them no blank.
LEMMA StripIsTyped ==
  ASSUME NEW t \in Seq(Chars)
  PROVE  /\ Strip(t) \in Seq(Chars) /\ ToSet(Strip(t)) \subseteq ToSet(t)
         /\ Strip(t) # <<>> => Strip(t)[1] \notin Blank
<1>0. Len(t) \in Nat /\ DOMAIN t = 1..Len(t) /\ \A i \in 1..Len(t) : t[i] \in Chars
  BY LenProperties, ElementOfSeq
<1>1. PICK a \in 1..(Len(t) + 1), b \in 0..Len(t) :
           /\ a <= b + 1 /\ Strip(t) = SubSeq(t, a, b)
           /\ a <= b => t[a] \notin Space
  BY StripIs
<1>2. /\ SubSeq(t, a, b) \in Seq(Chars)
      /\ Len(SubSeq(t, a, b)) = IF a <= b THEN b - a + 1 ELSE 0
      /\ \A i \in 1..(b - a + 1) : SubSeq(t, a, b)[i] = t[a + i - 1]
  <2>1. a \in Int /\ b \in Int /\ \A i \in a..b : t[i] \in Chars
    BY <1>0, <1>1
  <2>2. QED
    BY <2>1, SubSeqProperties
<1>3. /\ DOMAIN SubSeq(t, a, b) = 1..(b - a + 1)
      /\ \A i \in 1..(b - a + 1) : a + i - 1 \in DOMAIN t
  <2>1. DOMAIN SubSeq(t, a, b) = 1..Len(SubSeq(t, a, b))
    BY <1>2, LenProperties
  <2>2. Len(SubSeq(t, a, b)) = b - a + 1
    BY <1>0, <1>1, <1>2
  <2>3. QED
    BY <1>0, <1>1, <2>1, <2>2
<1>4. ToSet(SubSeq(t, a, b)) \subseteq ToSet(t)
  BY <1>2, <1>3 DEF ToSet
<1>5. ASSUME SubSeq(t, a, b) # <<>> PROVE SubSeq(t, a, b)[1] \notin Blank
  <2>1. a <= b
    BY <1>2, <1>5, EmptySeq
  <2>2. SubSeq(t, a, b)[1] = t[a]
    BY <1>0, <1>1, <1>2, <2>1
  <2>3. QED
    BY <1>1, <2>1, <2>2 DEF Space
<1>6. QED
  BY <1>1, <1>2, <1>4, <1>5

\* A segment that names a tool, read as it was typed, as it was filtered, and
\* from the end of the name on.
LEMMA StageWords ==
  ASSUME NEW typed \in Seq(Chars), "\f" \notin ToSet(typed),
         Splits(Strip(typed)), Split(Strip(typed)) # <<>>,
         IsPrefix(Head(Split(Strip(typed))), Strip(typed)), Plain(Head(Split(Strip(typed))))
  PROVE  /\ Split(typed) = Split(Strip(typed))
         /\ Splits(ArgsOf(Strip(typed)))
         /\ Split(ArgsOf(Strip(typed))) \in {Tail(Split(typed)), << <<>> >> \o Tail(Split(typed))}
<1> DEFINE t == Strip(typed)
           rest == SubSeq(t, Len(Head(Split(t))) + 1, Len(t))
<1>1. /\ t \in Seq(Chars) /\ ToSet(t) \subseteq ToSet(typed)
      /\ t # <<>> => t[1] \notin Blank
  BY StripIsTyped
<1>2. Split(typed) = Split(t)
  <2>1. {j \in DOMAIN typed : typed[j] = "\f"} = {}
    BY DEF ToSet
  <2>2. {j \in DOMAIN t : t[j] = "\f"} = {}
    BY <1>1 DEF ToSet
  <2>3. QED
    BY <2>1, <2>2, StripSameWords
<1> HIDE DEF t
<1>3. Splits(t) /\ Split(t) # <<>> /\ IsPrefix(Head(Split(t)), t) /\ Plain(Head(Split(t)))
  BY DEF t
<1>4. /\ rest \in Seq(Chars) /\ Splits(rest)
      /\ Split(rest) \in {Tail(Split(t)), << <<>> >> \o Tail(Split(t))}
  BY <1>1, <1>3, RestAfterName
<1>5. \A i \in 1..Len(rest) : rest[i] # "\f"
  <2>1. /\ Len(t) \in Nat /\ DOMAIN t = 1..Len(t) /\ \A i \in 1..Len(t) : t[i] \in Chars
        /\ Len(Head(Split(t))) \in 0..Len(t)
    <3>1. Len(Head(Split(t))) \in 0..Len(t)
      BY <1>1, <1>3, NameIsWord
    <3>2. QED
      BY <1>1, <3>1, LenProperties, ElementOfSeq
  <2> DEFINE m == Len(Head(Split(t))) + 1
  <2>2. m \in 1..(Len(t) + 1)
    BY <2>1
  <2> HIDE DEF m
  <2>3. m \in Int /\ Len(t) \in Int /\ \A i \in m..Len(t) : t[i] \in Chars
    BY <2>1, <2>2
  <2>4. /\ Len(SubSeq(t, m, Len(t))) = IF m <= Len(t) THEN Len(t) - m + 1 ELSE 0
        /\ \A i \in 1..(Len(t) - m + 1) : SubSeq(t, m, Len(t))[i] = t[m + i - 1]
    BY <2>3, SubSeqProperties
  <2>5. \A i \in 1..(Len(t) - m + 1) : m + i - 1 \in DOMAIN t
    BY <2>1, <2>2
  <2>6. \A i \in DOMAIN t : t[i] # "\f"
    BY <1>1 DEF ToSet
  <2>7. \A i \in 1..Len(SubSeq(t, m, Len(t))) : SubSeq(t, m, Len(t))[i] # "\f"
    BY <2>1, <2>2, <2>4, <2>5, <2>6
  <2>8. QED
    BY <2>7 DEF m
<1> HIDE DEF rest
<1>6. Lex(LStrip(rest)) = Lex(rest)
  BY <1>4, <1>5, LStripSameWords
<1>7. ArgsOf(t) = LStrip(rest)
  BY DEF ArgsOf, rest
<1>8. Splits(ArgsOf(t)) /\ Split(ArgsOf(t)) = Split(rest)
  BY <1>4, <1>6, <1>7 DEF Splits, Split
<1>9. QED
  BY <1>2, <1>4, <1>8 DEF t
=============================================================================
