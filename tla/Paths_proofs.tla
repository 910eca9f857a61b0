---------------------------- MODULE Paths_proofs ----------------------------
(***************************************************************************)
(* Proofs about the path check of filter.py, for every alphabet, paths of  *)
(* any length and every set of path rules: however a path is spelled, the  *)
(* check rejects it just if it leads where a rule denies.  The loops of    *)
(* the filter are folds; each is shown to be its loop, one turn per        *)
(* character or component, and what it computes follows along them.        *)
(***************************************************************************)
EXTENDS Commands_proofs

\* Paths and patterns, as text.
Texts == Seq(Chars)

\* What is between two slashes.
Parts == Seq(Chars \ {"/"})

\* What split("/") gives: at least one component, none with a slash in it.
Cuts == {parts \in Seq(Parts) : parts # <<>>}

\* A sequence without its last element, and that element.
LEMMA FrontProperties ==
  ASSUME NEW S, NEW s \in Seq(S), s # <<>>
  PROVE  /\ Front(s) \in Seq(S) /\ Last(s) \in S /\ s = Append(Front(s), Last(s))
         /\ Len(Front(s)) = Len(s) - 1
<1>1. PICK r \in Seq(S), e \in S : s = Append(r, e)
  BY SequenceEmptyOrAppend
<1>2. /\ Len(r) \in Nat /\ Len(s) = Len(r) + 1 /\ s[Len(r) + 1] = e
      /\ \A i \in 1..Len(r) : r[i] \in S /\ s[i] = r[i]
  BY <1>1, LenProperties, AppendProperties, ElementOfSeq
<1>3. Last(s) = e
  BY <1>2 DEF Last
<1>4. Front(s) = r
  <2>1. /\ 1 \in Int /\ Len(r) \in Int /\ Len(s) - 1 = Len(r) /\ Len(r) - 1 + 1 = Len(r)
        /\ \A i \in 1..Len(r) : s[i] \in S /\ 1 + i - 1 = i
    BY <1>2
  <2>2. /\ SubSeq(s, 1, Len(r)) \in Seq(S)
        /\ Len(SubSeq(s, 1, Len(r))) = IF 1 <= Len(r) THEN Len(r) - 1 + 1 ELSE 0
        /\ \A i \in 1..(Len(r) - 1 + 1) : SubSeq(s, 1, Len(r))[i] = s[1 + i - 1]
    BY <2>1, SubSeqProperties
  <2>3. Len(SubSeq(s, 1, Len(r))) = Len(r)
    BY <1>2, <2>2
  <2>4. \A i \in 1..Len(SubSeq(s, 1, Len(r))) : SubSeq(s, 1, Len(r))[i] = r[i]
    BY <1>2, <2>1, <2>2, <2>3
  <2>5. SubSeq(s, 1, Len(r)) = r
    BY <2>2, <2>3, <2>4, SeqEqual
  <2>6. QED
    BY <2>1, <2>5 DEF Front
<1>5. QED
  BY <1>1, <1>2, <1>3, <1>4

\* The last element taken off again.
LEMMA FrontOfAppend ==
  ASSUME NEW S, NEW s \in Seq(S), NEW e \in S
  PROVE  Append(s, e) # <<>> /\ Front(Append(s, e)) = s /\ Last(Append(s, e)) = e
<1>1. /\ Append(s, e) \in Seq(S) /\ Append(s, e) # <<>>
  BY AppendProperties
<1>2. /\ Front(Append(s, e)) \in Seq(S) /\ Last(Append(s, e)) \in S
      /\ Append(s, e) = Append(Front(Append(s, e)), Last(Append(s, e)))
  BY <1>1, FrontProperties
<1>3. \A f \in Seq(S), l \in S : Append(s, e) = Append(f, l) => f = s /\ l = e
  BY AppendInjective
<1>4. QED
  BY <1>1, <1>2, <1>3

\* Induction along sequences, for the members of a set.
LEMMA SeqInduction ==
  ASSUME NEW S, NEW T, <<>> \in T, \A s \in Seq(S), e \in S : s \in T => Append(s, e) \in T
  PROVE  \A s \in Seq(S) : s \in T
<1> DEFINE N == {n \in Nat : \A s \in Seq(S) : Len(s) = n => s \in T}
<1>1. 0 \in N
  <2>1. \A s \in Seq(S) : Len(s) = 0 => s = <<>>
    BY EmptySeq
  <2>2. QED
    BY <2>1
<1>2. ASSUME NEW n \in Nat, n \in N PROVE n + 1 \in N
  <2>1. ASSUME NEW s \in Seq(S), Len(s) = n + 1 PROVE s \in T
    <3>1. s # <<>>
      BY <2>1, EmptySeq
    <3>2. PICK r \in Seq(S), e \in S : s = Append(r, e)
      BY <3>1, SequenceEmptyOrAppend
    <3>3. Len(r) \in Nat /\ Len(s) = Len(r) + 1
      BY <3>2, LenProperties, AppendProperties
    <3>4. r \in T
      BY <1>2, <2>1, <3>2, <3>3
    <3>5. QED
      BY <3>2, <3>4
  <2>2. QED
    BY <2>1
<1>3. \A n \in Nat : n \in N
  <2> HIDE DEF N
  <2>1. QED
    BY <1>1, <1>2, Induction
<1>4. QED
  <2> TAKE s \in Seq(S)
  <2>1. Len(s) \in Nat
    BY LenProperties
  <2>2. QED
    BY <1>3, <2>1

\* A component is a text without slashes.
LEMMA PartIsText == \A name \in Parts : name \in Texts /\ "/" \notin ToSet(name)
<1> TAKE name \in Parts
<1>1. name \in Seq(Chars \ {"/"}) /\ Chars \ {"/"} \subseteq Chars
  BY DEF Parts
<1>2. name \in Texts
  BY <1>1 DEF Texts
<1>3. \A i \in DOMAIN name : name[i] # "/"
  BY <1>1
<1>4. QED
  BY <1>2, <1>3 DEF ToSet

-----------------------------------------------------------------------------
(* The four loops of filter.py that the proofs go along.                   *)

\* split("/"): one turn gives components again.
LEMMA CutTurn ==
  /\ << <<>> >> \in Cuts
  /\ \A parts \in Cuts, c \in Chars : Cut(parts, c) \in Cuts
<1>1. << <<>> >> \in Cuts
  <2>1. <<>> \in Parts
    BY ShortSequences DEF Parts
  <2>2. << <<>> >> \in Seq(Parts)
    BY <2>1, ShortSequences
  <2>3. QED
    BY <2>2 DEF Cuts
<1>2. ASSUME NEW parts \in Cuts, NEW c \in Chars PROVE Cut(parts, c) \in Cuts
  <2>1. parts \in Seq(Parts) /\ parts # <<>> /\ <<>> \in Parts
    BY ShortSequences DEF Cuts, Parts
  <2>2. Front(parts) \in Seq(Parts) /\ Last(parts) \in Parts
    BY <2>1, FrontProperties
  <2>3. c # "/" => Append(Last(parts), c) \in Parts
    BY <2>2, AppendProperties DEF Parts
  <2>4. \A s \in Seq(Parts), e \in Parts : Append(s, e) \in Cuts
    <3> TAKE s \in Seq(Parts), e \in Parts
    <3>1. Append(s, e) \in Seq(Parts) /\ Append(s, e) # <<>>
      BY AppendProperties
    <3>2. QED
      BY <3>1 DEF Cuts
  <2>5. QED
    BY <2>1, <2>2, <2>3, <2>4 DEF Cut
<1>3. QED
  BY <1>1, <1>2

\* Components is the loop over the characters of a path.
LEMMA CutAlong ==
  ASSUME NEW t \in Seq(Chars)
  PROVE  LET F == [p \in Cuts \X Chars |-> Cut(p[1], p[2])]
         IN \E iter : Components(t) = iter[1..Len(t)] /\ Along(iter, Cuts, F, << <<>> >>, t)
<1> DEFINE F == [p \in Cuts \X Chars |-> Cut(p[1], p[2])]
           Unfolds(iter) == iter = [s \in SUBSET DOMAIN t |->
             IF s = {} THEN << <<>> >> ELSE Cut(iter[s \ {Max(s)}], t[Max(s)])]
           result == CHOOSE iter : Unfolds(iter)
<1>1. Len(t) \in Nat /\ DOMAIN t = 1..Len(t) /\ \A i \in 1..Len(t) : t[i] \in Chars
  BY LenProperties, ElementOfSeq
<1>2. \A x \in Cuts, c \in Chars : Cut(x, c) \in Cuts /\ F[<<x, c>>] = Cut(x, c)
  BY CutTurn
<1>3. F \in [Cuts \X Chars -> Cuts]
  BY <1>2
<1>4. \A s \in SUBSET DOMAIN t : s # {} => Max(s) \in s /\ t[Max(s)] \in Chars
  BY <1>1, Largest
<1>5. Unfolds(result)
  <2> HIDE DEF F
  <2>1. PICK iter \in [SUBSET (1..Len(t)) -> Cuts] : Folds(iter, F, << <<>> >>, t, Len(t))
    BY <1>3, CutTurn, FoldExists
  <2>2. Unfolds(iter)
    BY <1>1, <1>2, <1>4, <2>1 DEF Folds
  <2>3. QED
    BY <2>2, Zenon
<1> HIDE DEF result
<1>6. result[{}] = << <<>> >>
  BY <1>5
<1>7. \A s \in SUBSET DOMAIN t : s # {} =>
         (result[s \ {Max(s)}] \in Cuts =>
            result[s] = F[<<result[s \ {Max(s)}], t[Max(s)]>>])
  <2> HIDE DEF F
  <2>1. QED
    BY <1>2, <1>4, <1>5, ZenonT(30)
<1>8. Along(result, Cuts, F, << <<>> >>, t)
  <2> HIDE DEF F
  <2>1. QED
    BY <1>3, <1>6, <1>7, CutTurn, FoldAlong
<1>9. Components(t) = result[1..Len(t)]
  BY <1>1 DEF Components, FoldLeft, MapThenFoldSet, result
<1>10. QED
  BY <1>8, <1>9

\* A character more is one turn of split("/") more.
LEMMA CutAppend ==
  ASSUME NEW t \in Seq(Chars), NEW c \in Chars
  PROVE  Components(t) \in Cuts /\ Components(Append(t, c)) = Cut(Components(t), c)
<1> DEFINE F == [p \in Cuts \X Chars |-> Cut(p[1], p[2])]
<1>1. \A x \in Cuts : Cut(x, c) \in Cuts /\ F[<<x, c>>] = Cut(x, c)
  BY CutTurn
<1>2. F \in [Cuts \X Chars -> Cuts]
  BY CutTurn
<1>3. Append(t, c) \in Seq(Chars)
  BY AppendProperties
<1>4. PICK short : Components(t) = short[1..Len(t)] /\ Along(short, Cuts, F, << <<>> >>, t)
  BY CutAlong
<1>5. PICK long : /\ Components(Append(t, c)) = long[1..Len(Append(t, c))]
                  /\ Along(long, Cuts, F, << <<>> >>, Append(t, c))
  BY <1>3, CutAlong
<1> HIDE DEF F
<1>6. /\ short[1..Len(t)] \in Cuts
      /\ long[1..Len(Append(t, c))] = F[<<short[1..Len(t)], c>>]
  <2>1. AlongBoth(short, long, Cuts, Chars, F, << <<>> >>, t, c)
    BY <1>2, <1>4, <1>5, CutTurn DEF AlongBoth
  <2>2. QED
    BY <2>1, AlongAppend
<1>7. QED
  BY <1>1, <1>4, <1>5, <1>6

\* The empty path has one component, the empty one.
LEMMA CutEmpty ==
  Components(<<>>) = << <<>> >>
<1>1. <<>> \in Seq(Chars) /\ Len(<<>>) = 0
  BY ShortSequences
<1>2. PICK iter : Components(<<>>) = iter[1..Len(<<>>)] /\ iter[1..0] = << <<>> >>
  BY <1>1, CutAlong DEF Along
<1>3. QED
  BY <1>1, <1>2

\* normpath: one turn gives components again.
LEMMA TakeTurn ==
  /\ <<>> \in Seq(Parts)
  /\ \A parts \in Seq(Parts), name \in Parts : Take(<<"/">>, parts, name) \in Seq(Parts)
<1>1. ASSUME NEW parts \in Seq(Parts), NEW name \in Parts
      PROVE  Take(<<"/">>, parts, name) \in Seq(Parts)
  <2>1. Append(parts, name) \in Seq(Parts)
    BY AppendProperties
  <2>2. parts # <<>> => Front(parts) \in Seq(Parts)
    BY FrontProperties
  <2>3. QED
    BY <2>1, <2>2 DEF Take
<1>2. QED
  BY <1>1, ShortSequences

\* NormalComponents is the loop over the components of an absolute path.
LEMMA TakeAlong ==
  ASSUME NEW t \in Seq(Parts)
  PROVE  LET F == [p \in Seq(Parts) \X Parts |-> Take(<<"/">>, p[1], p[2])]
         IN \E iter : /\ NormalComponents(<<"/">>, t) = iter[1..Len(t)]
                       /\ Along(iter, Seq(Parts), F, <<>>, t)
<1> DEFINE F == [p \in Seq(Parts) \X Parts |-> Take(<<"/">>, p[1], p[2])]
           Unfolds(iter) == iter = [s \in SUBSET DOMAIN t |->
             IF s = {} THEN <<>> ELSE Take(<<"/">>, iter[s \ {Max(s)}], t[Max(s)])]
           result == CHOOSE iter : Unfolds(iter)
<1>1. Len(t) \in Nat /\ DOMAIN t = 1..Len(t) /\ \A i \in 1..Len(t) : t[i] \in Parts
  BY LenProperties, ElementOfSeq
<1>2. \A x \in Seq(Parts), c \in Parts :
        Take(<<"/">>, x, c) \in Seq(Parts) /\ F[<<x, c>>] = Take(<<"/">>, x, c)
  BY TakeTurn
<1>3. F \in [Seq(Parts) \X Parts -> Seq(Parts)]
  BY <1>2
<1>4. \A s \in SUBSET DOMAIN t : s # {} => Max(s) \in s /\ t[Max(s)] \in Parts
  BY <1>1, Largest
<1>5. Unfolds(result)
  <2> HIDE DEF F
  <2>1. PICK iter \in [SUBSET (1..Len(t)) -> Seq(Parts)] : Folds(iter, F, <<>>, t, Len(t))
    BY <1>3, TakeTurn, FoldExists
  <2>2. Unfolds(iter)
    BY <1>1, <1>2, <1>4, <2>1 DEF Folds
  <2>3. QED
    BY <2>2, Zenon
<1> HIDE DEF result
<1>6. result[{}] = <<>>
  BY <1>5
<1>7. \A s \in SUBSET DOMAIN t : s # {} =>
         (result[s \ {Max(s)}] \in Seq(Parts) =>
            result[s] = F[<<result[s \ {Max(s)}], t[Max(s)]>>])
  <2> HIDE DEF F
  <2>1. QED
    BY <1>2, <1>4, <1>5, ZenonT(30)
<1>8. Along(result, Seq(Parts), F, <<>>, t)
  <2> HIDE DEF F
  <2>1. QED
    BY <1>3, <1>6, <1>7, TakeTurn, FoldAlong
<1>9. NormalComponents(<<"/">>, t) = result[1..Len(t)]
  BY <1>1 DEF NormalComponents, FoldLeft, MapThenFoldSet, result
<1>10. QED
  BY <1>8, <1>9

\* A component more is one turn of normpath more.
LEMMA TakeAppend ==
  ASSUME NEW t \in Seq(Parts), NEW c \in Parts
  PROVE  /\ NormalComponents(<<"/">>, t) \in Seq(Parts)
         /\ NormalComponents(<<"/">>, Append(t, c)) =
              Take(<<"/">>, NormalComponents(<<"/">>, t), c)
<1> DEFINE F == [p \in Seq(Parts) \X Parts |-> Take(<<"/">>, p[1], p[2])]
<1>1. \A x \in Seq(Parts) : Take(<<"/">>, x, c) \in Seq(Parts) /\ F[<<x, c>>] = Take(<<"/">>, x, c)
  BY TakeTurn
<1>2. F \in [Seq(Parts) \X Parts -> Seq(Parts)]
  BY TakeTurn
<1>3. Append(t, c) \in Seq(Parts)
  BY AppendProperties
<1>4. PICK short : /\ NormalComponents(<<"/">>, t) = short[1..Len(t)]
                   /\ Along(short, Seq(Parts), F, <<>>, t)
  BY TakeAlong
<1>5. PICK long : /\ NormalComponents(<<"/">>, Append(t, c)) = long[1..Len(Append(t, c))]
                  /\ Along(long, Seq(Parts), F, <<>>, Append(t, c))
  BY <1>3, TakeAlong
<1> HIDE DEF F
<1>6. /\ short[1..Len(t)] \in Seq(Parts)
      /\ long[1..Len(Append(t, c))] = F[<<short[1..Len(t)], c>>]
  <2>1. AlongBoth(short, long, Seq(Parts), Parts, F, <<>>, t, c)
    BY <1>2, <1>4, <1>5, TakeTurn DEF AlongBoth
  <2>2. QED
    BY <2>1, AlongAppend
<1>7. QED
  BY <1>1, <1>4, <1>5, <1>6

\* Without components normpath takes none.
LEMMA TakeEmpty ==
  NormalComponents(<<"/">>, <<>>) = <<>>
<1>1. <<>> \in Seq(Parts) /\ Len(<<>>) = 0
  BY ShortSequences
<1>2. PICK iter : NormalComponents(<<"/">>, <<>>) = iter[1..Len(<<>>)] /\ iter[1..0] = <<>>
  BY <1>1, TakeAlong DEF Along
<1>3. QED
  BY <1>1, <1>2

\* "/".join: one turn gives a text again.
LEMMA JoinTurn ==
  /\ <<>> \in Texts
  /\ \A text \in Texts, name \in Parts : Joined(text, name) \in Texts
<1>1. <<>> \in Texts
  BY ShortSequences DEF Texts
<1>2. ASSUME NEW text \in Texts, NEW name \in Parts PROVE Joined(text, name) \in Texts
  <2>1. <<"/">> \in Texts /\ name \in Texts
    BY CommandsAssumption, PartIsText, ShortSequences DEF Texts
  <2>2. text \o <<"/">> \o name \in Texts
    BY <2>1, ConcatProperties DEF Texts
  <2>3. QED
    BY <2>1, <2>2 DEF Joined
<1>3. QED
  BY <1>1, <1>2

\* Join is the loop over the components.
LEMMA JoinAlong ==
  ASSUME NEW t \in Seq(Parts)
  PROVE  LET F == [p \in Texts \X Parts |-> Joined(p[1], p[2])]
         IN \E iter : Join(t) = iter[1..Len(t)] /\ Along(iter, Texts, F, <<>>, t)
<1> DEFINE F == [p \in Texts \X Parts |-> Joined(p[1], p[2])]
           Unfolds(iter) == iter = [s \in SUBSET DOMAIN t |->
             IF s = {} THEN <<>> ELSE Joined(iter[s \ {Max(s)}], t[Max(s)])]
           result == CHOOSE iter : Unfolds(iter)
<1>1. Len(t) \in Nat /\ DOMAIN t = 1..Len(t) /\ \A i \in 1..Len(t) : t[i] \in Parts
  BY LenProperties, ElementOfSeq
<1>2. \A x \in Texts, c \in Parts : Joined(x, c) \in Texts /\ F[<<x, c>>] = Joined(x, c)
  BY JoinTurn
<1>3. F \in [Texts \X Parts -> Texts]
  BY <1>2
<1>4. \A s \in SUBSET DOMAIN t : s # {} => Max(s) \in s /\ t[Max(s)] \in Parts
  BY <1>1, Largest
<1>5. Unfolds(result)
  <2> HIDE DEF F
  <2>1. PICK iter \in [SUBSET (1..Len(t)) -> Texts] : Folds(iter, F, <<>>, t, Len(t))
    BY <1>3, JoinTurn, FoldExists
  <2>2. Unfolds(iter)
    BY <1>1, <1>2, <1>4, <2>1 DEF Folds
  <2>3. QED
    BY <2>2, Zenon
<1> HIDE DEF result
<1>6. result[{}] = <<>>
  BY <1>5
<1>7. \A s \in SUBSET DOMAIN t : s # {} =>
         (result[s \ {Max(s)}] \in Texts =>
            result[s] = F[<<result[s \ {Max(s)}], t[Max(s)]>>])
  <2> HIDE DEF F
  <2>1. QED
    BY <1>2, <1>4, <1>5, ZenonT(30)
<1>8. Along(result, Texts, F, <<>>, t)
  <2> HIDE DEF F
  <2>1. QED
    BY <1>3, <1>6, <1>7, JoinTurn, FoldAlong
<1>9. Join(t) = result[1..Len(t)]
  BY <1>1 DEF Join, FoldLeft, MapThenFoldSet, result
<1>10. QED
  BY <1>8, <1>9

\* A component more is one turn of "/".join more.
LEMMA JoinAppend ==
  ASSUME NEW t \in Seq(Parts), NEW c \in Parts
  PROVE  Join(t) \in Texts /\ Join(Append(t, c)) = Joined(Join(t), c)
<1> DEFINE F == [p \in Texts \X Parts |-> Joined(p[1], p[2])]
<1>1. \A x \in Texts : Joined(x, c) \in Texts /\ F[<<x, c>>] = Joined(x, c)
  BY JoinTurn
<1>2. F \in [Texts \X Parts -> Texts]
  BY JoinTurn
<1>3. Append(t, c) \in Seq(Parts)
  BY AppendProperties
<1>4. PICK short : Join(t) = short[1..Len(t)] /\ Along(short, Texts, F, <<>>, t)
  BY JoinAlong
<1>5. PICK long : /\ Join(Append(t, c)) = long[1..Len(Append(t, c))]
                  /\ Along(long, Texts, F, <<>>, Append(t, c))
  BY <1>3, JoinAlong
<1> HIDE DEF F
<1>6. /\ short[1..Len(t)] \in Texts
      /\ long[1..Len(Append(t, c))] = F[<<short[1..Len(t)], c>>]
  <2>1. AlongBoth(short, long, Texts, Parts, F, <<>>, t, c)
    BY <1>2, <1>4, <1>5, JoinTurn DEF AlongBoth
  <2>2. QED
    BY <2>1, AlongAppend
<1>7. QED
  BY <1>1, <1>4, <1>5, <1>6

\* "/".join of nothing is the empty text.
LEMMA JoinEmpty ==
  Join(<<>>) = <<>>
<1>1. <<>> \in Seq(Parts) /\ Len(<<>>) = 0
  BY ShortSequences
<1>2. PICK iter : Join(<<>>) = iter[1..Len(<<>>)] /\ iter[1..0] = <<>>
  BY <1>1, JoinAlong DEF Along
<1>3. QED
  BY <1>1, <1>2

\* What patterns are made of.
Letter == Chars \cup {"*"}

\* fnmatch: one turn gives lengths of beginnings of the text again.
LEMMA ReachTurn ==
  ASSUME NEW text \in Texts
  PROVE  /\ {0} \in SUBSET (0..Len(text))
         /\ \A lengths \in SUBSET (0..Len(text)), c \in Letter :
              Reach(text, lengths, c) \in SUBSET (0..Len(text))
<1>1. Len(text) \in Nat
  BY LenProperties DEF Texts
<1>2. QED
  BY <1>1 DEF Reach

\* Reached is the loop over the characters of a pattern.
LEMMA ReachAlong ==
  ASSUME NEW text \in Texts, NEW t \in Seq(Letter)
  PROVE  LET F == [p \in (SUBSET (0..Len(text))) \X Letter |-> Reach(text, p[1], p[2])]
         IN \E iter : /\ Reached(text, t) = iter[1..Len(t)]
                       /\ Along(iter, SUBSET (0..Len(text)), F, {0}, t)
<1> DEFINE F == [p \in (SUBSET (0..Len(text))) \X Letter |-> Reach(text, p[1], p[2])]
           Unfolds(iter) == iter = [s \in SUBSET DOMAIN t |->
             IF s = {} THEN {0} ELSE Reach(text, iter[s \ {Max(s)}], t[Max(s)])]
           result == CHOOSE iter : Unfolds(iter)
<1>1. Len(t) \in Nat /\ DOMAIN t = 1..Len(t) /\ \A i \in 1..Len(t) : t[i] \in Letter
  BY LenProperties, ElementOfSeq
<1>2. \A x \in SUBSET (0..Len(text)), c \in Letter :
        Reach(text, x, c) \in SUBSET (0..Len(text)) /\ F[<<x, c>>] = Reach(text, x, c)
  BY ReachTurn
<1>3. F \in [(SUBSET (0..Len(text))) \X Letter -> SUBSET (0..Len(text))]
  BY <1>2
<1>4. \A s \in SUBSET DOMAIN t : s # {} => Max(s) \in s /\ t[Max(s)] \in Letter
  BY <1>1, Largest
<1>5. Unfolds(result)
  <2> HIDE DEF F
  <2>1. PICK iter \in [SUBSET (1..Len(t)) -> SUBSET (0..Len(text))] :
          Folds(iter, F, {0}, t, Len(t))
    BY <1>3, ReachTurn, FoldExists
  <2>2. Unfolds(iter)
    BY <1>1, <1>2, <1>4, <2>1 DEF Folds
  <2>3. QED
    BY <2>2, Zenon
<1> HIDE DEF result
<1>6. result[{}] = {0}
  BY <1>5
<1>7. \A s \in SUBSET DOMAIN t : s # {} =>
         (result[s \ {Max(s)}] \in SUBSET (0..Len(text)) =>
            result[s] = F[<<result[s \ {Max(s)}], t[Max(s)]>>])
  <2> HIDE DEF F
  <2>1. QED
    BY <1>2, <1>4, <1>5, ZenonT(30)
<1>8. Along(result, SUBSET (0..Len(text)), F, {0}, t)
  <2> HIDE DEF F
  <2>1. QED
    BY <1>3, <1>6, <1>7, ReachTurn, FoldAlong
<1>9. Reached(text, t) = result[1..Len(t)]
  BY <1>1 DEF Reached, FoldLeft, MapThenFoldSet, result
<1>10. QED
  BY <1>8, <1>9

\* A pattern that is one character longer is one turn of fnmatch more.
LEMMA ReachAppend ==
  ASSUME NEW text \in Texts, NEW t \in Seq(Letter), NEW c \in Letter
  PROVE  /\ Reached(text, t) \in SUBSET (0..Len(text))
         /\ Reached(text, Append(t, c)) = Reach(text, Reached(text, t), c)
<1> DEFINE F == [p \in (SUBSET (0..Len(text))) \X Letter |-> Reach(text, p[1], p[2])]
<1>1. \A x \in SUBSET (0..Len(text)) :
        Reach(text, x, c) \in SUBSET (0..Len(text)) /\ F[<<x, c>>] = Reach(text, x, c)
  BY ReachTurn
<1>2. F \in [(SUBSET (0..Len(text))) \X Letter -> SUBSET (0..Len(text))]
  BY ReachTurn
<1>3. Append(t, c) \in Seq(Letter)
  BY AppendProperties
<1>4. PICK short : /\ Reached(text, t) = short[1..Len(t)]
                   /\ Along(short, SUBSET (0..Len(text)), F, {0}, t)
  BY ReachAlong
<1>5. PICK long : /\ Reached(text, Append(t, c)) = long[1..Len(Append(t, c))]
                  /\ Along(long, SUBSET (0..Len(text)), F, {0}, Append(t, c))
  BY <1>3, ReachAlong
<1> HIDE DEF F
<1>6. /\ short[1..Len(t)] \in SUBSET (0..Len(text))
      /\ long[1..Len(Append(t, c))] = F[<<short[1..Len(t)], c>>]
  <2>1. AlongBoth(short, long, SUBSET (0..Len(text)), Letter, F, {0}, t, c)
    BY <1>2, <1>4, <1>5, ReachTurn DEF AlongBoth
  <2>2. QED
    BY <2>1, AlongAppend
<1>7. QED
  BY <1>1, <1>4, <1>5, <1>6

\* The empty pattern matches the empty beginning only.
LEMMA ReachEmpty ==
  ASSUME NEW text \in Texts
  PROVE  Reached(text, <<>>) = {0}
<1>1. <<>> \in Seq(Letter) /\ Len(<<>>) = 0
  BY ShortSequences
<1>2. PICK iter : Reached(text, <<>>) = iter[1..Len(<<>>)] /\ iter[1..0] = {0}
  BY <1>1, ReachAlong DEF Along
<1>3. QED
  BY <1>1, <1>2


\* Splitting a path gives at least one component, none with a slash in it.
LEMMA ComponentsAreCuts == \A t \in Texts : Components(t) \in Cuts
<1> TAKE t \in Texts
<1>1. CASE t = <<>>
  BY <1>1, CutEmpty, CutTurn
<1>2. CASE t # <<>>
  <2>1. PICK s \in Texts, c \in Chars : t = Append(s, c)
    BY <1>2, SequenceEmptyOrAppend DEF Texts
  <2>2. QED
    BY <2>1, CutAppend, CutTurn DEF Texts
<1>3. QED
  BY <1>1, <1>2

\* Joining components gives a text.
LEMMA JoinIsText == \A parts \in Seq(Parts) : Join(parts) \in Texts
<1> TAKE parts \in Seq(Parts)
<1>1. CASE parts = <<>>
  BY <1>1, JoinEmpty, JoinTurn
<1>2. CASE parts # <<>>
  <2>1. PICK s \in Seq(Parts), name \in Parts : parts = Append(s, name)
    BY <1>2, SequenceEmptyOrAppend
  <2>2. QED
    BY <2>1, JoinAppend, JoinTurn
<1>3. QED
  BY <1>1, <1>2


-----------------------------------------------------------------------------
(* What normpath leaves of an absolute path is where the path leads.       *)

\* Components that normpath takes as they are.
Proper == {name \in Parts : name \notin {<<>>, <<".">>, <<".", ".">>}}

\* How deep a path is after one component more.
Deeper(depth, name) ==
  CASE name \in {<<>>, <<".">>} -> depth
    [] name = <<".", ".">> -> IF depth = 0 THEN 0 ELSE depth - 1
    [] OTHER -> depth + 1

\* What one turn of normpath does to what it has taken.
TakesOne(s, name, t) ==
  /\ t \in Seq(Proper) /\ Len(t) = Deeper(Len(s), name)
  /\ name \in Proper => t = Append(s, name)
  /\ name \notin Proper => Len(t) \in 0..Len(s) /\ \A m \in 1..Len(t) : t[m] = s[m]

\* One turn of normpath does what TakesOne says, on what it can have taken.
LEMMA TakeIs ==
  ASSUME NEW s \in Seq(Proper), NEW name \in Parts
  PROVE  TakesOne(s, name, Take(<<"/">>, s, name))
<1> DEFINE t == Take(<<"/">>, s, name)
<1>1. Len(s) \in Nat /\ (s = <<>> => Len(s) = 0) /\ (s # <<>> => Len(s) # 0)
  BY LenProperties, EmptySeq
<1>2. <<"/">> # <<>> /\ <<".">> # <<>> /\ <<".", ".">> # <<>> /\ <<".", ".">> # <<".">>
  OBVIOUS
<1>3. /\ t \in Seq(Proper) /\ Len(t) = Deeper(Len(s), name)
      /\ name \in Proper => t = Append(s, name)
      /\ name \notin Proper => Len(t) \in 0..Len(s) /\ \A m \in 1..Len(t) : t[m] = s[m]
  <2>1. CASE name \in {<<>>, <<".">>} \/ (name = <<".", ".">> /\ s = <<>>)
    <3>1. t = s /\ name \notin Proper
      BY <1>2, <2>1 DEF Take, Proper
    <3>2. Deeper(Len(s), name) = Len(s)
      BY <1>1, <1>2, <2>1 DEF Deeper
    <3>3. Len(s) \in 0..Len(s)
      BY <1>1
    <3> HIDE DEF t
    <3>4. QED
      BY <3>1, <3>2, <3>3
  <2>2. CASE name = <<".", ".">> /\ s # <<>>
    <3>1. /\ Front(s) \in Seq(Proper) /\ Last(s) \in Proper /\ s = Append(Front(s), Last(s))
          /\ Len(Front(s)) = Len(s) - 1
      BY <2>2, FrontProperties
    <3>2. Last(s) # <<".", ".">>
      BY <3>1 DEF Proper
    <3>3. t = Front(s) /\ name \notin Proper
      BY <1>2, <2>2, <3>2 DEF Take, Proper
    <3>4. Deeper(Len(s), name) = Len(s) - 1
      BY <1>1, <1>2, <2>2 DEF Deeper
    <3>5. \A m \in 1..Len(Front(s)) : s[m] = Front(s)[m]
      BY <3>1, AppendProperties
    <3>6. Len(s) - 1 \in 0..Len(s)
      BY <1>1, <2>2
    <3> HIDE DEF t
    <3>7. QED
      BY <3>1, <3>3, <3>4, <3>5, <3>6
  <2>3. CASE name \notin {<<>>, <<".">>, <<".", ".">>}
    <3>1. name \in Proper /\ t = Append(s, name)
      BY <2>3 DEF Take, Proper
    <3>2. Deeper(Len(s), name) = Len(s) + 1
      BY <2>3 DEF Deeper
    <3>3. Append(s, name) \in Seq(Proper) /\ Len(Append(s, name)) = Len(s) + 1
      BY <3>1, AppendProperties
    <3> HIDE DEF t
    <3>4. QED
      BY <3>1, <3>2, <3>3
  <2>4. \/ name \in {<<>>, <<".">>} \/ (name = <<".", ".">> /\ s = <<>>)
        \/ name = <<".", ".">> /\ s # <<>>
        \/ name \notin {<<>>, <<".">>, <<".", ".">>}
    BY Zenon
  <2> HIDE DEF t
  <2>5. QED
    BY <2>1, <2>2, <2>3, <2>4
<1>4. QED
  BY <1>3 DEF TakesOne

\* taken[k] is what normpath has taken after k components.
Takes(taken, parts) ==
  /\ taken[0] = <<>>
  /\ \A k \in 0..Len(parts) : taken[k] \in Seq(Proper)
  /\ \A k \in 0..(Len(parts) - 1) : taken[k + 1] = Take(<<"/">>, taken[k], parts[k + 1])

\* What normpath has taken after each of the components, ending in what it
\* returns.
LEMMA TakesExists ==
  ASSUME NEW parts \in Seq(Parts)
  PROVE  \E taken : Takes(taken, parts) /\ NormalComponents(<<"/">>, parts) = taken[Len(parts)]
<1> DEFINE F == [p \in Seq(Parts) \X Parts |-> Take(<<"/">>, p[1], p[2])]
<1>1. /\ Len(parts) \in Nat /\ \A i \in 1..Len(parts) : parts[i] \in Parts
      /\ Seq(Proper) \subseteq Seq(Parts)
  <2>1. Proper \subseteq Parts
    BY DEF Proper
  <2>2. QED
    BY <2>1, LenProperties, ElementOfSeq, SeqMonotonic
<1>2. PICK iter : /\ NormalComponents(<<"/">>, parts) = iter[1..Len(parts)]
                  /\ Along(iter, Seq(Parts), F, <<>>, parts)
  BY TakeAlong
<1> DEFINE taken == [k \in 0..Len(parts) |-> iter[1..k]]
           N == {k \in Nat : k <= Len(parts) => taken[k] \in Seq(Proper)}
<1>3. taken[0] = <<>>
  BY <1>1, <1>2 DEF Along
<1>4. ASSUME NEW k \in 0..(Len(parts) - 1), taken[k] \in Seq(Proper)
      PROVE  taken[k + 1] = Take(<<"/">>, taken[k], parts[k + 1])
  <2>1. /\ k \in 0..Len(parts) /\ k + 1 \in 0..Len(parts) /\ parts[k + 1] \in Parts
        /\ taken[k] = iter[1..k] /\ taken[k + 1] = iter[1..(k + 1)]
    BY <1>1
  <2>2. iter[1..(k + 1)] = F[<<iter[1..k], parts[k + 1]>>]
    BY <1>1, <1>2, <1>4, <2>1 DEF Along
  <2>3. F[<<iter[1..k], parts[k + 1]>>] = Take(<<"/">>, iter[1..k], parts[k + 1])
    BY <1>1, <1>4, <2>1
  <2>4. QED
    BY <2>1, <2>2, <2>3
<1> HIDE DEF taken, F
<1>5. 0 \in N
  BY <1>3, ShortSequences
<1>6. ASSUME NEW k \in Nat, k \in N PROVE k + 1 \in N
  <2>1. ASSUME k + 1 <= Len(parts) PROVE taken[k + 1] \in Seq(Proper)
    <3>1. k \in 0..(Len(parts) - 1) /\ taken[k] \in Seq(Proper) /\ parts[k + 1] \in Parts
      BY <1>1, <1>6, <2>1
    <3>2. QED
      BY <1>4, <3>1, TakeIs DEF TakesOne
  <2>2. QED
    BY <2>1
<1>7. \A k \in Nat : k \in N
  <2> HIDE DEF N
  <2>1. QED
    BY <1>5, <1>6, Induction
<1>8. \A k \in 0..Len(parts) : taken[k] \in Seq(Proper)
  BY <1>1, <1>7
<1>9. Takes(taken, parts)
  BY <1>1, <1>3, <1>4, <1>8 DEF Takes
<1>10. NormalComponents(<<"/">>, parts) = taken[Len(parts)]
  BY <1>1, <1>2 DEF taken
<1>11. QED
  BY <1>9, <1>10

\* The depths that Place counts are the lengths of what was taken.
LEMMA DepthIs ==
  ASSUME NEW parts \in Seq(Parts), NEW taken, Takes(taken, parts)
  PROVE  LET depth == CHOOSE depth : depth = [i \in 0..Len(parts) |->
                        IF i = 0 THEN 0 ELSE Deeper(depth[i - 1], parts[i])]
         IN \A i \in 0..Len(parts) : depth[i] = Len(taken[i])
<1> DEFINE Counts(depth) == depth = [i \in 0..Len(parts) |->
                        IF i = 0 THEN 0 ELSE Deeper(depth[i - 1], parts[i])]
           depth == CHOOSE depth : Counts(depth)
           length == [i \in 0..Len(parts) |-> Len(taken[i])]
           N == {i \in Nat : i <= Len(parts) => depth[i] = Len(taken[i])}
<1>1. Len(parts) \in Nat /\ \A i \in 1..Len(parts) : parts[i] \in Parts
  BY LenProperties, ElementOfSeq
<1>2. Len(taken[0]) = 0
  BY EmptySeq DEF Takes
<1>3. \A i \in 1..Len(parts) : Len(taken[i]) = Deeper(Len(taken[i - 1]), parts[i])
  <2> TAKE i \in 1..Len(parts)
  <2>1. i - 1 \in 0..(Len(parts) - 1) /\ i - 1 \in 0..Len(parts) /\ (i - 1) + 1 = i
    BY <1>1
  <2>2. taken[i - 1] \in Seq(Proper) /\ taken[i] = Take(<<"/">>, taken[i - 1], parts[i])
    BY <2>1 DEF Takes
  <2>3. TakesOne(taken[i - 1], parts[i], taken[i])
    BY <1>1, <2>2, TakeIs
  <2>4. QED
    BY <2>3 DEF TakesOne
<1>4. Counts(length)
  <2>1. \A i \in 0..Len(parts) :
          Len(taken[i]) = IF i = 0 THEN 0 ELSE Deeper(length[i - 1], parts[i])
    <3> TAKE i \in 0..Len(parts)
    <3>1. CASE i = 0
      BY <1>2, <3>1
    <3>2. CASE i # 0
      <4>1. i \in 1..Len(parts) /\ i - 1 \in 0..Len(parts)
        BY <1>1, <3>2
      <4>2. QED
        BY <1>3, <3>2, <4>1
    <3>3. QED
      BY <3>1, <3>2
  <2>2. QED
    BY <2>1
<1>5. Counts(depth)
  <2> HIDE DEF Counts
  <2>1. QED
    BY <1>4
<1>6. /\ depth[0] = 0
      /\ \A i \in 1..Len(parts) : depth[i] = Deeper(depth[i - 1], parts[i])
  <2> HIDE DEF depth
  <2>1. QED
    BY <1>1, <1>5
<1> HIDE DEF depth
<1>7. 0 \in N
  BY <1>2, <1>6
<1>8. ASSUME NEW i \in Nat, i \in N PROVE i + 1 \in N
  <2>1. ASSUME i + 1 <= Len(parts) PROVE depth[i + 1] = Len(taken[i + 1])
    <3>1. i + 1 \in 1..Len(parts) /\ (i + 1) - 1 = i /\ depth[i] = Len(taken[i])
      BY <1>1, <1>8, <2>1
    <3>2. QED
      BY <1>3, <1>6, <3>1
  <2>2. QED
    BY <2>1
<1>9. \A i \in Nat : i \in N
  <2> HIDE DEF N
  <2>1. QED
    BY <1>7, <1>8, Induction
<1>10. QED
  BY <1>1, <1>9 DEF depth

\* What normpath takes is where the components lead.
LEMMA TakenIsPlace ==
  ASSUME NEW parts \in Seq(Parts)
  PROVE  /\ NormalComponents(<<"/">>, parts) = Place(parts)
         /\ NormalComponents(<<"/">>, parts) \in Seq(Proper)
<1>1. /\ Len(parts) \in Nat /\ DOMAIN parts = 1..Len(parts)
      /\ \A i \in 1..Len(parts) : parts[i] \in Parts
  BY LenProperties, ElementOfSeq
<1>2. PICK taken : Takes(taken, parts) /\ NormalComponents(<<"/">>, parts) = taken[Len(parts)]
  BY TakesExists
<1> DEFINE depth == CHOOSE depth : depth = [i \in 0..Len(parts) |->
                        IF i = 0 THEN 0 ELSE Deeper(depth[i - 1], parts[i])]
<1>3. Place(parts) = [n \in 1..depth[Len(parts)] |->
         parts[Max({i \in DOMAIN parts : depth[i] = n /\ depth[i - 1] < n})]]
  BY DEF Place, Deeper
<1>4. \A i \in 0..Len(parts) : depth[i] = Len(taken[i]) /\ Len(taken[i]) \in Nat
  BY <1>2, DepthIs, LenProperties DEF Takes
<1> HIDE DEF depth
<1> DEFINE reach(k, m) == {i \in 1..k : depth[i] = m /\ depth[i - 1] < m}
           Led(k) == \A m \in 1..depth[k] : taken[k][m] = parts[Max(reach(k, m))]
           N == {k \in Nat : k <= Len(parts) => Led(k)}
<1>5. 0 \in N
  BY <1>1, <1>2, <1>4, EmptySeq DEF Takes
<1>6. ASSUME NEW k \in Nat, k \in N PROVE k + 1 \in N
  <2> SUFFICES ASSUME k + 1 <= Len(parts), NEW m \in 1..depth[k + 1]
               PROVE  taken[k + 1][m] = parts[Max(reach(k + 1, m))]
    OBVIOUS
  <2>1. /\ k \in 0..Len(parts) /\ k + 1 \in 0..Len(parts) /\ k \in 0..(Len(parts) - 1)
        /\ k + 1 \in 1..Len(parts) /\ (k + 1) - 1 = k
    BY <1>1
  <2>2. /\ taken[k] \in Seq(Proper) /\ parts[k + 1] \in Parts
        /\ taken[k + 1] = Take(<<"/">>, taken[k], parts[k + 1])
        /\ depth[k] = Len(taken[k]) /\ depth[k + 1] = Len(taken[k + 1])
        /\ depth[k] \in Nat /\ depth[k + 1] \in Nat
    BY <1>1, <1>2, <1>4, <2>1 DEF Takes
  <2>3. TakesOne(taken[k], parts[k + 1], taken[k + 1])
    BY <2>2, TakeIs
  <2>4. Led(k)
    <3> HIDE DEF Led
    <3>1. QED
      BY <1>6, <2>1
  <2>5. \A i \in 1..(k + 1) : i \in 1..k \/ i = k + 1
    BY <2>1
  <2>6. CASE parts[k + 1] \in Proper /\ m = depth[k + 1]
    <3>1. taken[k + 1] = Append(taken[k], parts[k + 1])
      BY <2>6, <2>3 DEF TakesOne
    <3>2. depth[k + 1] = depth[k] + 1 /\ taken[k + 1][depth[k] + 1] = parts[k + 1]
      BY <2>2, <2>6, <3>1, AppendProperties
    <3>3. k + 1 \in reach(k + 1, m)
      BY <2>1, <2>2, <2>6, <3>2
    <3>4. reach(k + 1, m) \in SUBSET (1..(k + 1)) /\ k + 1 \in Nat
      BY <2>1
    <3>5. /\ Max(reach(k + 1, m)) \in reach(k + 1, m)
          /\ \A i \in reach(k + 1, m) : Max(reach(k + 1, m)) >= i
      <4> HIDE DEF reach
      <4>1. QED
        BY <3>3, <3>4, Largest
    <3>6. Max(reach(k + 1, m)) \in 1..(k + 1) /\ Max(reach(k + 1, m)) >= k + 1
      BY <3>3, <3>4, <3>5
    <3>7. Max(reach(k + 1, m)) = k + 1
      BY <3>6
    <3>8. QED
      BY <2>6, <3>2, <3>7
  <2>7. CASE ~(parts[k + 1] \in Proper /\ m = depth[k + 1])
    <3>1. m \in 1..depth[k] /\ taken[k + 1][m] = taken[k][m] /\ depth[k] >= m
      <4>1. CASE parts[k + 1] \in Proper
        <5>1. taken[k + 1] = Append(taken[k], parts[k + 1])
          BY <2>3, <4>1 DEF TakesOne
        <5>2. /\ Len(taken[k + 1]) = Len(taken[k]) + 1
              /\ \A i \in 1..Len(taken[k]) : taken[k + 1][i] = taken[k][i]
          BY <2>2, <4>1, <5>1, AppendProperties
        <5>3. QED
          BY <2>2, <2>7, <4>1, <5>2
      <4>2. CASE parts[k + 1] \notin Proper
        <5>1. /\ Len(taken[k + 1]) \in 0..Len(taken[k])
              /\ \A i \in 1..Len(taken[k + 1]) : taken[k + 1][i] = taken[k][i]
          BY <2>3, <4>2 DEF TakesOne
        <5>2. QED
          BY <2>2, <5>1
      <4>3. QED
        BY <4>1, <4>2
    <3>2. k + 1 \notin reach(k + 1, m)
      BY <2>1, <2>2, <3>1
    <3>3. reach(k + 1, m) = reach(k, m)
      BY <2>1, <2>5, <3>2
    <3>4. QED
      BY <2>4, <3>1, <3>3
  <2>8. QED
    BY <2>6, <2>7
<1>7. Led(Len(parts))
  <2>1. \A k \in Nat : k \in N
    <3> HIDE DEF N
    <3>1. QED
      BY <1>5, <1>6, Induction
  <2> HIDE DEF Led
  <2>2. QED
    BY <1>1, <2>1
<1> DEFINE normal == NormalComponents(<<"/">>, parts)
<1>8. normal \in Seq(Proper) /\ depth[Len(parts)] = Len(normal)
  BY <1>1, <1>2, <1>4 DEF Takes
<1>9. normal = [n \in 1..Len(normal) |-> normal[n]]
  BY <1>8, LenProperties
<1>10. \A n \in 1..Len(normal) :
         normal[n] =
           parts[Max({i \in DOMAIN parts : depth[i] = n /\ depth[i - 1] < n})]
  BY <1>1, <1>2, <1>7, <1>8
<1>11. Place(parts) = [n \in 1..Len(normal) |-> normal[n]]
  BY <1>3, <1>8, <1>10
<1>12. QED
  BY <1>8, <1>9, <1>11

\* Where an absolute path leads, and its normal form.
LEMMA NormalIs ==
  ASSUME NEW path \in Texts, IsPrefix(<<"/">>, path)
  PROVE  /\ Location(path) \in Seq(Proper) /\ Components(path) \in Cuts
         /\ Location(path) = NormalComponents(<<"/">>, Components(path))
         /\ NormalizePath(path) = <<"/">> \o Join(Location(path))
<1>1. Components(path) \in Cuts
  BY ComponentsAreCuts
<1>2. Components(path) \in Seq(Parts)
  BY <1>1 DEF Cuts
<1>3. Location(path) = NormalComponents(<<"/">>, Components(path)) /\ Location(path) \in Seq(Proper)
  BY <1>2, TakenIsPlace DEF Location
<1>4. <<"/">> # <<>>
  OBVIOUS
<1>5. Join(Location(path)) \in Texts
  <2>1. Location(path) \in Seq(Parts)
    BY <1>3, SeqMonotonic DEF Proper
  <2>2. QED
    BY <2>1, JoinIsText
<1>6. <<"/">> \o Join(Location(path)) # <<>>
  <2>1. <<"/">> \in Texts
    BY CommandsAssumption, ShortSequences DEF Texts
  <2>2. QED
    BY <1>4, <1>5, <2>1, ConcatEqualIffEmpty DEF Texts
<1>7. NormalizePath(path) = <<"/">> \o Join(Location(path))
  BY <1>3, <1>6 DEF NormalizePath
<1>8. QED
  BY <1>1, <1>3, <1>7

-----------------------------------------------------------------------------
(* In lower case.                                                          *)

\* A text in lower case, and components in lower case.
Low(t)      == [i \in DOMAIN t |-> Lower(t[i])]
Each(parts) == [i \in DOMAIN parts |-> Low(parts[i])]

\* Lower case goes character by character and keeps slashes where they are.
LEMMA LowIs ==
  ASSUME NEW t \in Texts
  PROVE  /\ Low(t) \in Texts /\ Len(Low(t)) = Len(t)
         /\ \A i \in 1..Len(t) : Low(t)[i] = Lower(t[i])
         /\ t \in Parts => Low(t) \in Parts
<1>1. Len(t) \in Nat /\ DOMAIN t = 1..Len(t) /\ \A i \in 1..Len(t) : t[i] \in Chars
  BY LenProperties, ElementOfSeq DEF Texts
<1>2. \A i \in 1..Len(t) : Lower(t[i]) \in Chars
  BY <1>1, CommandsAssumption
<1>3. Low(t) = [i \in 1..Len(t) |-> Lower(t[i])]
  BY <1>1 DEF Low
<1>4. Low(t) \in Seq(Chars) /\ Len(Low(t)) = Len(t)
  BY <1>1, <1>2, <1>3
<1>5. ASSUME t \in Parts PROVE Low(t) \in Parts
  <2>1. \A i \in 1..Len(t) : t[i] \in Chars \ {"/"}
    BY <1>5, ElementOfSeq DEF Parts
  <2>2. \A i \in 1..Len(t) : Lower(t[i]) \in Chars \ {"/"}
    BY <1>2, <2>1 DEF Lower
  <2>3. [i \in 1..Len(t) |-> Lower(t[i])] \in Seq(Chars \ {"/"})
    BY <1>1, <2>2
  <2>4. QED
    BY <1>3, <2>3 DEF Parts
<1>6. QED
  BY <1>3, <1>4, <1>5 DEF Texts

\* Lower case of a text with one character more.
LEMMA LowAppend ==
  ASSUME NEW t \in Texts, NEW c \in Chars
  PROVE  /\ Lower(c) \in Chars /\ Append(t, c) \in Texts
         /\ Low(Append(t, c)) = Append(Low(t), Lower(c))
<1>1. Lower(c) \in Chars
  BY CommandsAssumption
<1>2. /\ Append(t, c) \in Texts /\ Len(Append(t, c)) = Len(t) + 1 /\ Len(t) \in Nat
      /\ Append(t, c)[Len(t) + 1] = c /\ \A i \in 1..Len(t) : Append(t, c)[i] = t[i]
  BY AppendProperties, LenProperties DEF Texts
<1>3. /\ Low(t) \in Texts /\ Len(Low(t)) = Len(t)
      /\ \A i \in 1..Len(t) : Low(t)[i] = Lower(t[i])
  BY LowIs
<1>4. /\ Low(Append(t, c)) \in Texts /\ Len(Low(Append(t, c))) = Len(t) + 1
      /\ \A i \in 1..(Len(t) + 1) : Low(Append(t, c))[i] = Lower(Append(t, c)[i])
  BY <1>2, LowIs
<1>5. /\ Append(Low(t), Lower(c)) \in Texts
      /\ Len(Append(Low(t), Lower(c))) = Len(t) + 1
      /\ Append(Low(t), Lower(c))[Len(t) + 1] = Lower(c)
      /\ \A i \in 1..Len(t) : Append(Low(t), Lower(c))[i] = Low(t)[i]
  BY <1>1, <1>3, AppendProperties DEF Texts
<1>6. \A i \in 1..(Len(t) + 1) : Low(Append(t, c))[i] = Append(Low(t), Lower(c))[i]
  <2> TAKE i \in 1..(Len(t) + 1)
  <2>1. i \in 1..Len(t) \/ i = Len(t) + 1
    BY <1>2
  <2>2. QED
    BY <1>2, <1>3, <1>4, <1>5, <2>1
<1>7. Low(Append(t, c)) = Append(Low(t), Lower(c))
  BY <1>4, <1>5, <1>6, SeqEqual DEF Texts
<1>8. QED
  BY <1>1, <1>2, <1>7

\* Lower case of two texts, one behind the other.
LEMMA LowConcat ==
  ASSUME NEW s \in Texts, NEW t \in Texts
  PROVE  s \o t \in Texts /\ Low(s \o t) = Low(s) \o Low(t)
<1>1. /\ s \o t \in Texts /\ Len(s \o t) = Len(s) + Len(t) /\ Len(s) \in Nat /\ Len(t) \in Nat
      /\ \A i \in 1..(Len(s) + Len(t)) : (s \o t)[i] = IF i <= Len(s) THEN s[i] ELSE t[i - Len(s)]
  BY ConcatProperties, LenProperties DEF Texts
<1>2. /\ Low(s) \in Texts /\ Len(Low(s)) = Len(s) /\ Low(t) \in Texts /\ Len(Low(t)) = Len(t)
      /\ \A i \in 1..Len(s) : Low(s)[i] = Lower(s[i])
      /\ \A i \in 1..Len(t) : Low(t)[i] = Lower(t[i])
  BY LowIs
<1>3. /\ Low(s \o t) \in Texts /\ Len(Low(s \o t)) = Len(s) + Len(t)
      /\ \A i \in 1..(Len(s) + Len(t)) : Low(s \o t)[i] = Lower((s \o t)[i])
  BY <1>1, LowIs
<1>4. /\ Low(s) \o Low(t) \in Texts /\ Len(Low(s) \o Low(t)) = Len(s) + Len(t)
      /\ \A i \in 1..(Len(s) + Len(t)) :
           (Low(s) \o Low(t))[i] = IF i <= Len(s) THEN Low(s)[i] ELSE Low(t)[i - Len(s)]
  <2>1. Low(s) \in Seq(Chars) /\ Low(t) \in Seq(Chars)
    BY <1>2 DEF Texts
  <2> DEFINE u == Low(s)
             v == Low(t)
  <2> HIDE DEF u, v
  <2>2. /\ u \in Seq(Chars) /\ v \in Seq(Chars) /\ Len(u) = Len(s) /\ Len(v) = Len(t)
    BY <1>2, <2>1 DEF u, v
  <2>3. /\ u \o v \in Seq(Chars) /\ Len(u \o v) = Len(u) + Len(v)
        /\ \A i \in 1..(Len(u) + Len(v)) : (u \o v)[i] = IF i <= Len(u) THEN u[i] ELSE v[i - Len(u)]
    BY <2>2, ConcatProperties, Zenon
  <2>4. QED
    BY <2>2, <2>3 DEF u, v, Texts
<1>5. \A i \in 1..(Len(s) + Len(t)) : Low(s \o t)[i] = (Low(s) \o Low(t))[i]
  <2> TAKE i \in 1..(Len(s) + Len(t))
  <2>1. CASE i <= Len(s)
    <3>1. i \in 1..Len(s)
      BY <1>1, <2>1
    <3>2. QED
      BY <1>1, <1>2, <1>3, <1>4, <2>1, <3>1
  <2>2. CASE ~(i <= Len(s))
    <3>1. i - Len(s) \in 1..Len(t)
      BY <1>1, <2>2
    <3>2. QED
      BY <1>1, <1>2, <1>3, <1>4, <2>2, <3>1
  <2>3. QED
    BY <2>1, <2>2
<1>6. Low(s \o t) = Low(s) \o Low(t)
  BY <1>3, <1>4, <1>5, SeqEqual DEF Texts
<1>7. QED
  BY <1>1, <1>6

\* Short texts in lower case, and which texts have them as lower case.
LEMMA LowShort ==
  ASSUME NEW t \in Texts
  PROVE  /\ Low(<<>>) = <<>> /\ Low(<<"/">>) = <<"/">>
         /\ Low(t) = <<>> <=> t = <<>>
         /\ Low(t) = <<".">> <=> t = <<".">>
         /\ Low(t) = <<".", ".">> <=> t = <<".", ".">>
<1>1. Len(t) \in Nat /\ DOMAIN t = 1..Len(t) /\ t \in Seq(Chars)
  BY LenProperties DEF Texts
<1>2. /\ Len(Low(t)) = Len(t) /\ Low(t) \in Seq(Chars)
      /\ \A i \in 1..Len(t) : Low(t)[i] = Lower(t[i])
  BY LowIs DEF Texts
<1>3. \A c : Lower(c) = "." <=> c = "."
  BY DEF Lower
<1>4. Low(<<>>) = <<>> /\ Low(<<"/">>) = <<"/">>
  BY DEF Low, Lower
<1>5. \A u \in Seq(Chars) :
        /\ u = <<>> <=> Len(u) = 0
        /\ u = <<".">> <=> Len(u) = 1 /\ u[1] = "."
        /\ u = <<".", ".">> <=> Len(u) = 2 /\ u[1] = "." /\ u[2] = "."
  OBVIOUS
<1>6. Low(t) = <<>> <=> t = <<>>
  BY <1>1, <1>2, <1>5
<1>7. Low(t) = <<".">> <=> t = <<".">>
  <2>1. Len(t) = 1 => Low(t)[1] = Lower(t[1])
    BY <1>2
  <2>2. QED
    BY <1>1, <1>2, <1>3, <1>5, <2>1
<1>8. Low(t) = <<".", ".">> <=> t = <<".", ".">>
  <2>1. Len(t) = 2 => /\ Low(t)[1] = Lower(t[1]) /\ Low(t)[2] = Lower(t[2])
    BY <1>2
  <2>2. QED
    BY <1>1, <1>2, <1>3, <1>5, <2>1
<1>9. QED
  BY <1>4, <1>6, <1>7, <1>8

\* Lower case of components goes component by component.
LEMMA EachIs ==
  ASSUME NEW s \in Seq(Parts)
  PROVE  /\ Each(s) \in Seq(Parts) /\ Len(Each(s)) = Len(s)
         /\ \A i \in 1..Len(s) : Each(s)[i] = Low(s[i])
         /\ Each(s) = <<>> <=> s = <<>>
<1>1. Len(s) \in Nat /\ DOMAIN s = 1..Len(s) /\ \A i \in 1..Len(s) : s[i] \in Parts
  BY LenProperties, ElementOfSeq
<1>2. \A i \in 1..Len(s) : Low(s[i]) \in Parts
  BY <1>1, LowIs, PartIsText
<1>3. Each(s) = [i \in 1..Len(s) |-> Low(s[i])]
  BY <1>1 DEF Each
<1>4. Each(s) \in Seq(Parts) /\ Len(Each(s)) = Len(s)
  BY <1>1, <1>2, <1>3
<1>5. \A u \in Seq(Parts) : u = <<>> <=> Len(u) = 0
  BY EmptySeq
<1>6. QED
  BY <1>3, <1>4, <1>5

\* Lower case of components with one component more.
LEMMA EachAppend ==
  ASSUME NEW s \in Seq(Parts), NEW name \in Parts
  PROVE  Each(Append(s, name)) = Append(Each(s), Low(name)) /\ Low(name) \in Parts
<1>1. /\ Append(s, name) \in Seq(Parts) /\ Len(Append(s, name)) = Len(s) + 1 /\ Len(s) \in Nat
      /\ Append(s, name)[Len(s) + 1] = name /\ \A i \in 1..Len(s) : Append(s, name)[i] = s[i]
  BY AppendProperties, LenProperties
<1>2. /\ Each(s) \in Seq(Parts) /\ Len(Each(s)) = Len(s)
      /\ \A i \in 1..Len(s) : Each(s)[i] = Low(s[i])
  BY EachIs
<1>3. /\ Each(Append(s, name)) \in Seq(Parts) /\ Len(Each(Append(s, name))) = Len(s) + 1
      /\ \A i \in 1..(Len(s) + 1) : Each(Append(s, name))[i] = Low(Append(s, name)[i])
  BY <1>1, EachIs
<1>4. Low(name) \in Parts
  BY LowIs, PartIsText
<1>5. /\ Append(Each(s), Low(name)) \in Seq(Parts)
      /\ Len(Append(Each(s), Low(name))) = Len(s) + 1
      /\ Append(Each(s), Low(name))[Len(s) + 1] = Low(name)
      /\ \A i \in 1..Len(s) : Append(Each(s), Low(name))[i] = Each(s)[i]
  BY <1>2, <1>4, AppendProperties
<1>6. \A i \in 1..(Len(s) + 1) : Each(Append(s, name))[i] = Append(Each(s), Low(name))[i]
  <2> TAKE i \in 1..(Len(s) + 1)
  <2>1. i \in 1..Len(s) \/ i = Len(s) + 1
    BY <1>1
  <2>2. QED
    BY <1>1, <1>2, <1>3, <1>5, <2>1
<1>7. Each(Append(s, name)) = Append(Each(s), Low(name))
  BY <1>3, <1>5, <1>6, SeqEqual
<1>8. QED
  BY <1>4, <1>7

\* One turn of split("/") on components in lower case.
LEMMA EachCut ==
  ASSUME NEW parts \in Cuts, NEW c \in Chars
  PROVE  Cut(Each(parts), Lower(c)) = Each(Cut(parts, c))
<1>1. parts \in Seq(Parts) /\ parts # <<>> /\ <<>> \in Parts /\ Low(<<>>) = <<>>
  <2>1. <<>> \in Parts /\ <<>> \in Texts
    BY ShortSequences DEF Parts, Texts
  <2>2. QED
    BY <2>1, LowShort DEF Cuts
<1>2. /\ Front(parts) \in Seq(Parts) /\ Last(parts) \in Parts
      /\ parts = Append(Front(parts), Last(parts))
  BY <1>1, FrontProperties
<1>3. /\ Each(parts) = Append(Each(Front(parts)), Low(Last(parts)))
      /\ Each(Front(parts)) \in Seq(Parts) /\ Low(Last(parts)) \in Parts
  BY <1>2, EachAppend, EachIs
<1>4. Front(Each(parts)) = Each(Front(parts)) /\ Last(Each(parts)) = Low(Last(parts))
  BY <1>3, FrontOfAppend
<1>5. CASE c = "/"
  <2>1. Lower(c) = "/"
    BY <1>5 DEF Lower
  <2>2. Each(Append(parts, <<>>)) = Append(Each(parts), <<>>)
    BY <1>1, EachAppend
  <2>3. QED
    BY <1>5, <2>1, <2>2 DEF Cut
<1>6. CASE c # "/"
  <2>1. Lower(c) # "/"
    BY <1>6 DEF Lower
  <2>2. Last(parts) \in Texts
    BY <1>2, PartIsText
  <2>3. Append(Last(parts), c) \in Parts
    BY <1>2, <1>6, AppendProperties DEF Parts
  <2>4. Low(Append(Last(parts), c)) = Append(Low(Last(parts)), Lower(c))
    BY <2>2, LowAppend
  <2>5. Each(Append(Front(parts), Append(Last(parts), c)))
          = Append(Each(Front(parts)), Low(Append(Last(parts), c)))
    BY <1>2, <2>3, EachAppend
  <2>6. QED
    BY <1>4, <1>6, <2>1, <2>4, <2>5 DEF Cut
<1>7. QED
  BY <1>5, <1>6

\* A path in lower case has the components in lower case.
LEMMA EachComponents == \A t \in Texts : Components(Low(t)) = Each(Components(t))
<1> DEFINE T == {t \in Texts : Components(Low(t)) = Each(Components(t))}
<1>1. <<>> \in Texts /\ <<>> \in Parts /\ <<>> \in Seq(Parts)
  BY ShortSequences DEF Texts, Parts
<1>2. <<>> \in T
  <2>1. Low(<<>>) = <<>>
    BY <1>1, LowShort
  <2>2. Each(<< <<>> >>) = << <<>> >>
    BY <2>1 DEF Each
  <2>3. QED
    BY <1>1, <2>1, <2>2, CutEmpty
<1>3. ASSUME NEW t \in Seq(Chars), NEW c \in Chars, t \in T PROVE Append(t, c) \in T
  <2>1. /\ t \in Texts /\ Append(t, c) \in Texts /\ Low(t) \in Texts
        /\ Lower(c) \in Chars /\ Low(Append(t, c)) = Append(Low(t), Lower(c))
    BY LowAppend, LowIs DEF Texts
  <2>2. /\ Components(Append(t, c)) = Cut(Components(t), c) /\ Components(t) \in Cuts
        /\ Components(Append(Low(t), Lower(c))) = Cut(Components(Low(t)), Lower(c))
    BY <2>1, CutAppend DEF Texts
  <2>3. Cut(Each(Components(t)), Lower(c)) = Each(Cut(Components(t), c))
    BY <2>2, EachCut
  <2>4. Components(Low(t)) = Each(Components(t))
    BY <1>3
  <2>5. QED
    BY <2>1, <2>2, <2>3, <2>4
<1>4. \A t \in Seq(Chars) : t \in T
  <2> HIDE DEF T
  <2>1. QED
    BY <1>2, <1>3, SeqInduction
<1>5. QED
  BY <1>4 DEF Texts

\* One turn of normpath on components in lower case.
LEMMA EachTake ==
  ASSUME NEW s \in Seq(Parts), NEW name \in Parts
  PROVE  Take(<<"/">>, Each(s), Low(name)) = Each(Take(<<"/">>, s, name))
<1>1. /\ Low(name) = <<>> <=> name = <<>>
      /\ Low(name) = <<".">> <=> name = <<".">>
      /\ Low(name) = <<".", ".">> <=> name = <<".", ".">>
      /\ Each(s) = <<>> <=> s = <<>>
  BY LowShort, PartIsText, EachIs
<1>2. Each(Append(s, name)) = Append(Each(s), Low(name))
  BY EachAppend
<1>3. s # <<>> => /\ Each(Front(s)) = Front(Each(s))
                  /\ Last(Each(s)) = <<".", ".">> <=> Last(s) = <<".", ".">>
  <2> SUFFICES ASSUME s # <<>>
               PROVE  /\ Each(Front(s)) = Front(Each(s))
                      /\ Last(Each(s)) = <<".", ".">> <=> Last(s) = <<".", ".">>
    OBVIOUS
  <2>1. Front(s) \in Seq(Parts) /\ Last(s) \in Parts /\ s = Append(Front(s), Last(s))
    BY FrontProperties
  <2>2. /\ Each(s) = Append(Each(Front(s)), Low(Last(s)))
        /\ Each(Front(s)) \in Seq(Parts) /\ Low(Last(s)) \in Parts
    BY <2>1, EachAppend, EachIs
  <2>3. Front(Each(s)) = Each(Front(s)) /\ Last(Each(s)) = Low(Last(s))
    BY <2>2, FrontOfAppend
  <2>4. Low(Last(s)) = <<".", ".">> <=> Last(s) = <<".", ".">>
    BY <2>1, LowShort, PartIsText
  <2>5. QED
    BY <2>3, <2>4
<1>4. <<"/">> # <<>> /\ <<".">> # <<>> /\ <<".", ".">> # <<>> /\ <<".", ".">> # <<".">>
  OBVIOUS
<1>5. CASE name \in {<<>>, <<".">>}
  BY <1>1, <1>4, <1>5 DEF Take
<1>6. CASE name = <<".", ".">>
  BY <1>1, <1>2, <1>3, <1>4, <1>6 DEF Take
<1>7. CASE name \notin {<<>>, <<".">>, <<".", ".">>}
  BY <1>1, <1>2, <1>7 DEF Take
<1>8. QED
  BY <1>5, <1>6, <1>7

\* normpath of components in lower case.
LEMMA EachTaken ==
  \A s \in Seq(Parts) : /\ NormalComponents(<<"/">>, s) \in Seq(Parts)
                        /\ NormalComponents(<<"/">>, Each(s)) = Each(NormalComponents(<<"/">>, s))
<1> DEFINE T == {s \in Seq(Parts) :
                   /\ NormalComponents(<<"/">>, s) \in Seq(Parts)
                   /\ NormalComponents(<<"/">>, Each(s)) = Each(NormalComponents(<<"/">>, s))}
<1>1. <<>> \in T
  <2>1. Each(<<>>) = <<>>
    BY DEF Each
  <2>2. QED
    BY <2>1, TakeEmpty, TakeTurn
<1>2. ASSUME NEW s \in Seq(Parts), NEW name \in Parts, s \in T PROVE Append(s, name) \in T
  <2>1. /\ Each(Append(s, name)) = Append(Each(s), Low(name))
        /\ Low(name) \in Parts /\ Each(s) \in Seq(Parts) /\ Append(s, name) \in Seq(Parts)
    BY EachAppend, EachIs, AppendProperties
  <2>2. /\ NormalComponents(<<"/">>, s) \in Seq(Parts)
        /\ NormalComponents(<<"/">>, Append(s, name))
             = Take(<<"/">>, NormalComponents(<<"/">>, s), name)
        /\ NormalComponents(<<"/">>, Append(Each(s), Low(name)))
             = Take(<<"/">>, NormalComponents(<<"/">>, Each(s)), Low(name))
    BY <2>1, TakeAppend
  <2>3. Take(<<"/">>, NormalComponents(<<"/">>, s), name) \in Seq(Parts)
    BY <2>2, TakeTurn
  <2>4. NormalComponents(<<"/">>, Each(s)) = Each(NormalComponents(<<"/">>, s))
    BY <1>2
  <2>5. Take(<<"/">>, Each(NormalComponents(<<"/">>, s)), Low(name))
          = Each(Take(<<"/">>, NormalComponents(<<"/">>, s), name))
    BY <2>2, EachTake
  <2>6. QED
    BY <2>1, <2>2, <2>3, <2>4, <2>5
<1>3. \A s \in Seq(Parts) : s \in T
  <2> HIDE DEF T
  <2>1. QED
    BY <1>1, <1>2, SeqInduction
<1>4. QED
  BY <1>3

\* Joining components in lower case.
LEMMA EachJoin == \A s \in Seq(Parts) : Join(Each(s)) = Low(Join(s))
<1> DEFINE T == {s \in Seq(Parts) : Join(Each(s)) = Low(Join(s))}
<1>1. <<>> \in Texts
  BY ShortSequences DEF Texts
<1>2. <<>> \in T
  <2>1. Each(<<>>) = <<>> /\ Low(<<>>) = <<>>
    BY DEF Each, Low
  <2>2. <<>> \in Seq(Parts)
    BY ShortSequences
  <2>3. QED
    BY <2>1, <2>2, JoinEmpty
<1>3. ASSUME NEW s \in Seq(Parts), NEW name \in Parts, s \in T PROVE Append(s, name) \in T
  <2>1. /\ Each(Append(s, name)) = Append(Each(s), Low(name))
        /\ Low(name) \in Parts /\ Each(s) \in Seq(Parts) /\ Append(s, name) \in Seq(Parts)
    BY EachAppend, EachIs, AppendProperties
  <2>2. /\ Join(Append(s, name)) = Joined(Join(s), name) /\ Join(s) \in Texts
        /\ Join(Append(Each(s), Low(name))) = Joined(Low(Join(s)), Low(name))
    BY <1>3, <2>1, JoinAppend
  <2>3. Joined(Low(Join(s)), Low(name)) = Low(Joined(Join(s), name))
    <3>1. Low(Join(s)) = <<>> <=> Join(s) = <<>>
      BY <2>2, LowShort
    <3>2. <<"/">> \in Texts /\ name \in Texts /\ Low(<<"/">>) = <<"/">>
      BY CommandsAssumption, PartIsText, ShortSequences, LowShort DEF Texts
    <3>3. /\ Join(s) \o <<"/">> \in Texts
          /\ Low(Join(s) \o <<"/">>) = Low(Join(s)) \o <<"/">>
      BY <2>2, <3>2, LowConcat
    <3>4. Low(Join(s) \o <<"/">> \o name) = Low(Join(s)) \o <<"/">> \o Low(name)
      BY <3>2, <3>3, LowConcat
    <3>5. QED
      BY <3>1, <3>4 DEF Joined
  <2>4. QED
    BY <2>1, <2>2, <2>3
<1>4. \A s \in Seq(Parts) : s \in T
  <2> HIDE DEF T
  <2>1. QED
    BY <1>2, <1>3, SeqInduction
<1>5. QED
  BY <1>4


-----------------------------------------------------------------------------
(* Join and split("/") undo each other.                                    *)

\* Appending to the second of two sequences appends to both together.
LEMMA ConcatAppend ==
  ASSUME NEW S, NEW s \in Seq(S), NEW t \in Seq(S), NEW e \in S
  PROVE  s \o t \in Seq(S) /\ s \o Append(t, e) = Append(s \o t, e)
<1>1. s \o t \in Seq(S) /\ <<e>> \in Seq(S)
  BY ConcatProperties, ShortSequences
<1>2. Append(t, e) = t \o <<e>> /\ Append(s \o t, e) = (s \o t) \o <<e>>
  BY <1>1, AppendIsConcat
<1>3. \A d \in Seq(S) : (s \o t) \o d = s \o (t \o d)
  BY ConcatAssociative
<1>4. QED
  BY <1>1, <1>2, <1>3

\* A text without slashes is its only component.
LEMMA ComponentsOfName == \A name \in Parts : Components(name) = <<name>>
<1> DEFINE T == {name \in Parts : Components(name) = <<name>>}
<1>1. <<>> \in T
  BY ShortSequences, CutEmpty DEF Parts
<1>2. ASSUME NEW t \in Seq(Chars \ {"/"}), NEW c \in Chars \ {"/"}, t \in T
      PROVE  Append(t, c) \in T
  <2>1. t \in Parts /\ t \in Seq(Chars) /\ Append(t, c) \in Parts
    BY <1>2, PartIsText, AppendProperties DEF Parts, Texts
  <2>2. Components(Append(t, c)) = Cut(<<t>>, c)
    BY <1>2, <2>1, CutAppend
  <2>3. <<t>> = Append(<<>>, t) /\ <<>> \in Seq(Parts)
    BY ShortSequences
  <2>4. Front(<<t>>) = <<>> /\ Last(<<t>>) = t
    BY <2>1, <2>3, FrontOfAppend
  <2>5. Cut(<<t>>, c) = Append(<<>>, Append(t, c))
    BY <2>4 DEF Cut
  <2>6. QED
    BY <2>1, <2>2, <2>5
<1>3. \A t \in Seq(Chars \ {"/"}) : t \in T
  <2> HIDE DEF T
  <2>1. QED
    BY <1>1, <1>2, SeqInduction
<1>4. QED
  BY <1>3 DEF Parts

\* A slash separates: the components of what is on its two sides are those of
\* the whole path.
LEMMA ComponentsSplit ==
  ASSUME NEW s \in Texts
  PROVE  \A t \in Texts :
           /\ s \o <<"/">> \o t \in Texts
           /\ Components(s \o <<"/">> \o t) = Components(s) \o Components(t)
<1> DEFINE r == s \o <<"/">>
           T == {t \in Texts : /\ r \o t \in Texts
                             /\ Components(r \o t) = Components(s) \o Components(t)}
<1>1. /\ <<>> \in Texts /\ <<>> \in Parts /\ r \in Texts /\ r = Append(s, "/")
      /\ Components(s) \in Seq(Parts) /\ Components(s) # <<>>
  <2>1. "/" \in Chars /\ <<"/">> \in Texts
    BY CommandsAssumption, ShortSequences DEF Texts
  <2>2. r \in Texts /\ r = Append(s, "/")
    BY <2>1, ConcatProperties, AppendIsConcat DEF Texts
  <2>3. <<>> \in Texts /\ <<>> \in Parts
    BY ShortSequences DEF Texts, Parts
  <2>4. Components(s) \in Cuts
    BY ComponentsAreCuts
  <2>5. QED
    BY <2>2, <2>3, <2>4 DEF Cuts
<1>2. <<>> \in T
  <2>1. r \o <<>> = r
    BY <1>1, ConcatEmptySeq DEF Texts
  <2>2. Components(r) = Cut(Components(s), "/")
    BY <1>1, CommandsAssumption, CutAppend DEF Texts
  <2>3. Cut(Components(s), "/") = Append(Components(s), <<>>)
    BY DEF Cut
  <2>4. Append(Components(s), <<>>) = Components(s) \o << <<>> >>
    BY <1>1, AppendIsConcat
  <2> HIDE DEF r
  <2>5. QED
    BY <1>1, <2>1, <2>2, <2>3, <2>4, CutEmpty
<1> HIDE DEF r
<1>3. ASSUME NEW t \in Seq(Chars), NEW c \in Chars, t \in T PROVE Append(t, c) \in T
  <2>1. /\ t \in Texts /\ Append(t, c) \in Texts /\ r \o t \in Texts
        /\ r \o Append(t, c) = Append(r \o t, c) /\ Append(r \o t, c) \in Texts
        /\ Components(r \o t) = Components(s) \o Components(t)
    <3>1. t \in Seq(Chars) /\ r \in Seq(Chars)
      BY <1>1 DEF Texts
    <3>2. r \o t \in Seq(Chars) /\ r \o Append(t, c) = Append(r \o t, c)
      BY <3>1, ConcatAppend
    <3>3. Append(t, c) \in Seq(Chars) /\ Append(r \o t, c) \in Seq(Chars)
      BY <3>2, AppendProperties
    <3>4. QED
      BY <1>3, <3>2, <3>3 DEF Texts
  <2>2. /\ Components(Append(r \o t, c)) = Cut(Components(r \o t), c)
        /\ Components(Append(t, c)) = Cut(Components(t), c)
        /\ Components(t) \in Cuts
    BY <2>1, CutAppend DEF Texts
  <2>3. Cut(Components(s) \o Components(t), c) = Components(s) \o Cut(Components(t), c)
    <3> DEFINE a == Components(s)
               f == Front(Components(t))
               l == Last(Components(t))
    <3>1. f \in Seq(Parts) /\ l \in Parts /\ Components(t) = Append(f, l)
      BY <2>2, FrontProperties DEF Cuts
    <3> HIDE DEF a, f, l
    <3>2. a \in Seq(Parts)
      BY <1>1 DEF a
    <3>3. a \o f \in Seq(Parts) /\ a \o Append(f, l) = Append(a \o f, l)
      BY <3>1, <3>2, ConcatAppend
    <3>4. /\ Front(Append(f, l)) = f /\ Last(Append(f, l)) = l
          /\ Front(Append(a \o f, l)) = a \o f /\ Last(Append(a \o f, l)) = l
      BY <3>1, <3>3, FrontOfAppend
    <3>5. CASE c = "/"
      <4>1. Append(f, l) \in Seq(Parts)
        BY <3>1, AppendProperties
      <4>2. a \o Append(Append(f, l), <<>>) = Append(a \o Append(f, l), <<>>)
        BY <1>1, <3>2, <4>1, ConcatAppend
      <4>3. QED
        BY <3>1, <3>5, <4>2 DEF Cut, a
    <3>6. CASE c # "/"
      <4>1. Append(l, c) \in Parts
        BY <3>1, <3>6, AppendProperties DEF Parts
      <4>2. a \o Append(f, Append(l, c)) = Append(a \o f, Append(l, c))
        BY <3>1, <3>2, <4>1, ConcatAppend
      <4>3. QED
        BY <3>1, <3>3, <3>4, <3>6, <4>2 DEF Cut, a
    <3>7. QED
      BY <3>5, <3>6
  <2>4. QED
    BY <2>1, <2>2, <2>3
<1>4. \A t \in Seq(Chars) : t \in T
  <2> HIDE DEF T
  <2>1. QED
    BY <1>2, <1>3, SeqInduction
<1>5. QED
  BY <1>4 DEF Texts, r

\* Join keeps its names apart: they are the components of what it makes.
LEMMA ComponentsOfJoin ==
  ASSUME NEW names \in Seq(Proper), names # <<>>
  PROVE  Join(names) \in Texts /\ Join(names) # <<>> /\ Components(Join(names)) = names
<1> DEFINE T == {s \in Seq(Proper) :
                   s # <<>> => Join(s) # <<>> /\ Components(Join(s)) = s}
<1>1. Seq(Proper) \subseteq Seq(Parts)
  BY SeqMonotonic DEF Proper
<1>2. <<>> \in T
  BY ShortSequences
<1>3. ASSUME NEW s \in Seq(Proper), NEW name \in Proper, s \in T PROVE Append(s, name) \in T
  <2>1. /\ name \in Parts /\ name \in Texts /\ name # <<>> /\ s \in Seq(Parts)
        /\ Append(s, name) \in Seq(Proper) /\ Join(s) \in Texts
        /\ Join(Append(s, name)) = Joined(Join(s), name)
    BY <1>1, PartIsText, AppendProperties, JoinIsText, JoinAppend DEF Proper
  <2>2. CASE s = <<>>
    <3>1. Join(Append(s, name)) = name /\ Append(s, name) = <<name>>
      BY <2>1, <2>2, JoinEmpty DEF Joined
    <3>2. QED
      BY <2>1, <3>1, ComponentsOfName
  <2>3. CASE s # <<>>
    <3>1. Join(s) # <<>> /\ Components(Join(s)) = s
      BY <1>3, <2>3
    <3>2. Join(Append(s, name)) = Join(s) \o <<"/">> \o name
      BY <2>1, <3>1 DEF Joined
    <3>3. Components(Join(Append(s, name))) = s \o <<name>>
      BY <2>1, <3>1, <3>2, ComponentsSplit, ComponentsOfName
    <3>4. s \o <<name>> = Append(s, name)
      BY AppendIsConcat
    <3>5. Join(Append(s, name)) # <<>>
      <4>1. <<"/">> \in Texts
        BY CommandsAssumption, ShortSequences DEF Texts
      <4>2. Join(s) \o <<"/">> \in Texts /\ Join(s) \o <<"/">> # <<>>
        BY <2>1, <3>1, <4>1, ConcatProperties, ConcatEqualIffEmpty DEF Texts
      <4>3. QED
        BY <2>1, <3>2, <4>2, ConcatEqualIffEmpty DEF Texts
    <3>6. QED
      BY <2>1, <3>3, <3>4, <3>5
  <2>4. QED
    BY <2>2, <2>3
<1>4. \A s \in Seq(Proper) : s \in T
  <2> HIDE DEF T
  <2>1. QED
    BY <1>2, <1>3, SeqInduction
<1>5. QED
  BY <1>1, <1>4, JoinIsText

\* A place beneath another begins with it and a slash.
LEMMA JoinBeneath ==
  ASSUME NEW names \in Seq(Proper), names # <<>>
  PROVE  \A more \in Seq(Proper) : more # <<>> =>
           \E u \in Texts : Join(names \o more) = Join(names) \o <<"/">> \o u
<1> DEFINE j == Join(names)
           T == {more \in Seq(Proper) : more # <<>> =>
                   \E u \in Texts : Join(names \o more) = j \o <<"/">> \o u}
<1>1. /\ Seq(Proper) \subseteq Seq(Parts) /\ <<"/">> \in Texts
      /\ j \in Texts /\ j # <<>> /\ j \o <<"/">> \in Texts
  <2>1. Seq(Proper) \subseteq Seq(Parts)
    BY SeqMonotonic DEF Proper
  <2>2. <<"/">> \in Texts
    BY CommandsAssumption, ShortSequences DEF Texts
  <2>3. j \in Texts /\ j # <<>>
    BY ComponentsOfJoin
  <2>4. QED
    BY <2>1, <2>2, <2>3, ConcatProperties DEF Texts
<1> HIDE DEF j
<1>2. <<>> \in T
  BY ShortSequences
<1>3. ASSUME NEW s \in Seq(Proper), NEW name \in Proper, s \in T PROVE Append(s, name) \in T
  <2>1. /\ name \in Texts /\ name \in Parts /\ Append(s, name) \in Seq(Proper)
        /\ names \o s \in Seq(Parts) /\ names \o Append(s, name) = Append(names \o s, name)
        /\ Join(names \o Append(s, name)) = Joined(Join(names \o s), name)
    <3>1. /\ names \o s \in Seq(Proper) /\ names \o Append(s, name) = Append(names \o s, name)
      BY ConcatAppend
    <3>2. name \in Parts /\ name \in Texts
      BY PartIsText DEF Proper
    <3>3. QED
      BY <1>1, <3>1, <3>2, AppendProperties, JoinAppend
  <2>2. CASE s = <<>>
    <3>1. names \o s = names
      BY <2>2, ConcatEmptySeq
    <3>2. Join(names \o Append(s, name)) = j \o <<"/">> \o name
      BY <1>1, <2>1, <3>1 DEF Joined, j
    <3>3. QED
      BY <2>1, <3>2
  <2>3. CASE s # <<>>
    <3>1. PICK u \in Texts : Join(names \o s) = j \o <<"/">> \o u
      BY <1>3, <2>3
    <3>2. Join(names \o s) # <<>>
      <4>1. j \o <<"/">> # <<>>
        BY <1>1, ConcatEqualIffEmpty DEF Texts
      <4>2. QED
        BY <1>1, <3>1, <4>1, ConcatEqualIffEmpty DEF Texts
    <3>3. Join(names \o Append(s, name)) = (((j \o <<"/">>) \o u) \o <<"/">>) \o name
      BY <2>1, <3>1, <3>2 DEF Joined
    <3> DEFINE slash == <<"/">>
               start == j \o slash
    <3>4. slash \in Texts /\ start \in Texts /\ u \in Texts /\ name \in Texts
      BY <1>1, <2>1, <3>1
    <3>5. Join(names \o Append(s, name)) = ((start \o u) \o slash) \o name
      BY <3>3
    <3> HIDE DEF start, slash
    <3>6. /\ ((start \o u) \o slash) \o name = start \o (u \o (slash \o name))
          /\ u \o (slash \o name) \in Texts
      <4> DEFINE x == start \o u
                 w == slash \o name
      <4>1. /\ start \in Seq(Chars) /\ u \in Seq(Chars) /\ slash \in Seq(Chars)
            /\ name \in Seq(Chars)
        BY <3>4 DEF Texts
      <4>2. x \in Seq(Chars) /\ w \in Seq(Chars)
        BY <4>1, ConcatProperties
      <4>3. /\ \A d \in Seq(Chars) : (start \o u) \o d = start \o (u \o d)
            /\ u \o w \in Seq(Chars)
        <5>1. \A d \in Seq(Chars) : (start \o u) \o d = start \o (u \o d)
          <6>1. start \in Seq(Chars) /\ u \in Seq(Chars)
            BY <4>1
          <6>2. QED
            BY <6>1, ConcatAssociative
        <5>2. u \o w \in Seq(Chars)
          BY <4>1, <4>2, ConcatProperties
        <5>3. QED
          BY <5>1, <5>2
      <4>4. \A d \in Seq(Chars) : (x \o slash) \o d = x \o (slash \o d)
        <5>1. x \in Seq(Chars) /\ slash \in Seq(Chars)
          BY <4>1, <4>2
        <5> HIDE DEF x, w
        <5>2. QED
          BY <5>1, ConcatAssociative, SMTT(30)
      <4>5. QED
        BY <4>1, <4>2, <4>3, <4>4 DEF Texts
    <3>7. \E v \in Texts : Join(names \o Append(s, name)) = start \o v
      BY <3>5, <3>6
    <3>8. QED
      BY <2>1, <3>7, Zenon DEF start, slash
  <2>4. QED
    BY <2>2, <2>3
<1>4. \A s \in Seq(Proper) : s \in T
  <2> HIDE DEF T
  <2>1. QED
    BY <1>2, <1>3, SeqInduction
<1>5. QED
  BY <1>4 DEF j


-----------------------------------------------------------------------------
(* Glob matching, for the patterns of path rules: a text without wildcards, *)
(* or one with a "*" at its end.                                            *)

\* Characters that a pattern in lower case stands for itself with.
Literals == {c \in Chars : Lower(c) = c /\ c \notin {"*", "?"}}

\* A text begins, in lower case, with a literal.
Agrees(text, literal) ==
  Len(literal) <= Len(text) /\ \A i \in 1..Len(literal) : Lower(text[i]) = literal[i]

\* A pattern without wildcards matches at most one beginning of a text, the
\* one that is as long and agrees with it.
LEMMA ReachedLiteral ==
  ASSUME NEW text \in Texts
  PROVE  \A literal \in Seq(Literals) :
           Reached(text, literal) = {n \in {Len(literal)} : Agrees(text, literal)}
<1> DEFINE T == {t \in Seq(Literals) : Reached(text, t) = {n \in {Len(t)} : Agrees(text, t)}}
<1>1. Len(text) \in Nat
  BY LenProperties DEF Texts
<1>2. <<>> \in T
  <2>1. Reached(text, <<>>) = {0}
    BY ReachEmpty
  <2>2. Agrees(text, <<>>) /\ Len(<<>>) = 0
    BY <1>1 DEF Agrees
  <2>3. QED
    BY <2>1, <2>2, ShortSequences
<1>3. ASSUME NEW t \in Seq(Literals), NEW c \in Literals, t \in T PROVE Append(t, c) \in T
  <2>1. /\ t \in Seq(Letter) /\ c \in Letter
        /\ Append(t, c) \in Seq(Literals) /\ Len(Append(t, c)) = Len(t) + 1 /\ Len(t) \in Nat
        /\ Append(t, c)[Len(t) + 1] = c /\ \A i \in 1..Len(t) : Append(t, c)[i] = t[i]
    <3>1. Literals \subseteq Letter
      BY DEF Literals, Letter
    <3>2. QED
      BY <3>1, SeqMonotonic, AppendProperties, LenProperties
  <2>2. Reached(text, Append(t, c)) = Reach(text, Reached(text, t), c)
    BY <2>1, ReachAppend
  <2>3. Reached(text, t) = {n \in {Len(t)} : Agrees(text, t)}
    BY <1>3
  <2>4. c # "*" /\ c # "?" /\ Lower(c) = c
    BY DEF Literals
  <2>5. Reach(text, Reached(text, t), c)
          = {i \in 1..Len(text) : i - 1 \in Reached(text, t) /\ Lower(text[i]) = c}
    BY <2>4 DEF Reach
  <2>6. Agrees(text, Append(t, c)) <=>
          Agrees(text, t) /\ Len(t) + 1 \in 1..Len(text) /\ Lower(text[Len(t) + 1]) = c
    <3>1. \A i \in 1..(Len(t) + 1) : i \in 1..Len(t) \/ i = Len(t) + 1
      BY <2>1
    <3>2. Len(t) + 1 \in 1..(Len(t) + 1) /\ 1..Len(t) \subseteq 1..(Len(t) + 1)
      BY <2>1
    <3>3. Len(t) + 1 <= Len(text) => Len(t) <= Len(text)
      BY <1>1, <2>1
    <3>4. Len(t) + 1 \in 1..Len(text) <=> Len(t) + 1 <= Len(text)
      BY <1>1, <2>1
    <3>5. QED
      BY <2>1, <3>1, <3>2, <3>3, <3>4 DEF Agrees
  <2>7. \A i \in 1..Len(text) : i - 1 = Len(t) <=> i = Len(t) + 1
    BY <1>1, <2>1
  <2>8. {i \in 1..Len(text) : i - 1 \in Reached(text, t) /\ Lower(text[i]) = c}
          = {n \in {Len(t) + 1} : Agrees(text, Append(t, c))}
    BY <2>3, <2>6, <2>7
  <2>9. QED
    BY <2>1, <2>2, <2>5, <2>8
<1>4. \A t \in Seq(Literals) : t \in T
  <2> HIDE DEF T
  <2>1. QED
    BY <1>2, <1>3, SeqInduction
<1>5. QED
  BY <1>4

\* What agrees with a text without wildcards begins with it in lower case.
LEMMA AgreesIs ==
  ASSUME NEW text \in Texts, NEW literal \in Seq(Literals)
  PROVE  /\ literal \in Texts
         /\ Agrees(text, literal) <=> \E u \in Texts : Low(text) = literal \o u
         /\ Agrees(text, literal) /\ Len(literal) = Len(text) <=> Low(text) = literal
<1>1. /\ literal \in Texts /\ Len(literal) \in Nat /\ Len(text) \in Nat
      /\ \A i \in 1..Len(literal) : literal[i] \in Chars
  <2>1. literal \in Seq(Chars)
    BY SeqMonotonic DEF Literals
  <2>2. QED
    BY <2>1, LenProperties, ElementOfSeq DEF Texts
<1>2. /\ Low(text) \in Texts /\ Len(Low(text)) = Len(text)
      /\ \A i \in 1..Len(text) : Low(text)[i] = Lower(text[i])
  BY LowIs
<1>3. ASSUME Agrees(text, literal) PROVE \E u \in Texts : Low(text) = literal \o u
  <2> DEFINE n == Len(literal)
             u == SubSeq(Low(text), n + 1, Len(text))
  <2>1. /\ n + 1 \in 1..(Len(text) + 1) /\ n \in 0..Len(text) /\ Len(text) \in n..Len(text)
        /\ \A i \in 1..n : Lower(text[i]) = literal[i] /\ i \in 1..Len(text)
    BY <1>1, <1>3 DEF Agrees
  <2>2. /\ SubSeq(Low(text), 1, n) \o u = SubSeq(Low(text), 1, Len(text))
        /\ SubSeq(Low(text), 1, Len(text)) = Low(text)
    <3>1. 1 \in 1..(Len(text) + 1) /\ n \in (1 - 1)..Len(text)
      BY <1>1, <2>1
    <3>2. Low(text) \in Seq(Chars)
      BY <1>2 DEF Texts
    <3>3. QED
      BY <1>2, <2>1, <3>1, <3>2, ConcatAdjacentSubSeq, SubSeqFull
  <2>3. SubSeq(Low(text), 1, n) = literal
    <3>1. \A i \in 1..n : Low(text)[i] \in Chars /\ Low(text)[i] = literal[i] /\ 1 + i - 1 = i
      BY <1>1, <1>2, <2>1
    <3>2. 1 \in Int /\ n \in Int /\ n - 1 + 1 = n
      BY <1>1
    <3>3. /\ SubSeq(Low(text), 1, n) \in Seq(Chars)
          /\ Len(SubSeq(Low(text), 1, n)) = IF 1 <= n THEN n - 1 + 1 ELSE 0
          /\ \A i \in 1..(n - 1 + 1) : SubSeq(Low(text), 1, n)[i] = Low(text)[1 + i - 1]
      BY <3>1, <3>2, SubSeqProperties
    <3>4. Len(SubSeq(Low(text), 1, n)) = n
      BY <1>1, <3>2, <3>3
    <3>5. \A i \in 1..Len(SubSeq(Low(text), 1, n)) : SubSeq(Low(text), 1, n)[i] = literal[i]
      BY <3>1, <3>2, <3>3, <3>4
    <3>6. QED
      BY <1>1, <3>3, <3>4, <3>5, SeqEqual DEF Texts
  <2>4. u \in Texts
    <3>1. n + 1 \in Int /\ Len(text) \in Int
          /\ \A i \in (n + 1)..Len(text) : Low(text)[i] \in Chars
      <4>1. \A i \in (n + 1)..Len(text) : i \in 1..Len(Low(text))
        BY <1>1, <1>2
      <4>2. QED
        BY <1>1, <1>2, <4>1, ElementOfSeq DEF Texts
    <3>2. QED
      BY <3>1, SubSeqProperties DEF Texts
  <2>5. Low(text) = literal \o u
    BY <2>2, <2>3
  <2>6. QED
    BY <2>4, <2>5
<1>4. ASSUME NEW u \in Texts, Low(text) = literal \o u PROVE Agrees(text, literal)
  <2>1. /\ Len(literal \o u) = Len(literal) + Len(u) /\ Len(u) \in Nat
        /\ \A i \in 1..(Len(literal) + Len(u)) :
             (literal \o u)[i] = IF i <= Len(literal) THEN literal[i] ELSE u[i - Len(literal)]
    BY <1>1, ConcatProperties, LenProperties DEF Texts
  <2>2. Len(text) = Len(literal) + Len(u)
    BY <1>2, <1>4, <2>1
  <2>3. \A i \in 1..Len(literal) : i \in 1..Len(text) /\ i <= Len(literal)
    BY <1>1, <2>1, <2>2
  <2>4. \A i \in 1..Len(literal) : Lower(text[i]) = literal[i]
    BY <1>2, <1>4, <2>1, <2>2, <2>3
  <2>5. QED
    BY <1>1, <2>1, <2>2, <2>4 DEF Agrees
<1>5. ASSUME Agrees(text, literal), Len(literal) = Len(text) PROVE Low(text) = literal
  <2>1. \A i \in 1..Len(Low(text)) : Low(text)[i] = literal[i]
    BY <1>2, <1>5 DEF Agrees
  <2>2. QED
    BY <1>1, <1>2, <1>5, <2>1, SeqEqual DEF Texts
<1>6. ASSUME Low(text) = literal PROVE Agrees(text, literal) /\ Len(literal) = Len(text)
  BY <1>1, <1>2, <1>6 DEF Agrees
<1>7. QED
  BY <1>1, <1>3, <1>4, <1>5, <1>6

\* A pattern without wildcards matches a text that is the pattern in lower case.
LEMMA GlobLiteral ==
  ASSUME NEW text \in Texts, NEW literal \in Seq(Literals)
  PROVE  GlobMatch(text, literal) <=> Low(text) = literal
<1>1. Reached(text, literal) = {n \in {Len(literal)} : Agrees(text, literal)}
  BY ReachedLiteral
<1>2. Agrees(text, literal) /\ Len(literal) = Len(text) <=> Low(text) = literal
  BY AgreesIs
<1>3. QED
  BY <1>1, <1>2 DEF GlobMatch

\* A pattern whose only wildcard is a "*" at its end matches a text that begins
\* with the rest of the pattern in lower case.
LEMMA GlobStar ==
  ASSUME NEW text \in Texts, NEW literal \in Seq(Literals)
  PROVE  GlobMatch(text, Append(literal, "*")) <=> \E u \in Texts : Low(text) = literal \o u
<1>1. /\ literal \in Seq(Letter) /\ "*" \in Letter
      /\ Len(text) \in Nat /\ Len(literal) \in Nat
  <2>1. Literals \subseteq Letter
    BY DEF Literals, Letter
  <2>2. QED
    BY <2>1, SeqMonotonic, LenProperties DEF Texts, Letter
<1>2. Reached(text, Append(literal, "*"))
        = {i \in 0..Len(text) : \E n \in Reached(text, literal) : n <= i}
  BY <1>1, ReachAppend DEF Reach
<1>3. Reached(text, literal) = {n \in {Len(literal)} : Agrees(text, literal)}
  BY ReachedLiteral
<1>4. Agrees(text, literal) => Len(literal) <= Len(text)
  BY DEF Agrees
<1>5. GlobMatch(text, Append(literal, "*")) <=> Agrees(text, literal)
  BY <1>1, <1>2, <1>3, <1>4 DEF GlobMatch
<1>6. QED
  BY <1>5, AgreesIs


-----------------------------------------------------------------------------
(* The words a path is handed to a tool in, and the paths found in them.   *)

\* Characters that mean nothing to shlex.
Ordinary == Chars \ (Blank \cup Quotes \cup {"\\"})

\* shlex.split leaves a word alone that has no blank, quote or backslash.
LEMMA SplitOrdinary ==
  ASSUME NEW word \in Seq(Ordinary), word # <<>>
  PROVE  Splits(word) /\ Split(word) = <<word>>
<1> DEFINE Read1(t) == [mode |-> "word", word |-> t, words |-> <<>>]
           T == {t \in Seq(Ordinary) : t # <<>> => Lex(t) = Read1(t)}
<1>1. <<>> \in T
  BY ShortSequences
<1>2. ASSUME NEW t \in Seq(Ordinary), NEW c \in Ordinary, t \in T PROVE Append(t, c) \in T
  <2>1. t \in Seq(Chars) /\ c \in Chars /\ Append(t, c) \in Seq(Ordinary)
    <3>1. Ordinary \subseteq Chars
      BY DEF Ordinary
    <3>2. QED
      BY <3>1, SeqMonotonic, AppendProperties
  <2>2. Lex(Append(t, c)) = LexChar(Lex(t), c)
    BY <2>1, LexAppend
  <2>3. c \notin Blank /\ c \notin Quotes /\ c # "\\"
    BY DEF Ordinary
  <2>4. CASE t = <<>>
    <3>1. Lex(t) = LexStart
      BY <2>4, LexEmpty
    <3>2. LexChar(LexStart, c) = Read1(Append(<<>>, c))
      BY <2>3 DEF LexChar, LexStart, Outside, Quotes
    <3>3. QED
      BY <2>1, <2>2, <2>4, <3>1, <3>2
  <2>5. CASE t # <<>>
    <3>1. Lex(t) = Read1(t)
      BY <1>2, <2>5
    <3>2. LexChar(Read1(t), c) = Read1(Append(t, c))
      BY <2>3 DEF LexChar, Outside, Quotes
    <3>3. QED
      BY <2>1, <2>2, <3>1, <3>2
  <2>6. QED
    BY <2>4, <2>5
<1>3. Lex(word) = Read1(word)
  <2>1. \A t \in Seq(Ordinary) : t \in T
    <3> HIDE DEF T
    <3>1. QED
      BY <1>1, <1>2, SeqInduction
  <2>2. QED
    BY <2>1
<1>4. Outside(Lex(word))
  BY <1>3 DEF Outside
<1>5. Split(word) = Append(<<>>, word)
  BY <1>3 DEF Split
<1>6. Append(<<>>, word) = <<word>>
  OBVIOUS
<1>7. QED
  BY <1>4, <1>5, <1>6 DEF Splits

\* A prefix of one character is the first character.
LEMMA StartsWith ==
  ASSUME NEW t \in Texts, NEW c
  PROVE  IsPrefix(<<c>>, t) <=> t # <<>> /\ t[1] = c
<1>1. Len(t) \in Nat /\ (t = <<>> <=> Len(t) = 0) /\ Len(<<c>>) = 1
  BY LenProperties, EmptySeq DEF Texts
<1>2. SubSeq(<<c>>, 1, 1) = <<c>>
  <2>1. <<c>> \in Seq({c})
    BY ShortSequences
  <2>2. QED
    BY <1>1, <2>1, SubSeqFull
<1>3. ASSUME Len(t) >= 1 PROVE SubSeq(t, 1, 1) = <<t[1]>>
  <2>1. 1 \in 1..Len(t) /\ t \in Seq(Chars) /\ t[1] \in Chars
    BY <1>1, <1>3, ElementOfSeq DEF Texts
  <2>2. 1 \in Int /\ \A i \in 1..1 : t[i] \in Chars
    BY <2>1
  <2>3. /\ SubSeq(t, 1, 1) \in Seq(Chars)
        /\ Len(SubSeq(t, 1, 1)) = IF 1 <= 1 THEN 1 - 1 + 1 ELSE 0
        /\ \A i \in 1..(1 - 1 + 1) : SubSeq(t, 1, 1)[i] = t[1 + i - 1]
    BY <2>2, SubSeqProperties
  <2>4. Len(SubSeq(t, 1, 1)) = 1 /\ \A i \in 1..1 : SubSeq(t, 1, 1)[i] = t[i]
    BY <2>3
  <2>5. <<t[1]>> \in Seq(Chars) /\ Len(<<t[1]>>) = 1 /\ \A i \in 1..1 : <<t[1]>>[i] = t[i]
    BY <2>1
  <2>6. QED
    BY <2>3, <2>4, <2>5, SeqEqual
<1>4. QED
  BY <1>1, <1>2, <1>3 DEF IsPrefix

\* A word that starts with a slash is a path; one that starts with neither a
\* slash nor a dot is none.
LEMMA ShapeIs ==
  ASSUME NEW t \in Texts, t # <<>>
  PROVE  /\ t[1] = "/" => PathShaped(t)
         /\ t[1] \notin {"/", "."} => ~PathShaped(t)
<1>1. t[1] = "/" => PathShaped(t)
  BY StartsWith DEF PathShaped
<1>2. ASSUME NEW s \in {<<"/">>, <<".", "/">>, <<".", ".", "/">>}, IsPrefix(s, t)
      PROVE  t[1] \in {"/", "."}
  <2>1. Len(t) \in Nat \ {0} /\ \A i \in 1..Len(t) : t[i] \in Chars
    BY EmptySeq, ElementOfSeq DEF Texts
  <2>2. /\ Len(s) >= 1 /\ Len(s) \in Nat /\ Len(s) <= Len(t)
        /\ s[1] \in {"/", "."} /\ \A i \in 1..Len(s) : s[i] \in {"/", "."}
    <3>1. Len(s) <= Len(t)
      BY <1>2 DEF IsPrefix
    <3>2. CASE s = <<"/">>
      BY <3>1, <3>2
    <3>3. CASE s = <<".", "/">>
      BY <3>1, <3>3
    <3>4. CASE s = <<".", ".", "/">>
      BY <3>1, <3>4
    <3>5. QED
      BY <1>2, <3>2, <3>3, <3>4
  <2>3. SubSeq(s, 1, Len(s)) = SubSeq(t, 1, Len(s))
    BY <1>2 DEF IsPrefix
  <2>4. SubSeq(s, 1, Len(s))[1] = s[1] /\ SubSeq(t, 1, Len(s))[1] = t[1]
    <3>1. 1 \in Int /\ Len(s) \in Int /\ 1 \in 1..(Len(s) - 1 + 1) /\ 1 + 1 - 1 = 1
          /\ \A i \in 1..Len(s) : i \in 1..Len(t)
      BY <2>1, <2>2
    <3>2. \A i \in 1..(Len(s) - 1 + 1) : SubSeq(s, 1, Len(s))[i] = s[1 + i - 1]
      BY <2>2, <3>1, SubSeqProperties
    <3>3. \A i \in 1..(Len(s) - 1 + 1) : SubSeq(t, 1, Len(s))[i] = t[1 + i - 1]
      BY <2>1, <3>1, SubSeqProperties
    <3>4. QED
      BY <3>1, <3>2, <3>3
  <2>5. QED
    BY <2>2, <2>3, <2>4
<1>3. QED
  BY <1>1, <1>2 DEF PathShaped

\* A path behind a few characters.
Behind(q, p, word) ==
  /\ Len(word) = Len(q) + Len(p) /\ word \in Texts /\ word # <<>>
  /\ \A i \in 1..Len(word) : word[i] = IF i <= Len(q) THEN q[i] ELSE p[i - Len(q)]
  /\ From(word, Len(q) + 1) = p

\* A path behind a few characters, by concatenation.
LEMMA BehindIs ==
  ASSUME NEW q \in Texts, NEW p \in Texts, p # <<>>
  PROVE  Behind(q, p, q \o p)
<1>1. /\ Len(q) \in Nat /\ Len(p) \in Nat /\ Len(p) # 0 /\ q \in Seq(Chars) /\ p \in Seq(Chars)
  BY LenProperties, EmptySeq DEF Texts
<1> DEFINE w == q \o p
<1>2. /\ w \in Seq(Chars) /\ Len(w) = Len(q) + Len(p)
      /\ \A i \in 1..(Len(q) + Len(p)) : w[i] = IF i <= Len(q) THEN q[i] ELSE p[i - Len(q)]
  BY <1>1, ConcatProperties
<1> HIDE DEF w
<1>3. /\ Len(q) + 1 \in Int /\ Len(w) \in Int
      /\ \A i \in (Len(q) + 1)..Len(w) : i \in 1..Len(w) /\ w[i] \in Chars
  <2>1. \A i \in (Len(q) + 1)..Len(w) : i \in 1..Len(w)
    BY <1>1, <1>2
  <2>2. QED
    BY <1>1, <1>2, <2>1, ElementOfSeq
<1> DEFINE f == SubSeq(w, Len(q) + 1, Len(w))
<1>4. /\ f \in Seq(Chars)
      /\ Len(f) = IF Len(q) + 1 <= Len(w) THEN Len(w) - (Len(q) + 1) + 1 ELSE 0
      /\ \A i \in 1..(Len(w) - (Len(q) + 1) + 1) : f[i] = w[(Len(q) + 1) + i - 1]
  BY <1>3, SubSeqProperties
<1> HIDE DEF f
<1>5. Len(f) = Len(p) /\ Len(w) - (Len(q) + 1) + 1 = Len(p)
  BY <1>1, <1>2, <1>4
<1>6. \A i \in 1..Len(f) : f[i] = p[i]
  <2> TAKE i \in 1..Len(f)
  <2>1. /\ (Len(q) + 1) + i - 1 = Len(q) + i /\ Len(q) + i \in 1..(Len(q) + Len(p))
        /\ ~(Len(q) + i <= Len(q)) /\ (Len(q) + i) - Len(q) = i
    BY <1>1, <1>5
  <2>2. QED
    BY <1>2, <1>4, <1>5, <2>1
<1>7. f = p
  BY <1>1, <1>4, <1>5, <1>6, SeqEqual
<1>8. w # <<>>
  BY <1>1, <1>2
<1>9. QED
  BY <1>2, <1>7, <1>8 DEF Behind, From, Texts, f, w

\* The first place of a character in such a word.
LEMMA FirstBehind ==
  ASSUME NEW q \in Texts, NEW p \in Texts, NEW word, Behind(q, p, word), NEW c,
         \A i \in 1..Len(q) : q[i] # c
  PROVE  /\ p # <<>> /\ p[1] = c => FirstOf(c, word) = {Len(q) + 1}
         /\ c \notin ToSet(p) => FirstOf(c, word) = {}
<1>1. /\ Len(q) \in Nat /\ Len(p) \in Nat /\ DOMAIN word = 1..Len(word) /\ DOMAIN p = 1..Len(p)
      /\ (p # <<>> => Len(p) # 0)
  BY LenProperties, EmptySeq DEF Behind, Texts
<1>2. /\ Len(word) = Len(q) + Len(p)
      /\ \A i \in 1..Len(word) : word[i] = IF i <= Len(q) THEN q[i] ELSE p[i - Len(q)]
  BY DEF Behind
<1>3. \A i \in 1..Len(word) : i <= Len(q) => word[i] # c
  BY <1>1, <1>2
<1>4. ASSUME p # <<>>, p[1] = c PROVE FirstOf(c, word) = {Len(q) + 1}
  <2>1. Len(q) + 1 \in 1..Len(word) /\ word[Len(q) + 1] = c
    <3>1. Len(q) + 1 \in 1..Len(word) /\ ~(Len(q) + 1 <= Len(q)) /\ (Len(q) + 1) - Len(q) = 1
      BY <1>1, <1>2, <1>4
    <3>2. QED
      BY <1>2, <1>4, <3>1
  <2>2. \A j \in 1..((Len(q) + 1) - 1) : word[j] # c
    BY <1>1, <1>2, <1>3
  <2>3. ASSUME NEW i \in 1..Len(word), word[i] = c, \A j \in 1..(i - 1) : word[j] # c
        PROVE  i = Len(q) + 1
    <3>1. ~(i <= Len(q))
      BY <1>3, <2>3
    <3>2. ~(Len(q) + 1 \in 1..(i - 1))
      BY <2>1, <2>3
    <3>3. QED
      BY <1>1, <1>2, <3>1, <3>2
  <2>4. QED
    BY <1>1, <2>1, <2>2, <2>3 DEF FirstOf
<1>5. ASSUME c \notin ToSet(p) PROVE FirstOf(c, word) = {}
  <2>1. \A i \in 1..Len(p) : p[i] # c
    BY <1>1, <1>5 DEF ToSet
  <2>2. \A i \in 1..Len(word) : ~(i <= Len(q)) => i - Len(q) \in 1..Len(p)
    BY <1>1, <1>2
  <2>3. \A i \in 1..Len(word) : word[i] # c
    BY <1>2, <1>3, <2>1, <2>2
  <2>4. QED
    BY <1>1, <2>3 DEF FirstOf
<1>6. QED
  BY <1>4, <1>5

\* The first "=" behind a key.
LEMMA FirstOfKey ==
  ASSUME NEW q \in Texts, NEW p \in Texts, NEW word, Behind(q, p, word), NEW c, q # <<>>,
         q[Len(q)] = c, \A i \in 1..(Len(q) - 1) : q[i] # c
  PROVE  FirstOf(c, word) = {Len(q)}
<1>1. /\ Len(q) \in Nat /\ Len(q) # 0 /\ Len(p) \in Nat /\ DOMAIN word = 1..Len(word)
  BY LenProperties, EmptySeq DEF Behind, Texts
<1>2. /\ Len(word) = Len(q) + Len(p)
      /\ \A i \in 1..Len(word) : word[i] = IF i <= Len(q) THEN q[i] ELSE p[i - Len(q)]
  BY DEF Behind
<1>3. /\ Len(q) \in 1..Len(word) /\ Len(q) <= Len(q)
      /\ \A i \in 1..(Len(q) - 1) : i \in 1..Len(word) /\ i <= Len(q)
  BY <1>1, <1>2
<1>4. word[Len(q)] = c /\ \A i \in 1..(Len(q) - 1) : word[i] # c
  <2>1. word[Len(q)] = c
    BY <1>2, <1>3
  <2>2. \A i \in 1..(Len(q) - 1) : word[i] = q[i]
    BY <1>2, <1>3
  <2>3. QED
    BY <2>1, <2>2
<1>5. ASSUME NEW i \in 1..Len(word), word[i] = c, \A j \in 1..(i - 1) : word[j] # c
      PROVE  i = Len(q)
  <2>1. ~(i \in 1..(Len(q) - 1)) /\ ~(Len(q) \in 1..(i - 1))
    BY <1>4, <1>5
  <2>2. QED
    BY <1>1, <1>2, <1>3, <2>1
<1>6. QED
  BY <1>1, <1>3, <1>4, <1>5 DEF FirstOf


\* However a path is handed over, shlex.split gives one word and
\* _candidate_paths finds the path in it, and nothing else unless the path has
\* a "=" in it.
LEMMA SpellingIs ==
  ASSUME NEW p \in Texts, IsPrefix(<<"/">>, p),
         ToSet(p) \cap (Blank \cup Quotes \cup {"\\"}) = {},
         NEW word \in Spellings(p)
  PROVE  /\ Splits(word) /\ Split(word) = <<word>>
         /\ p \in CandidatePaths(word)
         /\ "=" \notin ToSet(p) => CandidatePaths(word) = {p}
<1> DEFINE fixed == {<<>>, <<"-", "f">>, <<"k", "=">>, <<"-", "-", "k", "=">>}
<1>1. p # <<>> /\ p[1] = "/" /\ PathShaped(p) /\ ~IsPrefix(<<"-">>, p)
  BY StartsWith, ShapeIs
<1>2. \A q \in fixed : q \in Texts /\ q \in Seq(Ordinary)
  <2>1. {"-", "f", "k", "="} \subseteq Ordinary
    BY CommandsAssumption DEF Ordinary, Blank, Quotes
  <2>2. \A a, b, c, d \in Ordinary :
          /\ <<>> \in Seq(Ordinary) /\ <<a, b>> \in Seq(Ordinary)
          /\ <<a, b, c, d>> \in Seq(Ordinary)
    OBVIOUS
  <2>3. \A q \in fixed : q \in Seq(Ordinary)
    <3>1. /\ <<>> \in Seq(Ordinary) /\ <<"-", "f">> \in Seq(Ordinary)
          /\ <<"k", "=">> \in Seq(Ordinary) /\ <<"-", "-", "k", "=">> \in Seq(Ordinary)
      BY <2>1, <2>2
    <3>2. QED
      BY <3>1
  <2>4. Seq(Ordinary) \subseteq Seq(Chars)
    BY SeqMonotonic DEF Ordinary
  <2>5. QED
    BY <2>3, <2>4 DEF Texts
<1>3. p \in Seq(Ordinary)
  <2>1. Len(p) \in Nat /\ DOMAIN p = 1..Len(p) /\ p \in [1..Len(p) -> Chars]
    BY LenProperties DEF Texts
  <2>2. \A i \in 1..Len(p) : p[i] \in Ordinary
    BY <2>1 DEF ToSet, Ordinary
  <2>3. p \in [1..Len(p) -> Ordinary]
    BY <2>1, <2>2
  <2>4. QED
    BY <2>1, <2>3, SeqDef
<1>4. \A q \in fixed : Behind(q, p, q \o p) /\ q \o p \in Seq(Ordinary)
  BY <1>1, <1>2, <1>3, BehindIs, ConcatProperties
<1>5. PICK q \in fixed : word = q \o p
  <2>1. <<>> \o p = p
    BY ConcatEmptySeq DEF Texts
  <2>2. QED
    BY <2>1 DEF Spellings
<1>6. /\ Behind(q, p, word) /\ q \in Texts /\ word \in Texts /\ word # <<>>
      /\ word \in Seq(Ordinary) /\ From(word, Len(q) + 1) = p
  BY <1>2, <1>4, <1>5 DEF Behind
<1>7. Splits(word) /\ Split(word) = <<word>>
  BY <1>6, SplitOrdinary
<1> DEFINE Found == /\ p \in CandidatePaths(word)
                    /\ "=" \notin ToSet(p) => CandidatePaths(word) = {p}
<1> DEFINE Behindkey == {From(word, i + 1) : i \in FirstOf("=", word)}
           Behindflag == {From(word, i) : i \in FirstOf("/", word)}
<1>8. CandidatePaths(word) = {w \in {word} \cup Behindkey : PathShaped(w)}
                               \cup (IF IsPrefix(<<"-">>, word) THEN Behindflag ELSE {})
  BY DEF CandidatePaths
<1> HIDE DEF Behindkey, Behindflag
<1>9. ASSUME Behindkey = {p}, PathShaped(word) => word = p,
             IsPrefix(<<"-">>, word) => Behindflag = {p}
      PROVE  Found
  <2>1. {w \in {word} \cup Behindkey : PathShaped(w)} = {p}
    BY <1>1, <1>9
  <2>2. CandidatePaths(word) = {p} \cup (IF IsPrefix(<<"-">>, word) THEN {p} ELSE {})
    BY <1>8, <1>9, <2>1
  <2>3. QED
    BY <2>2
<1>10. CASE q = <<>>
  <2>1. word = p
    BY <1>5, <1>10, ConcatEmptySeq DEF Texts
  <2>2. "=" \notin ToSet(p) => FirstOf("=", p) = {}
    <3>1. DOMAIN p = 1..Len(p)
      BY LenProperties DEF Texts
    <3>2. QED
      BY <3>1 DEF FirstOf, ToSet
  <2>3. ~IsPrefix(<<"-">>, word) /\ PathShaped(word)
    BY <1>1, <2>1
  <2>4. "=" \notin ToSet(p) => Behindkey = {}
    BY <2>1, <2>2 DEF Behindkey
  <2>5. CandidatePaths(word) = {w \in {p} \cup Behindkey : PathShaped(w)}
    BY <1>8, <2>1, <2>3
  <2>6. QED
    BY <1>1, <1>7, <2>4, <2>5
<1>11. ASSUME q # <<>> PROVE word[1] = q[1] /\ Len(q) >= 1
  <2>1. Len(q) \in Nat /\ Len(q) # 0 /\ Len(p) \in Nat
    BY <1>6, <1>11, LenProperties, EmptySeq DEF Texts
  <2>2. 1 \in 1..Len(word) /\ 1 <= Len(q)
    BY <1>6, <2>1 DEF Behind
  <2>3. QED
    BY <1>6, <2>2 DEF Behind
<1>12. CASE q = <<"-", "f">>
  <2>1. word[1] = "-" /\ Len(q) = 2 /\ \A i \in 1..Len(q) : q[i] # "/" /\ q[i] # "="
    BY <1>11, <1>12
  <2>2. IsPrefix(<<"-">>, word) /\ ~PathShaped(word)
    BY <1>6, <2>1, StartsWith, ShapeIs
  <2>3. FirstOf("/", word) = {Len(q) + 1}
    <3>1. \A i \in 1..Len(q) : q[i] # "/"
      BY <2>1
    <3>2. QED
      BY <1>1, <1>6, <3>1, FirstBehind
  <2>4. "=" \notin ToSet(p) => FirstOf("=", word) = {}
    <3>1. \A i \in 1..Len(q) : q[i] # "="
      BY <2>1
    <3>2. QED
      BY <1>6, <3>1, FirstBehind
  <2>5. Behindflag = {p}
    BY <1>6, <2>3 DEF Behindflag
  <2>6. "=" \notin ToSet(p) => Behindkey = {}
    BY <2>4 DEF Behindkey
  <2>7. CandidatePaths(word) = {w \in {word} \cup Behindkey : PathShaped(w)} \cup {p}
    BY <1>8, <2>2, <2>5
  <2>8. QED
    BY <1>7, <2>2, <2>6, <2>7
<1>13. CASE q = <<"k", "=">>
  <2>1. /\ word[1] = "k" /\ Len(q) = 2 /\ q[Len(q)] = "=" /\ q # <<>>
        /\ \A i \in 1..(Len(q) - 1) : q[i] # "="
    BY <1>11, <1>13
  <2>2. ~IsPrefix(<<"-">>, word) /\ ~PathShaped(word)
    BY <1>6, <2>1, StartsWith, ShapeIs
  <2>3. FirstOf("=", word) = {Len(q)}
    BY <1>6, <2>1, FirstOfKey
  <2>4. Behindkey = {p}
    BY <1>6, <2>3 DEF Behindkey
  <2>5. QED
    BY <1>9, <1>7, <2>2, <2>4
<1>14. CASE q = <<"-", "-", "k", "=">>
  <2>1. /\ word[1] = "-" /\ Len(q) = 4 /\ q[Len(q)] = "=" /\ q # <<>>
        /\ \A i \in 1..(Len(q) - 1) : q[i] # "="
        /\ \A i \in 1..Len(q) : q[i] # "/"
    BY <1>11, <1>14
  <2>2. IsPrefix(<<"-">>, word) /\ ~PathShaped(word)
    BY <1>6, <2>1, StartsWith, ShapeIs
  <2>3. FirstOf("=", word) = {Len(q)}
    BY <1>6, <2>1, FirstOfKey
  <2>4. FirstOf("/", word) = {Len(q) + 1}
    BY <1>1, <1>6, <2>1, FirstBehind
  <2>5. Behindkey = {p}
    BY <1>6, <2>3 DEF Behindkey
  <2>6. Behindflag = {p}
    BY <1>6, <2>4 DEF Behindflag
  <2>7. QED
    BY <1>9, <1>7, <2>2, <2>5, <2>6
<1>15. QED
  BY <1>5, <1>7, <1>10, <1>12, <1>13, <1>14

-----------------------------------------------------------------------------
(* Path rules: what their patterns match is what they cover.               *)

\* A sequence is a strict prefix of another that has something behind it.
LEMMA StrictPrefixIs ==
  ASSUME NEW S, NEW s \in Seq(S), NEW t \in Seq(S)
  PROVE  IsStrictPrefix(s, t) <=> \E more \in Seq(S) : more # <<>> /\ t = s \o more
<1>1. Len(s) \in Nat /\ Len(t) \in Nat /\ SubSeq(s, 1, Len(s)) = s /\ SubSeq(t, 1, Len(t)) = t
  BY LenProperties, SubSeqFull
<1>2. ASSUME IsStrictPrefix(s, t)
      PROVE  \E more \in Seq(S) : more # <<>> /\ t = s \o more
  <2>1. Len(s) <= Len(t) /\ SubSeq(t, 1, Len(s)) = s /\ s # t
    BY <1>1, <1>2 DEF IsStrictPrefix, IsPrefix
  <2> DEFINE more == SubSeq(t, Len(s) + 1, Len(t))
  <2>2. SubSeq(t, 1, Len(s)) \o more = t
    <3>1. /\ 1 \in 1..(Len(t) + 1) /\ Len(s) \in (1 - 1)..Len(t) /\ Len(t) \in Len(s)..Len(t)
      BY <1>1, <2>1
    <3>2. QED
      BY <1>1, <3>1, ConcatAdjacentSubSeq
  <2>3. more \in Seq(S)
    <3>1. /\ Len(s) + 1 \in Int /\ Len(t) \in Int
          /\ \A i \in (Len(s) + 1)..Len(t) : t[i] \in S
      <4>1. \A i \in (Len(s) + 1)..Len(t) : i \in 1..Len(t)
        BY <1>1
      <4>2. QED
        BY <1>1, <4>1, ElementOfSeq
    <3>2. QED
      BY <3>1, SubSeqProperties
  <2> HIDE DEF more
  <2>4. more # <<>>
    BY <2>1, <2>2, ConcatEmptySeq
  <2>5. QED
    BY <2>1, <2>2, <2>3, <2>4
<1>3. ASSUME NEW more \in Seq(S), more # <<>>, t = s \o more PROVE IsStrictPrefix(s, t)
  <2>1. /\ Len(t) = Len(s) + Len(more) /\ Len(more) \in Nat
        /\ \A i \in 1..(Len(s) + Len(more)) : t[i] = IF i <= Len(s) THEN s[i] ELSE more[i - Len(s)]
    BY <1>3, ConcatProperties, LenProperties
  <2>2. s # t
    BY <1>3, ConcatEqualIffEmpty
  <2>3. /\ 1 \in Int /\ Len(s) \in Int /\ Len(s) - 1 + 1 = Len(s)
        /\ \A i \in 1..Len(s) : i <= Len(s) /\ i \in 1..(Len(s) + Len(more)) /\ 1 + i - 1 = i
    BY <1>1, <2>1
  <2>4. \A i \in 1..Len(s) : t[i] = s[i] /\ t[i] \in S
    BY <2>1, <2>3, ElementOfSeq
  <2>5. /\ SubSeq(t, 1, Len(s)) \in Seq(S)
        /\ Len(SubSeq(t, 1, Len(s))) = IF 1 <= Len(s) THEN Len(s) - 1 + 1 ELSE 0
        /\ \A i \in 1..(Len(s) - 1 + 1) : SubSeq(t, 1, Len(s))[i] = t[1 + i - 1]
    BY <2>3, <2>4, SubSeqProperties
  <2>6. Len(SubSeq(t, 1, Len(s))) = Len(s)
    BY <1>1, <2>3, <2>5
  <2>7. \A i \in 1..Len(SubSeq(t, 1, Len(s))) : SubSeq(t, 1, Len(s))[i] = s[i]
    BY <2>3, <2>4, <2>5, <2>6
  <2>8. SubSeq(t, 1, Len(s)) = s
    BY <2>5, <2>6, <2>7, SeqEqual
  <2>9. Len(s) <= Len(t)
    BY <1>1, <2>1
  <2>10. QED
    BY <1>1, <2>2, <2>8, <2>9 DEF IsStrictPrefix, IsPrefix
<1>4. QED
  BY <1>2, <1>3

\* A path rule of one of the sets.
LEMMA RuleIs ==
  ASSUME NEW rules \in PathRules, NEW rule \in rules
  PROVE  /\ rule.at \in Seq(Proper) /\ rule.at # <<>> /\ rule.beneath \in BOOLEAN
         /\ Join(rule.at) \in Seq(Literals)
<1>1. rule.at \in Seq(Names) /\ rule.at # <<>> /\ rule.beneath \in BOOLEAN
  BY CommandsAssumption
<1>2. Names \subseteq Proper
  BY DEF Names, Proper, Parts
<1>3. \A name \in Names : name \in Seq(Literals)
  <2> TAKE name \in Names
  <2>1. /\ Len(name) \in Nat /\ DOMAIN name = 1..Len(name)
        /\ name \in [1..Len(name) -> Chars \ {"/"}]
        /\ \A i \in DOMAIN name : Lower(name[i]) = name[i] /\ name[i] \notin {"*", "?"}
    BY LenProperties DEF Names
  <2>2. \A i \in 1..Len(name) : name[i] \in Literals
    BY <2>1 DEF Literals
  <2>3. name \in [1..Len(name) -> Literals]
    BY <2>1, <2>2
  <2>4. QED
    BY <2>1, <2>3, SeqDef
<1> DEFINE T == {s \in Seq(Names) : Join(s) \in Seq(Literals)}
<1>4. <<>> \in T
  BY ShortSequences, JoinEmpty
<1>5. ASSUME NEW s \in Seq(Names), NEW name \in Names, s \in T PROVE Append(s, name) \in T
  <2>1. s \in Seq(Parts) /\ name \in Parts /\ Append(s, name) \in Seq(Names)
    BY <1>2, SeqMonotonic, AppendProperties DEF Proper
  <2>2. Join(Append(s, name)) = Joined(Join(s), name)
    BY <2>1, JoinAppend
  <2>3. <<"/">> \in Seq(Literals)
    <3>1. "/" \in Literals
      BY CommandsAssumption DEF Literals, Lower
    <3>2. QED
      BY <3>1, ShortSequences
  <2>4. Join(s) \o <<"/">> \o name \in Seq(Literals) /\ name \in Seq(Literals)
    BY <1>3, <1>5, <2>3, ConcatProperties
  <2>5. QED
    BY <2>1, <2>2, <2>4 DEF Joined
<1>6. \A s \in Seq(Names) : s \in T
  <2> HIDE DEF T
  <2>1. QED
    BY <1>4, <1>5, SeqInduction
<1>7. QED
  BY <1>1, <1>2, <1>6, SeqMonotonic

\* A place is beneath another if its path goes on behind the other's and a
\* slash.
LEMMA BeneathIs ==
  ASSUME NEW at \in Seq(Proper), at # <<>>, NEW loc \in Seq(Proper)
  PROVE  IsStrictPrefix(at, loc)
           <=> \E u \in Texts : Join(loc) = (Join(at) \o <<"/">>) \o u
<1> DEFINE j == Join(at)
           slash == <<"/">>
           z == j \o slash
<1>1. /\ at \in Seq(Parts) /\ loc \in Seq(Parts) /\ j \in Texts /\ slash \in Texts
      /\ Components(j) = at /\ Join(loc) \in Texts /\ (loc = <<>> => Join(loc) = <<>>)
      /\ (loc # <<>> => Components(Join(loc)) = loc)
  <2>1. at \in Seq(Parts) /\ loc \in Seq(Parts)
    BY SeqMonotonic DEF Proper
  <2>2. slash \in Texts
    BY CommandsAssumption, ShortSequences DEF Texts
  <2>3. QED
    BY <2>1, <2>2, JoinIsText, JoinEmpty, ComponentsOfJoin
<1>2. z # <<>> /\ z \in Texts
  BY <1>1, ConcatEqualIffEmpty, ConcatProperties DEF Texts
<1>3. IsStrictPrefix(at, loc)
        <=> \E more \in Seq(Proper) : more # <<>> /\ loc = at \o more
  BY StrictPrefixIs
<1>4. IsStrictPrefix(at, loc)
        <=> \E more \in Seq(Parts) : more # <<>> /\ loc = at \o more
  BY <1>1, StrictPrefixIs
<1>5. ASSUME NEW u \in Texts, Join(loc) = z \o u PROVE IsStrictPrefix(at, loc)
  <2>1. /\ Components(Join(loc)) = at \o Components(u)
        /\ Components(u) # <<>> /\ Components(u) \in Seq(Parts)
    <3>1. Components(u) # <<>> /\ Components(u) \in Seq(Parts)
      BY ComponentsAreCuts DEF Cuts
    <3>2. j \in Texts
      BY <1>1
    <3>3. Components(z \o u) = Components(j) \o Components(u)
      BY <3>2, ComponentsSplit
    <3>4. QED
      BY <1>1, <1>5, <3>1, <3>3
  <2>2. loc # <<>>
    <3>1. z \o u # <<>>
      BY <1>2, ConcatEqualIffEmpty DEF Texts
    <3>2. QED
      BY <1>1, <1>5, <3>1
  <2>3. loc = at \o Components(u)
    BY <1>1, <2>1, <2>2
  <2>4. QED
    BY <1>4, <2>1, <2>3
<1>6. ASSUME IsStrictPrefix(at, loc) PROVE \E u \in Texts : Join(loc) = z \o u
  <2>1. PICK more \in Seq(Proper) : more # <<>> /\ loc = at \o more
    BY <1>3, <1>6
  <2>2. QED
    BY <2>1, JoinBeneath
<1>7. QED
  BY <1>5, <1>6

\* The pattern of a rule matches a path in normal form just if the rule
\* covers where it leads.
LEMMA RuleMatches ==
  ASSUME NEW rules \in PathRules, NEW rule \in rules, NEW text \in Texts,
         NEW loc \in Seq(Proper), Low(text) = <<"/">> \o Join(loc)
  PROVE  GlobMatch(text, Pattern(rule)) <=> Covers(rule, loc)
<1> DEFINE slash == <<"/">>
           at == rule.at
           j == Join(at)
           x == slash \o j
<1>1. /\ at \in Seq(Proper) /\ at # <<>> /\ rule.beneath \in BOOLEAN /\ j \in Seq(Literals)
      /\ j \in Texts /\ j # <<>> /\ Components(j) = at
  BY RuleIs, ComponentsOfJoin
<1>2. slash \in Seq(Literals) /\ slash \in Texts
  <2>1. "/" \in Literals /\ "/" \in Chars
    BY CommandsAssumption DEF Literals, Lower
  <2>2. QED
    BY <2>1, ShortSequences DEF Texts
<1>3. Join(loc) \in Texts /\ (loc = <<>> => Join(loc) = <<>>)
      /\ (loc # <<>> => Join(loc) # <<>> /\ Components(Join(loc)) = loc)
  <2>1. loc \in Seq(Parts)
    BY SeqMonotonic DEF Proper
  <2>2. QED
    BY <2>1, JoinIsText, JoinEmpty, ComponentsOfJoin
<1>4. \A u \in Texts : slash \o Join(loc) = slash \o u => Join(loc) = u
  BY <1>2, <1>3, ConcatSimplifications DEF Texts
<1> HIDE DEF slash, at, j
<1>5. CASE ~rule.beneath
  <2>1. Pattern(rule) = x
    <3>1. Pattern(rule) = x \o <<>>
      BY <1>5 DEF Pattern, slash, j, at
    <3>2. x \in Seq(Literals)
      BY <1>1, <1>2, ConcatProperties
    <3>3. QED
      BY <3>1, <3>2, ConcatEmptySeq
  <2>2. x \in Seq(Literals)
    BY <1>1, <1>2, ConcatProperties
  <2>3. GlobMatch(text, x) <=> slash \o Join(loc) = slash \o j
    BY <2>2, GlobLiteral DEF slash
  <2>4. slash \o Join(loc) = slash \o j <=> loc = at
    <3>1. ASSUME slash \o Join(loc) = slash \o j PROVE loc = at
      <4>1. Join(loc) = j
        BY <1>1, <1>4, <3>1
      <4>2. QED
        BY <1>1, <1>3, <4>1
    <3>2. loc = at => slash \o Join(loc) = slash \o j
      BY DEF j
    <3>3. QED
      BY <3>1, <3>2
  <2>5. Covers(rule, loc) <=> loc = at
    BY <1>5 DEF Covers, at
  <2>6. QED
    BY <2>1, <2>3, <2>4, <2>5
<1>6. CASE rule.beneath
  <2> DEFINE y == x \o slash
  <2>1. x \in Seq(Literals) /\ y \in Seq(Literals)
    BY <1>1, <1>2, ConcatProperties
  <2>2. Pattern(rule) = Append(y, "*")
    <3>1. Pattern(rule) = x \o <<"/", "*">>
      BY <1>6 DEF Pattern, slash, j, at
    <3>2. slash \in Seq(Letter) /\ x \in Seq(Letter) /\ "*" \in Letter
      <4>1. Literals \subseteq Letter /\ "*" \in Letter
        BY DEF Literals, Letter
      <4>2. QED
        BY <1>2, <2>1, <4>1, SeqMonotonic
    <3>3. <<"/", "*">> = Append(slash, "*")
      BY DEF slash
    <3> HIDE DEF x
    <3>4. x \o Append(slash, "*") = Append(x \o slash, "*")
      BY <3>2, ConcatAppend
    <3>5. QED
      BY <3>1, <3>3, <3>4
  <2>3. GlobMatch(text, Append(y, "*")) <=> \E u \in Texts : slash \o Join(loc) = y \o u
    <3> HIDE DEF y
    <3>1. QED
      BY <2>1, GlobStar DEF slash
  <2> DEFINE z == j \o slash
  <2>4. /\ slash \in Seq(Chars) /\ j \in Seq(Chars) /\ z \in Seq(Chars)
        /\ \A d \in Seq(Chars) : (slash \o j) \o d = slash \o (j \o d)
    <3>1. slash \in Seq(Chars) /\ j \in Seq(Chars)
      BY <1>1, <1>2 DEF Texts
    <3>2. \A d \in Seq(Chars) : (slash \o j) \o d = slash \o (j \o d)
      BY <3>1, ConcatAssociative, SMTT(30)
    <3>3. QED
      BY <3>1, <3>2, ConcatProperties
  <2>5. y = slash \o z
    BY <2>4
  <2>6. \A d \in Seq(Chars) : (slash \o z) \o d = slash \o (z \o d)
    <3>1. slash \in Seq(Chars) /\ z \in Seq(Chars)
      BY <2>4
    <3> HIDE DEF x, y, z
    <3>2. QED
      BY <3>1, ConcatAssociative, SMTT(30)
  <2>7. \A u \in Texts : y \o u = slash \o (z \o u) /\ z \o u \in Texts
    <3> HIDE DEF y, z
    <3>1. QED
      BY <2>4, <2>5, <2>6, ConcatProperties DEF Texts
  <2>8. \A u \in Texts : slash \o Join(loc) = y \o u <=> Join(loc) = z \o u
    <3> TAKE u \in Texts
    <3> DEFINE zu == z \o u
    <3>1. y \o u = slash \o zu /\ zu \in Texts
      BY <2>7
    <3>2. slash \o Join(loc) = slash \o zu => Join(loc) = zu
      <4> HIDE DEF zu
      <4>1. QED
        BY <1>4, <3>1
    <3> HIDE DEF y, zu
    <3>3. slash \o Join(loc) = y \o u <=> Join(loc) = zu
      BY <3>1, <3>2
    <3>4. QED
      BY <3>3 DEF zu
  <2>9. IsStrictPrefix(at, loc) <=> \E u \in Texts : Join(loc) = z \o u
    BY <1>1, BeneathIs DEF j, slash
  <2>10. Covers(rule, loc) <=> IsStrictPrefix(at, loc)
    BY <1>6 DEF Covers, at
  <2> HIDE DEF y, z
  <2>11. QED
    BY <2>2, <2>3, <2>8, <2>9, <2>10
<1>7. QED
  BY <1>1, <1>5, <1>6

(***************************************************************************)
(* However an absolute path is spelled, check_paths rejects it if it leads *)
(* to a place the path rules deny, and a path in normal form only then,    *)
(* for every alphabet, paths of any length and all rules in normal form    *)
(* (check_paths, filter.py:93-117).                                        *)
(***************************************************************************)
THEOREM PathsAreChecked == Spec => []NoSpellingEscapes
<1>1. IInv => NoSpellingEscapes
  <2> SUFFICES ASSUME IInv, IsPrefix(<<"/">>, command),
                      ToSet(command) \cap (Blank \cup Quotes \cup {"\\"}) = {},
                      NEW rules \in PathRules, NEW word \in Spellings(command)
      PROVE LET covered == \E r \in rules : Covers(r, Location(Low(command)))
                denied == ~CheckPaths(word, {Pattern(r) : r \in rules})
            IN /\ covered => denied
               /\ /\ command = <<"/">> \o Join(Location(command))
                  /\ "=" \notin ToSet(command) /\ denied
                  => covered
    BY DEF NoSpellingEscapes, Low
  <2> DEFINE loc == Location(Low(command))
             deny == {Pattern(r) : r \in rules}
             normal == NormalizePath(command)
             covered == \E r \in rules : Covers(r, loc)
  <2>1. command \in Texts
    BY DEF IInv, SideBySide, ReadersTypeOK, Texts
  <2>2. /\ Low(command) \in Texts /\ IsPrefix(<<"/">>, Low(command))
    <3>1. command # <<>> /\ command[1] = "/"
      BY <2>1, StartsWith
    <3>2. Len(command) \in Nat /\ Len(command) # 0
      BY <2>1, <3>1, LenProperties, EmptySeq DEF Texts
    <3>3. Low(command) \in Texts /\ Low(command)[1] = Lower("/") /\ Low(command) # <<>>
      BY <2>1, <3>1, <3>2, LowIs, LowShort
    <3>4. QED
      BY <3>3, StartsWith DEF Lower
  <2>3. /\ loc \in Seq(Proper) /\ loc = Each(Location(command))
        /\ Location(command) \in Seq(Parts)
        /\ normal = <<"/">> \o Join(Location(command))
    <3>1. /\ Components(Low(command)) = Each(Components(command))
          /\ Components(command) \in Seq(Parts)
      BY <2>1, EachComponents, ComponentsAreCuts DEF Cuts
    <3>2. QED
      BY <2>1, <2>2, <3>1, NormalIs, EachTaken
  <2>4. normal \in Texts /\ Low(normal) = <<"/">> \o Join(loc)
    <3>1. <<"/">> \in Texts /\ Low(<<"/">>) = <<"/">>
      BY <2>1, CommandsAssumption, ShortSequences, LowShort DEF Texts
    <3>2. Join(Location(command)) \in Texts /\ Join(loc) = Low(Join(Location(command)))
      BY <2>3, JoinIsText, EachJoin
    <3>3. QED
      BY <2>3, <3>1, <3>2, LowConcat
  <2> HIDE DEF loc, normal
  <2>5. MatchesAny(normal, deny) <=> covered
    BY <2>3, <2>4, RuleMatches DEF MatchesAny
  <2>6. /\ Splits(word) /\ Split(word) = <<word>> /\ command \in CandidatePaths(word)
        /\ "=" \notin ToSet(command) => CandidatePaths(word) = {command}
    BY <2>1, SpellingIs
  <2>7. ~CheckPaths(word, deny) <=>
          /\ deny # {}
          /\ \E p \in CandidatePaths(word) :
               MatchesAny(p, deny) \/ MatchesAny(NormalizePath(p), deny)
    <3>1. ToSet(<<word>>) = {word}
      BY DEF ToSet
    <3> HIDE DEF deny
    <3>2. QED
      BY <2>6, <3>1 DEF CheckPaths, CheckWords
  <2>8. covered => ~CheckPaths(word, deny)
    <3>1. covered => deny # {}
      OBVIOUS
    <3> HIDE DEF covered, deny
    <3>2. QED
      BY <2>5, <2>6, <2>7, <3>1 DEF normal
  <2>9. ASSUME normal = command, "=" \notin ToSet(command), ~CheckPaths(word, deny)
        PROVE  covered
    <3> HIDE DEF covered, deny
    <3>1. QED
      BY <2>5, <2>6, <2>7, <2>9 DEF normal
  <2>10. QED
    <3>1. command = <<"/">> \o Join(Location(command)) => normal = command
      BY <2>3
    <3>2. QED
      BY <2>8, <2>9, <3>1 DEF loc
<1>2. QED
  BY <1>1, Invariance, PTL
=============================================================================
