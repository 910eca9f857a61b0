--------------------------- MODULE Commands_proofs ---------------------------
(***************************************************************************)
(* Proofs about the scanner of pipeline.py and shlex, for every alphabet   *)
(* and commands of any length.                                             *)
(***************************************************************************)
EXTENDS Commands, Text_proofs

USE QuotingAssumption

\* Two readers in the same quotes stay so, over any character that does not
\* part them.
LEMMA SameTurn ==
  ASSUME NEW s \in Scans, NEW x \in Lexes, NEW c \in Chars, s.skip => s.quote # "no",
         x.mode # "escape", s.quote = "no" <=> Outside(x), s.quote = "'" <=> x.mode = "'",
         x.mode = "in quotes" <=> s.quote = "\"" /\ s.skip,
         ~(c = "\\" /\ Outside(x)), ~(c = "'" /\ x.mode = "'" /\ s.skip)
  PROVE  LET t == ScanChar(s, c)
             y == LexChar(x, c)
         IN /\ y.mode # "escape"
            /\ t.quote = "no" <=> Outside(y)
            /\ t.quote = "'" <=> y.mode = "'"
            /\ y.mode = "in quotes" <=> t.quote = "\"" /\ t.skip
<1> DEFINE t == ScanChar(s, c)
           y == LexChar(x, c)
<1>1. /\ t.skip <=> s.quote # "no" /\ ~s.skip /\ c # s.quote /\ c = "\\"
      /\ t.quote = IF s.quote = "no" THEN (IF c \in Quotes THEN c ELSE "no")
                   ELSE IF c = s.quote /\ ~s.skip THEN "no" ELSE s.quote
  BY ScanTurn
<1>2. /\ Outside(x) => IF c \in Quotes THEN y.mode = c
                       ELSE IF c = "\\" THEN y.mode = "escape" ELSE Outside(y)
      /\ x.mode = "'" => IF c = "'" THEN y.mode = "word" ELSE y.mode = "'"
      /\ x.mode = "\"" => IF c = "\"" THEN y.mode = "word"
                          ELSE IF c = "\\" THEN y.mode = "in quotes" ELSE y.mode = "\""
      /\ x.mode = "in quotes" => y.mode = "\""
  BY LexTurn
<1>3. s.quote \in {"no", "'", "\""}
  BY DEF Scans, Quotes
<1>4. CASE s.quote = "no"
  BY <1>1, <1>2, <1>4 DEF Outside, Quotes
<1>5. CASE s.quote = "'"
  BY <1>1, <1>2, <1>5 DEF Outside, Quotes
<1>6. CASE s.quote = "\""
  <2>1. x.mode \in {"\"", "in quotes"}
    BY <1>6 DEF Lexes, Quotes, Outside
  <2>2. QED
    BY <1>1, <1>2, <1>6, <2>1 DEF Outside, Quotes
<1>7. QED
  BY <1>3, <1>4, <1>5, <1>6

-----------------------------------------------------------------------------
(* What the readers have taken so far.                                     *)

\* The members of a longer sequence.
LEMMA MembersGrow ==
  ASSUME NEW S, NEW s \in Seq(S), NEW e \in S
  PROVE  ToSet(Append(s, e)) = ToSet(s) \cup {e}
<1>1. /\ Len(s) \in Nat /\ DOMAIN s = 1..Len(s) /\ DOMAIN Append(s, e) = 1..(Len(s) + 1)
      /\ Append(s, e)[Len(s) + 1] = e /\ \A i \in 1..Len(s) : Append(s, e)[i] = s[i]
  BY LenProperties, AppendProperties
<1>2. 1..(Len(s) + 1) = (1..Len(s)) \cup {Len(s) + 1}
  BY <1>1
<1>3. QED
  BY <1>1, <1>2 DEF ToSet

LEMMA EmptyNeverEscapes == NeverEscapes(<<>>)
<1>1. \A k \in 0..Len(<<>>) : SubSeq(<<>>, 1, k) = <<>>
  <2>1. Len(<<>>) = 0 /\ SubSeq(<<>>, 1, 0) = <<>>
    BY SubSeqEmpty
  <2>2. QED
    BY <2>1
<1>2. Lex(<<>>).mode # "escape"
  BY LexEmpty DEF LexStart
<1>3. QED
  BY <1>1, <1>2 DEF NeverEscapes

LEMMA GrowsUnescaped ==
  ASSUME NEW t \in Seq(Chars), NEW c \in Chars, NeverEscapes(t),
         Lex(Append(t, c)).mode # "escape"
  PROVE  NeverEscapes(Append(t, c))
<1> DEFINE long == Append(t, c)
<1>1. /\ long \in Seq(Chars) /\ Len(t) \in Nat /\ Len(long) = Len(t) + 1
      /\ \A i \in 1..Len(t) : long[i] = t[i]
  BY AppendProperties, LenProperties
<1>2. SubSeq(long, 1, Len(long)) = long
  BY <1>1, SubSeqFull
<1>3. ASSUME NEW k \in 0..Len(t) PROVE SubSeq(long, 1, k) = SubSeq(t, 1, k)
  <2> HIDE DEF long
  <2>1. /\ 1 \in Int /\ k \in Int /\ k - 1 + 1 = k
        /\ \A i \in 1..k : t[i] \in Chars /\ long[i] \in Chars /\ long[i] = t[i]
        /\ \A i \in 1..k : 1 + i - 1 = i
    BY <1>1, ElementOfSeq
  <2>2. /\ SubSeq(long, 1, k) \in Seq(Chars) /\ SubSeq(t, 1, k) \in Seq(Chars)
        /\ Len(SubSeq(long, 1, k)) = Len(SubSeq(t, 1, k))
        /\ Len(SubSeq(long, 1, k)) = IF 1 <= k THEN k - 1 + 1 ELSE 0
    BY <2>1, SubSeqProperties
  <2>3. /\ \A i \in 1..k : SubSeq(long, 1, k)[i] = long[i]
        /\ \A i \in 1..k : SubSeq(t, 1, k)[i] = t[i]
    BY <2>1, SubSeqProperties
  <2>4. Len(SubSeq(long, 1, k)) = k
    BY <2>2
  <2>5. \A i \in 1..Len(SubSeq(long, 1, k)) : SubSeq(long, 1, k)[i] = SubSeq(t, 1, k)[i]
    BY <2>1, <2>3, <2>4
  <2>6. QED
    BY <2>2, <2>5, SeqEqual
<1>4. ASSUME NEW k \in 0..Len(long) PROVE Lex(SubSeq(long, 1, k)).mode # "escape"
  <2>1. CASE k = Len(long)
    BY <1>2, <2>1
  <2>2. CASE k # Len(long)
    <3>1. k \in 0..Len(t)
      BY <1>1, <2>2
    <3> HIDE DEF long
    <3>2. QED
      BY <1>3, <3>1 DEF NeverEscapes
  <2>3. QED
    BY <2>1, <2>2
<1>5. QED
  BY <1>4 DEF NeverEscapes

-----------------------------------------------------------------------------
(* The invariant.                                                          *)

LEMMA InitIInv == Init => IInv
<1> SUFFICES ASSUME Init PROVE IInv
  OBVIOUS
<1>1. ReadersTypeOK
  BY StartIsTyped, ShortSequences DEF Init, NothingRead, ReadersTypeOK
<1>2. InStep
  BY DEF Init, NothingRead, InStep, SameQuotes, Outside, LexStart, ScanStart
<1>3. SplitAgreesWithShlex
  BY DEF Init, NothingRead, SplitAgreesWithShlex
<1>4. AsFolded
  <2>1. scan.segments = <<>> /\ scan.buf = <<>> /\ command = <<>>
    BY DEF Init, NothingRead, ScanStart
  <2>2. scan = Scan(command) /\ whole = Lex(command) /\ part = Lex(scan.buf)
    BY <2>1, ScanEmpty, LexEmpty DEF Init, NothingRead
  <2>3. ToSet(scan.segments) = {}
    BY <2>1 DEF ToSet
  <2>4. NeverEscapes(scan.buf)
    BY <2>1, EmptyNeverEscapes
  <2>5. QED
    BY <2>1, <2>2, <2>3, <2>4 DEF AsFolded
<1>5. QED
  BY <1>1, <1>2, <1>3, <1>4 DEF Init, IInv, SideBySide

\* Only characters of the alphabet are read.
LEMMA OfferedIsChars == keyboard \in Keyboards /\ command \in Seq(Chars) => Offered \subseteq Chars
<1> SUFFICES ASSUME keyboard \in Keyboards, command \in Seq(Chars)
             PROVE  Offered \subseteq Chars
  OBVIOUS
<1>1. keyboard.prefix \in Seq(Chars) /\ keyboard.keys \subseteq Chars
  BY CommandsAssumption
<1>2. Len(command) \in Nat /\ Len(keyboard.prefix) \in Nat
  BY <1>1, LenProperties
<1>3. CASE Len(command) < Len(keyboard.prefix)
  <2>1. keyboard.prefix[Len(command) + 1] \in Chars
    BY <1>1, <1>2, <1>3, ElementOfSeq
  <2>2. QED
    BY <1>3, <2>1 DEF Offered
<1>4. CASE ~(Len(command) < Len(keyboard.prefix))
  BY <1>1, <1>4 DEF Offered
<1>5. QED
  BY <1>3, <1>4

\* A segment ends at a pipe outside the scanner's quotes, and only there.
LEMMA SegmentEnds ==
  ASSUME SideBySide, NEW c \in Chars
  PROVE  EndsSegment(c) <=> scan.quote = "no" /\ c = "|"
<1>1. /\ scan \in Scans /\ (scan.skip => scan.quote # "no")
      /\ scan.segments \in Seq(Seq(Chars)) /\ scan.buf \in Seq(Chars)
  BY DEF SideBySide, ReadersTypeOK, InStep, Scans
<1>2. ScanChar(scan, c).segments = IF scan.quote = "no" /\ c = "|"
                                   THEN Append(scan.segments, scan.buf) ELSE scan.segments
  BY <1>1, ScanTurn
<1>3. /\ Len(scan.segments) \in Nat
      /\ Len(Append(scan.segments, scan.buf)) = Len(scan.segments) + 1
  BY <1>1, AppendProperties, LenProperties
<1>4. QED
  BY <1>2, <1>3 DEF EndsSegment

LEMMA ReadIsTyped ==
  ASSUME SideBySide, NEW c \in Chars, Read(c)
  PROVE  ReadersTypeOK'
<1>1. /\ command \in Seq(Chars) /\ scan \in Scans /\ whole \in Lexes /\ part \in Lexes
      /\ scan.skip => scan.quote # "no"
      /\ cuts \cup bare \subseteq 1..Len(command)
      /\ unsplit \in BOOLEAN /\ parted \in BOOLEAN
  BY DEF SideBySide, ReadersTypeOK, InStep
<1>2. /\ command' \in Seq(Chars) /\ Len(command) \in Nat /\ Len(command') = Len(command) + 1
  BY <1>1, AppendProperties, LenProperties DEF Read
<1>3. scan' \in Scans
  BY <1>1, ScanTurn DEF Read
<1>4. whole' \in Lexes /\ part' \in Lexes
  BY <1>1, LexTurn, StartIsTyped DEF Read
<1>5. cuts' \cup bare' \subseteq 1..Len(command')
  <2>1. cuts' \subseteq cuts \cup {Len(command')} /\ bare' \subseteq bare \cup {Len(command')}
    BY DEF Read
  <2>2. QED
    BY <1>1, <1>2, <2>1
<1>6. unsplit' \in BOOLEAN /\ parted' \in BOOLEAN
  BY DEF Read
<1>7. QED
  BY <1>2, <1>3, <1>4, <1>5, <1>6 DEF ReadersTypeOK

LEMMA ReadInStep ==
  ASSUME SideBySide, NEW c \in Chars, Read(c)
  PROVE  InStep'
<1>1. /\ scan \in Scans /\ whole \in Lexes /\ part \in Lexes
      /\ scan.skip => scan.quote # "no"
      /\ scan' = ScanChar(scan, c)
  BY DEF SideBySide, ReadersTypeOK, InStep, Read
<1>2. /\ scan'.skip => scan'.quote # "no"
      /\ scan.quote = "no" /\ c = "|" => scan'.quote = "no" /\ ~scan'.skip
  <2>1. /\ scan'.skip <=> scan.quote # "no" /\ ~scan.skip /\ c # scan.quote /\ c = "\\"
        /\ scan'.quote = IF scan.quote = "no" THEN (IF c \in Quotes THEN c ELSE "no")
                         ELSE IF c = scan.quote /\ ~scan.skip THEN "no" ELSE scan.quote
    BY <1>1, ScanTurn
  <2>2. QED
    BY <2>1 DEF Quotes
<1>3. ASSUME ~parted'
      PROVE  SameQuotes(whole)' /\ SameQuotes(part)' /\ ~unsplit'
  <2>1. ~parted /\ ~PartsThem(c)
    BY <1>3 DEF Read
  <2>2. SameQuotes(whole) /\ SameQuotes(part) /\ ~unsplit
    BY <2>1 DEF SideBySide, InStep
  <2>3. \A x \in {whole, part} :
          LET y == LexChar(x, c)
          IN /\ y.mode # "escape"
             /\ scan'.quote = "no" <=> Outside(y)
             /\ scan'.quote = "'" <=> y.mode = "'"
             /\ y.mode = "in quotes" <=> scan'.quote = "\"" /\ scan'.skip
    <3> TAKE x \in {whole, part}
    <3>1. /\ x \in Lexes /\ x.mode # "escape"
          /\ scan.quote = "no" <=> Outside(x)
          /\ scan.quote = "'" <=> x.mode = "'"
          /\ x.mode = "in quotes" <=> scan.quote = "\"" /\ scan.skip
      BY <1>1, <2>2 DEF SameQuotes
    <3>2. ~(c = "\\" /\ Outside(x)) /\ ~(c = "'" /\ x.mode = "'" /\ scan.skip)
      BY <2>1, <2>2, <3>1 DEF PartsThem, SameQuotes
    <3>3. QED
      BY <1>1, <3>1, <3>2, SameTurn
  <2>4. SameQuotes(whole)'
    BY <2>3 DEF SameQuotes, Read
  <2>5. CASE EndsSegment(c)
    <3>1. scan.quote = "no" /\ c = "|" /\ part' = LexStart
      BY <2>5, SegmentEnds DEF Read
    <3>2. Outside(part)
      BY <2>2, <3>1 DEF SameQuotes
    <3>3. ~unsplit'
      BY <2>2, <3>2 DEF Read
    <3>4. part'.mode = "gap"
      BY <3>1 DEF LexStart
    <3>5. SameQuotes(part)'
      BY <1>2, <3>1, <3>4 DEF SameQuotes, Outside
    <3>6. QED
      BY <2>4, <3>3, <3>5
  <2>6. CASE ~EndsSegment(c)
    <3>1. part' = LexChar(part, c) /\ ~unsplit'
      BY <2>2, <2>6 DEF Read
    <3>2. QED
      BY <2>3, <2>4, <3>1 DEF SameQuotes
  <2>7. QED
    BY <2>5, <2>6
<1>4. QED
  BY <1>2, <1>3 DEF InStep

LEMMA ReadAgrees ==
  ASSUME SideBySide, NEW c \in Chars, Read(c)
  PROVE  SplitAgreesWithShlex'
<1> SUFFICES ASSUME ~parted' PROVE cuts' = bare'
  BY DEF SplitAgreesWithShlex
<1>1. ~parted /\ cuts = bare
  BY DEF Read, SideBySide, SplitAgreesWithShlex
<1>2. EndsSegment(c) <=> c = "|" /\ Outside(whole)
  BY <1>1, SegmentEnds DEF SideBySide, InStep, SameQuotes
<1>3. QED
  BY <1>1, <1>2 DEF Read

\* The turns taken stay the folds over what was read.
LEMMA ReadFolded ==
  ASSUME SideBySide, NEW c \in Chars, Read(c), InStep'
  PROVE  AsFolded'
<1>1. /\ command \in Seq(Chars) /\ scan \in Scans /\ whole \in Lexes /\ part \in Lexes
      /\ scan.skip => scan.quote # "no"
      /\ scan.buf \in Seq(Chars) /\ scan.segments \in Seq(Seq(Chars))
  BY DEF SideBySide, ReadersTypeOK, InStep, Scans
<1>2. scan = Scan(command) /\ whole = Lex(command) /\ part = Lex(scan.buf)
  BY DEF SideBySide, AsFolded
<1>3. scan' = Scan(command') /\ whole' = Lex(command')
  BY <1>1, <1>2, ScanAppend, LexAppend DEF Read
<1>4. /\ scan'.segments = IF EndsSegment(c) THEN Append(scan.segments, scan.buf) ELSE scan.segments
      /\ scan'.buf = IF EndsSegment(c) THEN <<>> ELSE Append(scan.buf, c)
  BY <1>1, ScanTurn, SegmentEnds DEF Read
<1>5. part' = Lex(scan'.buf)
  BY <1>1, <1>2, <1>4, LexAppend, LexEmpty DEF Read
<1>6. /\ Append(scan.segments, scan.buf) # <<>>
      /\ ToSet(Append(scan.segments, scan.buf)) = ToSet(scan.segments) \cup {scan.buf}
  BY <1>1, MembersGrow, AppendProperties, SMTT(30)
<1>7. scan'.segments = <<>> => scan'.buf = command'
  BY <1>4, <1>6 DEF SideBySide, AsFolded, Read
<1>8. ASSUME ~unsplit' PROVE \A seg \in ToSet(scan'.segments) : Splits(seg)
  <2>1. /\ \A seg \in ToSet(scan.segments) : Splits(seg)
        /\ EndsSegment(c) => Outside(part)
    BY <1>8 DEF SideBySide, AsFolded, Read
  <2>2. EndsSegment(c) => Splits(scan.buf)
    BY <1>2, <2>1 DEF Splits
  <2>3. QED
    BY <1>4, <1>6, <2>1, <2>2
<1>9. ASSUME ~parted' PROVE \A seg \in ToSet(scan'.segments) \cup {scan'.buf} : NeverEscapes(seg)
  <2>1. \A seg \in ToSet(scan.segments) \cup {scan.buf} : NeverEscapes(seg)
    BY <1>9 DEF SideBySide, AsFolded, Read
  <2>2. part'.mode # "escape"
    BY <1>9 DEF InStep, SameQuotes
  <2>3. NeverEscapes(scan'.buf)
    <3>1. CASE EndsSegment(c)
      BY <1>4, <3>1, EmptyNeverEscapes
    <3>2. CASE ~EndsSegment(c)
      BY <1>1, <1>4, <1>5, <2>1, <2>2, <3>2, GrowsUnescaped
    <3>3. QED
      BY <3>1, <3>2
  <2>4. QED
    BY <1>4, <1>6, <2>1, <2>3
<1>10. QED
  BY <1>3, <1>5, <1>7, <1>8, <1>9 DEF AsFolded

(***************************************************************************)
(* IInv holds however much of a command has been read (_scan_segments,     *)
(* pipeline.py:40-79, beside shlex), and what has been read of it is what  *)
(* the two loops return for it.                                            *)
(***************************************************************************)
THEOREM Invariance == Spec => []IInv
<1>1. IInv /\ [Next]_vars => IInv'
  <2> SUFFICES ASSUME IInv, [Next]_vars PROVE IInv'
    OBVIOUS
  <2>1. ASSUME NEW c \in Offered, Read(c), UNCHANGED keyboard PROVE IInv'
    <3>1. SideBySide /\ c \in Chars
      BY OfferedIsChars DEF IInv, SideBySide, ReadersTypeOK
    <3>2. ReadersTypeOK' /\ InStep' /\ SplitAgreesWithShlex'
      BY <2>1, <3>1, ReadIsTyped, ReadInStep, ReadAgrees
    <3>3. AsFolded'
      BY <2>1, <3>1, <3>2, ReadFolded
    <3>4. QED
      BY <2>1, <3>2, <3>3 DEF IInv, SideBySide
  <2>2. CASE UNCHANGED vars
    BY <2>2 DEF vars, readers, IInv, SideBySide, ReadersTypeOK, InStep, SameQuotes,
                Outside, SplitAgreesWithShlex, AsFolded
  <2>3. QED
    BY <2>1, <2>2 DEF Next
<1>2. QED
  BY <1>1, InitIInv, PTL DEF Spec

(***************************************************************************)
(* The scanner cuts a command at exactly the pipes that shlex sees outside *)
(* quotes, for commands of any length without a character that parts them. *)
(***************************************************************************)
THEOREM SplitsAgree == Spec => []SplitAgreesWithShlex
<1>1. IInv => SplitAgreesWithShlex
  BY DEF IInv, SideBySide
<1>2. QED
  BY <1>1, Invariance, PTL

-----------------------------------------------------------------------------
(* What the texts of a command that parses are.                            *)

LEMMA Parsed ==
  ASSUME SideBySide, ParsePipeline(command) # <<>>
  PROVE  LET segs == Append(scan.segments, scan.buf)
         IN /\ scan.quote = "no" /\ ScanSegments(command).segments = segs
            /\ segs \in Seq(Seq(Chars)) /\ ToSet(segs) = ToSet(scan.segments) \cup {scan.buf}
            /\ ParsePipeline(command) = [i \in DOMAIN segs |-> Strip(segs[i])]
<1> DEFINE segs == Append(scan.segments, scan.buf)
<1>1. scan.buf \in Seq(Chars) /\ scan.segments \in Seq(Seq(Chars)) /\ scan = Scan(command)
  BY DEF SideBySide, ReadersTypeOK, AsFolded, Scans
<1>2. segs \in Seq(Seq(Chars)) /\ ToSet(segs) = ToSet(scan.segments) \cup {scan.buf}
  BY <1>1, MembersGrow, AppendProperties
<1>3. ScanSegments(command) = [legal |-> ~scan.bad /\ scan.quote = "no", segments |-> segs]
  BY <1>1 DEF ScanSegments
<1>4. /\ ScanSegments(command).segments = segs
      /\ ScanSegments(command).legal => scan.quote = "no"
  <2>1. \A a, b : /\ [legal |-> a, segments |-> b].segments = b
                 /\ [legal |-> a, segments |-> b].legal = a
    OBVIOUS
  <2> HIDE DEF segs
  <2>2. QED
    BY <1>3, <2>1, ZenonT(30)
<1> HIDE DEF segs
<1>5. /\ ScanSegments(command).legal
      /\ ParsePipeline(command) = [i \in DOMAIN segs |-> Strip(segs[i])]
  BY <1>4 DEF ParsePipeline
<1>6. QED
  BY <1>2, <1>4, <1>5 DEF segs

(***************************************************************************)
(* Such a command, if parse_pipeline lets it pass, is split by shlex       *)
(* without a ValueError, whole and segment by segment: run_tool and        *)
(* run_pipeline do not catch one (cli_executor.py:102, :204).              *)
(***************************************************************************)
THEOREM LegalCommandsSplit == Spec => []LegalIsSplittable
<1>1. IInv => LegalIsSplittable
  <2> SUFFICES ASSUME IInv, ~parted, ParsePipeline(command) # <<>>
               PROVE  /\ Splits(command)
                      /\ \A seg \in ToSet(ParsePipeline(command)) : Splits(seg)
    BY DEF LegalIsSplittable
  <2> DEFINE segs == Append(scan.segments, scan.buf)
  <2>1. /\ SideBySide /\ whole = Lex(command) /\ part = Lex(scan.buf)
        /\ SameQuotes(whole) /\ SameQuotes(part) /\ ~unsplit
    BY DEF IInv, SideBySide, InStep, AsFolded
  <2>2. /\ scan.quote = "no"
        /\ segs \in Seq(Seq(Chars)) /\ ToSet(segs) = ToSet(scan.segments) \cup {scan.buf}
        /\ ParsePipeline(command) = [i \in DOMAIN segs |-> Strip(segs[i])]
    BY <2>1, Parsed
  <2>3. Splits(command) /\ Splits(scan.buf)
    BY <2>1, <2>2 DEF SameQuotes, Splits
  <2>4. \A seg \in ToSet(segs) : Splits(seg) /\ NeverEscapes(seg)
    BY <2>1, <2>2, <2>3 DEF SideBySide, AsFolded
  <2> HIDE DEF segs
  <2>5. ASSUME NEW i \in DOMAIN segs PROVE Splits(Strip(segs[i]))
    <3>1. segs[i] \in Seq(Chars) /\ segs[i] \in ToSet(segs)
      BY <2>2, LenProperties, ElementOfSeq DEF ToSet
    <3>2. QED
      BY <2>4, <3>1, StripSplits
  <2>6. \A seg \in ToSet(ParsePipeline(command)) : Splits(seg)
    BY <2>2, <2>5 DEF ToSet
  <2>7. QED
    BY <2>3, <2>6
<1>2. QED
  BY <1>1, Invariance, PTL

\* A stage comes from a segment of a command that parses.
LEMMA Staged ==
  ASSUME SideBySide, NEW i \in DOMAIN Stages
  PROVE  LET segs == Append(scan.segments, scan.buf)
         IN /\ ScanSegments(command).segments = segs /\ DOMAIN Stages = DOMAIN segs
            /\ i \in DOMAIN segs /\ segs[i] \in Seq(Chars)
            /\ i = 1 => Stages[i].args = Strip(segs[i])
            /\ i # 1 => /\ Splits(Strip(segs[i])) /\ Split(Strip(segs[i])) # <<>>
                        /\ IsPrefix(Head(Split(Strip(segs[i]))), Strip(segs[i]))
                        /\ Stages[i].tool = Head(Split(Strip(segs[i])))
                        /\ Stages[i].args = ArgsOf(Strip(segs[i]))
<1> DEFINE segs == Append(scan.segments, scan.buf)
           Stage(k) == IF k = 1 THEN [tool |-> <<"t">>, args |-> Segments[1]]
                       ELSE [tool |-> Head(Split(Segments[k])), args |-> ArgsOf(Segments[k])]
<1>1. DOMAIN <<>> = {}
  OBVIOUS
<1>2. /\ Stages = [k \in DOMAIN Segments |-> Stage(k)]
      /\ \A k \in DOMAIN Segments \ {1} : ResolvesSegment(Segments[k], Registry)
  BY <1>1 DEF Stages, ResolvePipeline
<1>3. DOMAIN Stages = DOMAIN Segments /\ i \in DOMAIN Segments /\ Stages[i] = Stage(i)
  <2> HIDE DEF Stage
  <2>1. QED
    BY <1>2
<1>4. /\ ScanSegments(command).segments = segs /\ segs \in Seq(Seq(Chars))
      /\ Segments = [k \in DOMAIN segs |-> Strip(segs[k])]
  <2>1. ParsePipeline(command) # <<>>
    BY <1>1, <1>3 DEF Segments
  <2>2. QED
    BY <2>1, Parsed DEF Segments
<1> HIDE DEF segs
<1>5. i \in DOMAIN segs /\ DOMAIN Segments = DOMAIN segs /\ Segments[i] = Strip(segs[i])
  BY <1>3, <1>4
<1>6. segs[i] \in Seq(Chars)
  BY <1>4, <1>5, LenProperties, ElementOfSeq
<1>7. i = 1 => Stages[i].args = Strip(segs[i])
  BY <1>3, <1>5
<1>8. ASSUME i # 1
      PROVE  /\ Splits(Strip(segs[i])) /\ Split(Strip(segs[i])) # <<>>
             /\ IsPrefix(Head(Split(Strip(segs[i]))), Strip(segs[i]))
             /\ Stages[i].tool = Head(Split(Strip(segs[i])))
             /\ Stages[i].args = ArgsOf(Strip(segs[i]))
  <2>1. ResolvesSegment(Segments[i], Registry)
    BY <1>2, <1>3, <1>8
  <2>2. Stages[i].tool = Head(Split(Segments[i])) /\ Stages[i].args = ArgsOf(Segments[i])
    BY <1>3, <1>8
  <2>3. QED
    BY <1>5, <2>1, <2>2 DEF ResolvesSegment
<1>9. QED
  BY <1>3, <1>4, <1>5, <1>6, <1>7, <1>8 DEF segs

(***************************************************************************)
(* The filter decides on the words the tool is run with, for every         *)
(* registry and commands of any length (server.py:312-334 hands the        *)
(* stripped segment to the filter and the command as it came to run_tool). *)
(***************************************************************************)
THEOREM FilteredWordsRun == Spec => []FilteredIsRun
<1>1. IInv => FilteredIsRun
  <2> SUFFICES ASSUME IInv, NEW i \in DOMAIN Stages
      PROVE LET filtered == Stages[i].args
                run == TextRun(command, Stages, i)
                FormFeeds(text) == Cardinality({j \in DOMAIN text : text[j] = "\f"})
            IN Splits(filtered) /\ FormFeeds(run) = FormFeeds(filtered) =>
                 Splits(run) /\ Split(run) = Split(filtered)
    BY DEF FilteredIsRun
  <2>1. CASE DOMAIN Stages = {1}
    <3> DEFINE segs == Append(scan.segments, scan.buf)
    <3>1. i = 1 /\ TextRun(command, Stages, i) = command
      BY <2>1 DEF TextRun
    <3>2. SideBySide /\ scan.buf \in Seq(Chars) /\ scan.segments \in Seq(Seq(Chars))
          /\ command \in Seq(Chars)
      BY DEF IInv, SideBySide, ReadersTypeOK, Scans
    <3>3. DOMAIN segs = {1} /\ Stages[i].args = Strip(segs[i])
      BY <2>1, <3>1, <3>2, Staged
    <3>4. /\ Len(scan.segments) \in Nat /\ DOMAIN segs = 1..(Len(scan.segments) + 1)
          /\ segs[Len(scan.segments) + 1] = scan.buf
      BY <3>2, AppendProperties, LenProperties
    <3>5. Len(scan.segments) = 0
      <4>1. Len(scan.segments) + 1 \in DOMAIN segs
        BY <3>4
      <4>2. QED
        BY <3>3, <3>4, <4>1
    <3>6. scan.segments = <<>>
      BY <3>2, <3>5, EmptySeq
    <3>7. scan.buf = command
      BY <3>2, <3>6 DEF SideBySide, AsFolded
    <3>8. Stages[i].args = Strip(command)
      <4> HIDE DEF segs
      <4>1. segs[i] = command
        BY <3>1, <3>4, <3>5, <3>7
      <4>2. QED
        BY <3>3, <4>1
    <3>9. QED
      BY <3>1, <3>2, <3>8, StripSameWords
  <2>2. CASE DOMAIN Stages # {1}
    BY <2>2 DEF TextRun
  <2>3. QED
    BY <2>1, <2>2
<1>2. QED
  BY <1>1, Invariance, PTL

(***************************************************************************)
(* Resolving never turns a part of a tool's name into a part of an         *)
(* argument, for every registry and commands of any length                 *)
(* (resolve_pipeline, pipeline.py:106-153).                                *)
(***************************************************************************)
THEOREM NamesAreNotArguments == Spec => []NameIsNotArgument
<1>1. IInv => NameIsNotArgument
  <2> SUFFICES ASSUME IInv, NEW i \in DOMAIN Stages \ {1},
                      "\f" \notin ToSet(ScanSegments(command).segments[i]),
                      ToSet(Stages[i].tool) \cap (Quotes \cup {"\\"}) = {}
      PROVE LET typed == Split(ScanSegments(command).segments[i])
            IN /\ Head(typed) = Stages[i].tool
               /\ Splits(Stages[i].args)
               /\ Split(Stages[i].args) \in {Tail(typed), << <<>> >> \o Tail(typed)}
    BY DEF NameIsNotArgument
  <2> DEFINE seg == Append(scan.segments, scan.buf)[i]
  <2>1. /\ ScanSegments(command).segments[i] = seg /\ seg \in Seq(Chars)
        /\ Splits(Strip(seg)) /\ Split(Strip(seg)) # <<>>
        /\ IsPrefix(Head(Split(Strip(seg))), Strip(seg))
        /\ Stages[i].tool = Head(Split(Strip(seg))) /\ Stages[i].args = ArgsOf(Strip(seg))
    BY Staged DEF IInv
  <2> HIDE DEF seg
  <2>2. Plain(Head(Split(Strip(seg))))
    BY <2>1 DEF Plain
  <2>3. /\ Split(seg) = Split(Strip(seg)) /\ Splits(ArgsOf(Strip(seg)))
        /\ Split(ArgsOf(Strip(seg))) \in {Tail(Split(seg)), << <<>> >> \o Tail(Split(seg))}
    BY <2>1, <2>2, StageWords
  <2>4. QED
    BY <2>1, <2>3
<1>2. QED
  BY <1>1, Invariance, PTL
=============================================================================
