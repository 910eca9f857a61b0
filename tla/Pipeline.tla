------------------------------ MODULE Pipeline ------------------------------
(***************************************************************************)
(* pipeline.py: a command is split into segments at the pipes outside      *)
(* quotes, rejected if it has a shell metacharacter there, and each        *)
(* segment after the first names the tool that runs it.                    *)
(*                                                                         *)
(* A registry is a function from tool names to entries; an entry has at    *)
(* least the fields name and pipe_stage.                                   *)
(***************************************************************************)
EXTENDS Shlex

\* The tokens that reject a command when they start outside quotes; "||",
\* "&&" and "$(" need the next character too.
ForbiddenSingle == {";", "&", ">", "<", "\n", "backquote"}
ForbiddenPair   == {<<"&", "&">>, <<"|", "|">>, <<"$", "(">>}

\* A mutant of ScanChar: a backslash inside quotes is a character like others.
ScanChar_NoEscapes(scan, c) ==
  LET read == [scan EXCEPT !.buf = Append(@, c)]
  IN IF scan.quote # "no"
     THEN [read EXCEPT !.quote = IF c = scan.quote THEN "no" ELSE scan.quote]
     ELSE IF c = "|"
     THEN [scan EXCEPT !.segments = Append(@, scan.buf), !.buf = <<>>,
                       !.bad = @ \/ scan.last = "|", !.last = c]
     ELSE [read EXCEPT !.quote = IF c \in Quotes THEN c ELSE "no", !.last = c,
             !.bad = @ \/ c \in ForbiddenSingle \/ <<scan.last, c>> \in ForbiddenPair]

\* A mutant of ScanChar: either quote character ends an open quote.
ScanChar_AnyQuoteEnds(scan, c) ==
  LET read == [scan EXCEPT !.buf = Append(@, c)]
  IN IF scan.skip THEN [read EXCEPT !.skip = FALSE]
     ELSE IF scan.quote # "no"
     THEN [read EXCEPT !.quote = IF c \in Quotes THEN "no" ELSE scan.quote,
                       !.skip = (c = "\\")]
     ELSE IF c = "|"
     THEN [scan EXCEPT !.segments = Append(@, scan.buf), !.buf = <<>>,
                       !.bad = @ \/ scan.last = "|", !.last = c]
     ELSE [read EXCEPT !.quote = IF c \in Quotes THEN c ELSE "no", !.last = c,
             !.bad = @ \/ c \in ForbiddenSingle \/ <<scan.last, c>> \in ForbiddenPair]

\* One turn of _scan_segments.  quote is the open quote or "no"; skip says that
\* the character before was a backslash inside the quote; last is the character
\* before, if it was outside quotes.
ScanChar(scan, c) ==
  LET read == [scan EXCEPT !.buf = Append(@, c)]
  IN IF scan.skip THEN [read EXCEPT !.skip = FALSE]
     ELSE IF scan.quote # "no"
     THEN [read EXCEPT !.quote = IF c = scan.quote THEN "no" ELSE scan.quote,
                       !.skip = (c = "\\")]
     ELSE IF c = "|"
     THEN [scan EXCEPT !.segments = Append(@, scan.buf), !.buf = <<>>,
                       !.bad = @ \/ scan.last = "|", !.last = c]
     ELSE [read EXCEPT !.quote = IF c \in Quotes THEN c ELSE "no", !.last = c,
             !.bad = @ \/ c \in ForbiddenSingle \/ <<scan.last, c>> \in ForbiddenPair]

ScanStart == [quote |-> "no", skip |-> FALSE, last |-> "", bad |-> FALSE,
              buf |-> <<>>, segments |-> <<>>]

Scan(command) == FoldLeft(ScanChar, ScanStart, command)

\* A mutant of ScanSegments: a quote may be left open at the end.
ScanSegments_Unclosed(command) ==
  LET scan == Scan(command)
  IN [legal    |-> ~scan.bad,
      segments |-> Append(scan.segments, scan.buf)]

ScanSegments(command) ==
  LET scan == Scan(command)
  IN [legal    |-> ~scan.bad /\ scan.quote = "no",
      segments |-> Append(scan.segments, scan.buf)]

\* parse_pipeline: <<>> stands for PipelineGrammarError; a legal command has at
\* least one segment.
ParsePipeline(command) ==
  LET scan == ScanSegments(command)
      cleaned == [i \in DOMAIN scan.segments |-> Strip(scan.segments[i])]
  IN IF scan.legal /\ \A i \in DOMAIN cleaned : cleaned[i] # <<>>
     THEN cleaned ELSE <<>>

-----------------------------------------------------------------------------

\* A mutant of ResolvesSegment: a quoted tool name is accepted.
ResolvesSegment_Quoted(seg, registry) ==
  /\ Splits(seg) /\ Split(seg) # <<>>
  /\ Head(Split(seg)) \in DOMAIN registry
  /\ registry[Head(Split(seg))].pipe_stage

ResolvesSegment(seg, registry) ==
  /\ Splits(seg) /\ Split(seg) # <<>>
  /\ Head(Split(seg)) \in DOMAIN registry
  /\ registry[Head(Split(seg))].pipe_stage
  /\ IsPrefix(Head(Split(seg)), seg)

\* The text after the tool's name.
ArgsOf(seg) == LStrip(SubSeq(seg, Len(Head(Split(seg))) + 1, Len(seg)))

\* resolve_pipeline: the stages as pairs of a tool name and its arguments text;
\* <<>> stands for PipelineResolutionError.
ResolvePipeline(lead, segments, registry) ==
  IF \A i \in DOMAIN segments \ {1} : ResolvesSegment(segments[i], registry)
  THEN [i \in DOMAIN segments |->
          IF i = 1 THEN [tool |-> lead, args |-> segments[1]]
          ELSE [tool |-> Head(Split(segments[i])), args |-> ArgsOf(segments[i])]]
  ELSE <<>>

\* A mutant of TextRun: every stage is run on what was typed.
TextRun_Typed(typed, stages, i) == typed

\* What run_tool or run_pipeline splits into the argv of stage i: a single
\* stage is run on the command as it came, not on its segment.
TextRun(typed, stages, i) == IF DOMAIN stages = {1} THEN typed ELSE stages[i].args
=============================================================================
