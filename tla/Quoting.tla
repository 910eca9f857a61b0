------------------------------ MODULE Quoting -------------------------------
(***************************************************************************)
(* Two readers of the same command: the loop of _scan_segments, which      *)
(* takes it apart at the pipes outside quotes, and shlex, which splits the *)
(* whole of it when a tool is called alone (run_tool) and each segment of  *)
(* it for the filter, the resolution and run_pipeline.  The three advance  *)
(* together, one character at a time, each by the turn of its loop that    *)
(* Pipeline and Shlex fold over a text.  Commands is the specification.    *)
(***************************************************************************)
EXTENDS Pipeline, Naturals

CONSTANT Chars   \* characters

ASSUME QuotingAssumption == "no" \notin Chars   \* it stands for None in quote

VARIABLES
  command,  \* what has been read
  scan,     \* _scan_segments
  whole,    \* shlex on the whole command
  part,     \* shlex on the current segment
  cuts,     \* history: positions at which a segment was ended
  bare,     \* history: positions of the pipes outside quotes, for shlex
  unsplit,  \* history: a segment was ended that shlex cannot split
  parted    \* history: a character that the two take differently was read

readers == <<command, scan, whole, part, cuts, bare, unsplit, parted>>

NothingRead ==
  /\ command = <<>> /\ scan = ScanStart /\ whole = LexStart /\ part = LexStart
  /\ cuts = {} /\ bare = {} /\ unsplit = FALSE /\ parted = FALSE

EndsSegment(c) == Len(ScanChar(scan, c).segments) > Len(scan.segments)

\* A backslash outside quotes escapes for shlex only; a backslash between
\* single quotes escapes, even their end, for the scanner only.
PartsThem(c) ==
  \/ c = "\\" /\ Outside(whole)
  \/ c = "'" /\ whole.mode = "'" /\ scan.skip

\* A forbidden metacharacter raises, and nothing more is read.
Read(c) ==
  /\ ~scan.bad
  /\ command' = Append(command, c)
  /\ scan' = ScanChar(scan, c)
  /\ whole' = LexChar(whole, c)
  /\ part' = IF EndsSegment(c) THEN LexStart ELSE LexChar(part, c)
  /\ cuts' = IF EndsSegment(c) THEN cuts \cup {Len(command')} ELSE cuts
  /\ bare' = IF c = "|" /\ Outside(whole) THEN bare \cup {Len(command')} ELSE bare
  /\ unsplit' = (unsplit \/ (EndsSegment(c) /\ ~Outside(part)))
  /\ parted' = (parted \/ PartsThem(c))

-----------------------------------------------------------------------------

(***************************************************************************)
(* The scanner and shlex agree on what is quoted: until a character parts  *)
(* them, the pipes at which a segment ends are exactly those which shlex   *)
(* sees outside quotes.  (docs/TESTING.md:172 asks for a test of this; it  *)
(* is false without "until": in '\'"'|\"" the scanner sees two segments    *)
(* and shlex one word.)                                                    *)
(***************************************************************************)
SplitAgreesWithShlex == ~parted => cuts = bare

(***************************************************************************)
(* Until a character parts them, a command that parse_pipeline lets pass   *)
(* is one that shlex can split, whole and segment by segment: the          *)
(* ValueError that run_tool and run_pipeline do not catch takes such a     *)
(* character.                                                              *)
(***************************************************************************)
LegalIsSplittable ==
  ~parted /\ ParsePipeline(command) # <<>> =>
    Splits(command) /\ \A seg \in ToSet(ParsePipeline(command)) : Splits(seg)

(***************************************************************************)
(* Why: until they part, the three are in the same quotes (SameQuotes),    *)
(* skip and escape the same character between double quotes, and have left *)
(* no segment inside a quote or after a backslash (InStep).  AsFolded says *)
(* that the turns taken so far are the folds over what was read.           *)
(***************************************************************************)
Letters == Chars \cup {"\\"}
Scans   == [quote : Quotes \cup {"no"}, skip : BOOLEAN, last : Chars \cup {""},
            bad : BOOLEAN, buf : Seq(Chars), segments : Seq(Seq(Chars))]
Lexes   == [mode : Quotes \cup {"gap", "word", "escape", "in quotes"},
            word : Seq(Letters), words : Seq(Seq(Letters))]

ReadersTypeOK ==
  /\ command \in Seq(Chars)
  /\ scan \in Scans /\ whole \in Lexes /\ part \in Lexes
  /\ cuts \cup bare \subseteq 1..Len(command)
  /\ unsplit \in BOOLEAN /\ parted \in BOOLEAN

SameQuotes(lex) ==
  /\ lex.mode # "escape"
  /\ scan.quote = "no" <=> Outside(lex)
  /\ scan.quote = "'" <=> lex.mode = "'"
  /\ lex.mode = "in quotes" <=> scan.quote = "\"" /\ scan.skip

InStep ==
  /\ scan.skip => scan.quote # "no"
  /\ ~parted => SameQuotes(whole) /\ SameQuotes(part) /\ ~unsplit

NeverEscapes(text) == \A k \in 0..Len(text) : Lex(SubSeq(text, 1, k)).mode # "escape"

AsFolded ==
  /\ scan = Scan(command) /\ whole = Lex(command) /\ part = Lex(scan.buf)
  /\ scan.segments = <<>> => scan.buf = command
  /\ ~unsplit => \A seg \in ToSet(scan.segments) : Splits(seg)
  /\ ~parted => \A seg \in ToSet(scan.segments) \cup {scan.buf} : NeverEscapes(seg)

SideBySide == ReadersTypeOK /\ InStep /\ SplitAgreesWithShlex /\ AsFolded
=============================================================================
