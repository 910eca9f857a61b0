------------------------------ MODULE Commands ------------------------------
(***************************************************************************)
(* Every command over small alphabets, typed one character at a time, and  *)
(* what the grammar, the filter and the executor each take it for: where   *)
(* the scanner splits and where shlex sees quotes (Quoting), the text that *)
(* is filtered and the words the tool gets, a path and what it denotes.    *)
(***************************************************************************)
EXTENDS Quoting, Filter

CONSTANTS
  Keyboards,  \* sets of characters, each with a prefix and a maximal length
  Registry,   \* name -> entry
  PathRules   \* sets of path rules, a rule being [at, beneath]

\* What a path rule can name: in lower case and in normal form, without wildcards.
Names ==
  {name \in Seq(Chars \ {"/"}) :
     /\ name \notin {<<>>, <<".">>, <<".", ".">>}
     /\ \A i \in DOMAIN name : Lower(name[i]) = name[i] /\ name[i] \notin {"*", "?"}}

ASSUME CommandsAssumption ==
  /\ \A kb \in Keyboards : /\ kb.length \in Nat
                           /\ kb.prefix \in Seq(Chars)
                           /\ kb.keys \subseteq Chars
  /\ \A name \in DOMAIN Registry : Registry[name].pipe_stage \in BOOLEAN
  /\ \A rule \in UNION PathRules :
       rule.at \in Seq(Names) /\ rule.at # <<>> /\ rule.beneath \in BOOLEAN
  /\ {"/", "-", "f", "k", "="} \subseteq Chars
  /\ \A c \in Chars : Lower(c) \in Chars

VARIABLE keyboard

vars == <<keyboard, readers>>

Init == keyboard \in Keyboards /\ NothingRead

Offered ==
  IF Len(command) < Len(keyboard.prefix) THEN {keyboard.prefix[Len(command) + 1]}
  ELSE IF Len(command) < keyboard.length THEN keyboard.keys ELSE {}

Next == \E c \in Offered : Read(c) /\ UNCHANGED keyboard

Spec == Init /\ [][Next]_vars

(***************************************************************************)
(* The inductive invariant: the scanner and shlex are side by side, in the *)
(* same quotes, until a character parts them, whatever is typed next.      *)
(***************************************************************************)
IInv == keyboard \in Keyboards /\ SideBySide

-----------------------------------------------------------------------------

Segments == ParsePipeline(command)
Stages   == ResolvePipeline(<<"t">>, Segments, Registry)

(***************************************************************************)
(* The filter decides on the words the tool is run with.  The two texts    *)
(* differ for a tool called alone, by the whitespace that strip() removes  *)
(* and that can carry meaning: after a backslash, which the filter's text  *)
(* then ends in, and a form feed, which does not separate words.           *)
(***************************************************************************)
FilteredIsRun ==
  \A i \in DOMAIN Stages :
    LET filtered == Stages[i].args
        run == TextRun(command, Stages, i)
        FormFeeds(text) == Cardinality({j \in DOMAIN text : text[j] = "\f"})
    IN Splits(filtered) /\ FormFeeds(run) = FormFeeds(filtered) =>
         Splits(run) /\ Split(run) = Split(filtered)

(***************************************************************************)
(* The arguments of a stage after a pipe are what the client typed after   *)
(* the tool's name: resolving never turns a part of the name, or a quote   *)
(* around it, into a part of an argument.  An empty pair of quotes written *)
(* directly after the name is the one exception: it is an argument then.   *)
(* A name with a quote or a backslash in it could be taken apart.          *)
(***************************************************************************)
NameIsNotArgument ==
  \A i \in DOMAIN Stages \ {1} :
    LET segment == ScanSegments(command).segments[i]
        typed == Split(segment)
    IN "\f" \notin ToSet(segment) /\ ToSet(Stages[i].tool) \cap (Quotes \cup {"\\"}) = {} =>
         /\ Head(typed) = Stages[i].tool
         /\ Splits(Stages[i].args)
         /\ Split(Stages[i].args) \in {Tail(typed), << <<>> >> \o Tail(typed)}

-----------------------------------------------------------------------------

\* Where parts lead from the root.  depth counts the names from the root; the
\* name at depth n is the last one that led there from above.
Place(parts) ==
  LET depth[i \in 0..Len(parts)] ==
        IF i = 0 THEN 0
        ELSE CASE parts[i] \in {<<>>, <<".">>} -> depth[i - 1]
               [] parts[i] = <<".", ".">> -> IF depth[i - 1] = 0 THEN 0 ELSE depth[i - 1] - 1
               [] OTHER -> depth[i - 1] + 1
  IN [n \in 1..depth[Len(parts)] |->
        parts[Max({i \in DOMAIN parts : depth[i] = n /\ depth[i - 1] < n})]]

\* Where an absolute path leads.
Location(path) == Place(Components(path))

Covers(rule, location) ==
  IF rule.beneath THEN IsStrictPrefix(rule.at, location) ELSE rule.at = location

Pattern(rule) ==
  <<"/">> \o Join(rule.at) \o (IF rule.beneath THEN <<"/", "*">> ELSE <<>>)

\* The ways to hand a path to a tool in one word.
Spellings(p) ==
  {p, <<"-", "f">> \o p, <<"k", "=">> \o p, <<"-", "-", "k", "=">> \o p}

(***************************************************************************)
(* However an absolute path is written, with doubled slashes, with "." or  *)
(* "..", bare, as a key's value or behind a flag's letter: if it leads to  *)
(* a place the path rules deny, in upper or lower case, the call is        *)
(* rejected; and a path in normal form is rejected only then, unless an    *)
(* "=" in it makes another path of its end.                                *)
(***************************************************************************)
NoSpellingEscapes ==
  IsPrefix(<<"/">>, command) /\ ToSet(command) \cap (Blank \cup Quotes \cup {"\\"}) = {} =>
    LET canonical == command = <<"/">> \o Join(Location(command))
        lowered == [i \in DOMAIN command |-> Lower(command[i])]
    IN \A rules \in PathRules : \A word \in Spellings(command) :
         LET denied == ~CheckPaths(word, {Pattern(r) : r \in rules})
             covered == \E r \in rules : Covers(r, Location(lowered))
         IN /\ covered => denied
            /\ canonical /\ "=" \notin ToSet(command) /\ denied => covered

(***************************************************************************)
(* CHANGELOG.md:120, "Tools can be invoked with no arguments": a command   *)
(* with nothing in it is a legal one (and filter.py:27, "legitimate for    *)
(* `uptime`, `free`, or a bare pipe stage").                               *)
(***************************************************************************)
BareCallIsLegal == Strip(command) = <<>> => Segments # <<>>
=============================================================================
