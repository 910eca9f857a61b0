------------------------------- MODULE Filter -------------------------------
(***************************************************************************)
(* filter.py: what an entry's rules say of a stage's arguments, and what   *)
(* its path rules say of the paths in them.  Patterns use * and ?; paths   *)
(* are compared as text only, the file system is not looked at.            *)
(***************************************************************************)
EXTENDS Shlex

Lower(c) == IF c = "X" THEN "x" ELSE c

\* The lengths of the beginnings of text that a pattern matches which goes on
\* with c, from those that it matches up to there.
Reach(text, lengths, c) ==
  IF c = "*" THEN {i \in 0..Len(text) : \E n \in lengths : n <= i}
  ELSE {i \in 1..Len(text) : i - 1 \in lengths /\ (c = "?" \/ Lower(text[i]) = Lower(c))}

Reached(text, pattern) ==
  LET ReachNext(lengths, c) == Reach(text, lengths, c) IN FoldLeft(ReachNext, {0}, pattern)

\* glob_match: fnmatch of the lower-cased text and pattern.
GlobMatch(text, pattern) == Len(text) \in Reached(text, pattern)

MatchesAny(text, patterns) == \E p \in patterns : GlobMatch(text, p)

\* A mutant of CheckCommand: an allow rule that matches settles it.
CheckCommand_AllowFirst(text, rules) == MatchesAny(Strip(text), rules.allow)

\* check_command: deny rules first, then allow rules, else denied.
CheckCommand(text, rules) ==
  /\ ~MatchesAny(Strip(text), rules.deny)
  /\ MatchesAny(Strip(text), rules.allow)

-----------------------------------------------------------------------------

PathShaped(word) ==
  \E start \in {<<"/">>, <<".", "/">>, <<".", ".", "/">>} : IsPrefix(start, word)

From(word, i) == SubSeq(word, i, Len(word))
FirstOf(c, word) == {i \in DOMAIN word : word[i] = c /\ \A j \in 1..(i - 1) : word[j] # c}

\* _candidate_paths: the word itself, what follows its first "=", and what
\* follows the letters of a flag.
CandidatePaths(word) ==
  {p \in {word} \cup {From(word, i + 1) : i \in FirstOf("=", word)} : PathShaped(p)}
    \cup (IF IsPrefix(<<"-">>, word)
          THEN {From(word, i) : i \in FirstOf("/", word)} ELSE {})

\* One turn of split("/").
Cut(parts, c) ==
  IF c = "/" THEN Append(parts, <<>>) ELSE Append(Front(parts), Append(Last(parts), c))

\* The components of a path: what is between its slashes.
Components(path) == FoldLeft(Cut, << <<>> >>, path)

\* One turn of os.path.normpath: empty and "." components go, ".." takes the
\* component before it away, and stays if there is none and the path has no root.
Take(root, parts, part) ==
  CASE part \in {<<>>, <<".">>} -> parts
    [] part = <<".", ".">> /\ parts # <<>> /\ Last(parts) # <<".", ".">> -> Front(parts)
    [] part = <<".", ".">> /\ parts = <<>> /\ root # <<>> -> parts
    [] OTHER -> Append(parts, part)

NormalComponents(root, parts) ==
  LET TakeNext(taken, part) == Take(root, taken, part)
  IN FoldLeft(TakeNext, <<>>, parts)

Joined(text, part) == IF text = <<>> THEN part ELSE text \o <<"/">> \o part

Join(parts) == FoldLeft(Joined, <<>>, parts)

\* A mutant of NormalizePath: two leading slashes stay, as in normpath itself.
NormalizePath_KeepsTwo(path) ==
  LET root == IF ~IsPrefix(<<"/">>, path) THEN <<>>
              ELSE IF IsPrefix(<<"/", "/">>, path) /\ ~IsPrefix(<<"/", "/", "/">>, path)
                   THEN <<"/", "/">> ELSE <<"/">>
      normal == root \o Join(NormalComponents(root, Components(path)))
  IN IF normal = <<>> THEN <<".">> ELSE normal

\* _normalize_path: leading slashes collapse to one, then normpath.
NormalizePath(path) ==
  LET root == IF IsPrefix(<<"/">>, path) THEN <<"/">> ELSE <<>>
      normal == root \o Join(NormalComponents(root, Components(path)))
  IN IF normal = <<>> THEN <<".">> ELSE normal

\* check_paths, with its text split into words.
CheckWords(words, deny) ==
  \A w \in ToSet(words) : \A p \in CandidatePaths(w) :
    ~MatchesAny(p, deny) /\ ~MatchesAny(NormalizePath(p), deny)

CheckPaths(text, deny) == deny = {} \/ (Splits(text) /\ CheckWords(Split(text), deny))
=============================================================================
