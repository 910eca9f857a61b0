----------------------------- MODULE MCCommands -----------------------------
(***************************************************************************)
(* The alphabets for TLC: quotes and pipes, the text around a pipe stage's *)
(* name, whitespace at the edges, and paths.                               *)
(***************************************************************************)
EXTENDS Commands, Integers

Keys(prefix, keys, length) == [prefix |-> prefix, keys |-> keys, length |-> length]

MCChars == {"'", "\"", "\\", "|", ";", " ", "\f", "/", ".", "x", "X", "y", "g",
            "-", "f", "k", "="}

MCKeyboards ==
  { Keys(<<>>, {"'", "\"", "\\", "|"}, 8),
    Keys(<<>>, {"'", "\"", "\\", "|", " ", "x"}, 6),
    Keys(<<"x", "|">>, {"g", "'", "\"", "\\", " ", "x"}, 6),
    Keys(<<>>, {"x", " ", "\f", "\\", "'", ";"}, 5),
    Keys(<<"/">>, {"/", ".", "x"}, 8),
    Keys(<<"/">>, {"/", ".", "x", "y", "X"}, 6),
    Keys(<<"/">>, {"/", "=", "x"}, 6) }

MCBlanks == { Keys(<<>>, {" ", "x"}, 6) }

MCRegistry ==
  [name \in {<<"g">>, <<"x">>} |-> [name |-> name, pipe_stage |-> name = <<"g">>]]

Rule(at, beneath) == [at |-> at, beneath |-> beneath]

MCPathRules ==
  { {Rule(<< <<"x">> >>, FALSE)},
    {Rule(<< <<"x">> >>, TRUE)},
    {Rule(<< <<"x">>, <<"x">> >>, FALSE), Rule(<< <<"x">>, <<"x">> >>, TRUE)} }
=============================================================================
