----------------------------- MODULE MCDispatch -----------------------------
(***************************************************************************)
(* Catalogs and requests for TLC.  t takes anything but what starts with   *)
(* x, and no path under /d; g is a pipe stage that takes y only; u has no  *)
(* binary.  The disks are that catalog, another good one with another t    *)
(* and no g, one whose binaries have moved, and one for each way a         *)
(* catalog fails to load.                                                  *)
(***************************************************************************)
EXTENDS Dispatch

CONSTANTS c1, c2

MCSymmetry == Permutations({c1, c2})

MCSearchPaths == <<"sbin", "bin">>

Raw(name, binary, pipe_stage, deny, allow, path_deny) ==
  [name |-> name, binary |-> binary, pipe_stage |-> pipe_stage, deny |-> deny,
   allow |-> allow, path_deny |-> path_deny, given |-> {"description"}, wrong |-> {}]

T == Raw(<<"t">>, <<"t">>, FALSE, {<<"x", "*">>}, {<<"*">>},
         {<<"/", "d">>, <<"/", "d", "/", "*">>})
G == Raw(<<"g">>, <<"opt", "g">>, TRUE, {}, {<<"y">>}, {})
U == Raw(<<"u">>, <<"u">>, TRUE, {}, {<<"*">>}, {})
OtherT == Raw(<<"t">>, <<"t">>, TRUE, {<<"a">>}, {<<"x", "*">>}, {})

List(entries) == [kind |-> "list", entries |-> entries]
Empty   == [kind |-> "empty", entries |-> <<>>]
Invalid == [kind |-> "invalid", entries |-> <<>>]

Installed == {<<"sbin", "t">>, <<"bin", "t">>, <<"opt", "g">>}

Disk(docs) == [dir |-> TRUE, docs |-> docs, executables |-> Installed]

Good == Disk(<<List(<<T>>), Empty, List(<<G, U>>)>>)

MCDisks ==
  { Good,
    Disk(<<List(<<OtherT>>)>>),
    [Good EXCEPT !.executables = {<<"bin", "t">>, <<"bin", "u">>}],
    [Good EXCEPT !.dir = FALSE],
    Disk(<<List(<<T>>), Invalid>>),
    Disk(<<List(<<T>>), List(<<OtherT>>)>>),
    Disk(<<List(<<T, [G EXCEPT !.wrong = {"rules"}]>>)>>),
    Disk(<<List(<<T, [G EXCEPT !.given = {}]>>)>>),
    Disk(<<List(<<T, [G EXCEPT !.wrong = {"timeout_seconds"}]>>)>>),
    Disk(<<List(<<T, [U EXCEPT !.allow = {}]>>)>>) }

Ask(tool, command) == [tool |-> tool, command |-> command]

MCRequests ==
  { Ask(<<"t">>, <<"a">>),
    Ask(<<"t">>, <<"x", "a">>),
    Ask(<<"t">>, <<"-", "f", "/", "/", "d">>),
    Ask(<<"t">>, <<"a", "|", "g", " ", "y">>),
    Ask(<<"t">>, <<"a", "|", "g", " ", "z">>),
    Ask(<<"t">>, <<"a", "|", "t", " ", "a">>),
    Ask(<<"t">>, <<"a", "|", "u">>),
    Ask(<<"g">>, <<"y">>),
    Ask(<<"u">>, <<"a", "\\">>) }
=============================================================================
