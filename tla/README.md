# A TLA+ model of cli-mcp-server

cli-mcp-server offers command-line tools listed in a catalog as MCP tools: a
client opens an SSE stream, posts tool calls, the server filters the command,
runs the tool or a pipeline of tools, and answers with a JSON envelope.  This
directory models the executor that runs the tools, the sessions that calls
arrive on, and what lies between: the catalog, the grammar, the filter and
`call_tool`, which puts them together.  It proves the main guarantees of each.

## The system

| Component | Source | State | Operations | What makes it correct |
|---|---|---|---|---|
| Subprocess helpers | `cli_executor.py` 33-103 | processes, pipes, readers, tasks | `_read_capped`, `_signal_kill`, `_reap`, `_drain`, `_kill` | no byte lost or invented, bounded waits |
| `run_tool` | `cli_executor.py` 106-182 | the coroutine's await, its two reader tasks, the envelope | one call | complete or marked results, true exit status, nothing left running, an answer |
| `run_pipeline` | `cli_executor.py` 185-327 | the same, plus descriptors and several processes | one call | the same, EOF travels, no failure hidden, no descriptor left |
| Identity | `identity.py` | its configuration | `from_config`, `resolve_identity` | fails closed, no placeholder identity |
| Sessions | `server.py` 101-157, 317-392 | session table, `SESSION_IDENTITY`, context variables | connect, disconnect, post | a message acts only on a stream its sender opened |
| `call_tool` | `server.py` 194-314 | configuration and registry caches | the gates, the envelope, the audit line | nothing denied runs, one envelope and one line per call |
| Pipeline grammar | `pipeline.py` | none | `_scan_segments`, `parse_pipeline`, `resolve_pipeline` | what is filtered is what runs |
| Filter | `filter.py` | none | `check_command`, `check_paths` | deny first, default deny, no spelling of a denied path gets by |
| Catalog | `catalog.py` | the registry | `load_catalog`, `_validate_entry`, `_resolve_binary` | bad entries refused, missing binaries reported |
| Start-up | `server.py` 51-191, 395-437 | lazy caches, log handlers | `load_config`, `_lifespan`, `health` | a bad identity block stops the server |

`call_tool` parses and resolves the command with the pipeline grammar, checks
each segment with the filter against its catalog entry, and awaits `run_tool`
or `run_pipeline`.  It reads the identity that `handle_sse` put in a context
variable when the stream was opened.  Sessions are shared between the GET and
the POST handlers through the transport's session table.  All of it runs on one
event loop; concurrency is between coroutines at their awaits, and between the
server and the processes it starts.

The hard behaviours are in the executor: several pipes, two reader tasks, exit
notifications and timers complete in any order, tools may close pipes early,
never exit, leave descendants behind or write without end, and
`asyncio.subprocess.Process.wait()` returns only when the exit has been noticed
*and* every pipe of the process has disconnected, unless the exit was known
when it was called.

## Modules

| Module | Role |
|---|---|
| `ToolCall` | The contract of one call, without pipes, tasks and timers: processes start and stop, output is written, and the call answers at most once, honestly, with nothing left running. |
| `Subprocess` | What both executors use: processes, pipes, StreamReaders, exit notification, and the helper coroutines.  Not a specification by itself. |
| `RunTool` | `run_tool`, one action per await and way out. |
| `RunPipeline` | `run_pipeline`, likewise, with its spawn loop and descriptors. |
| `Subprocess_proofs` | Machine-checked lemmas about `Subprocess`: what its steps keep whoever the caller is, shared by the two modules that follow. |
| `RunTool_proofs`, `RunPipeline_proofs` | Machine-checked proofs about the two executors. |
| `Shlex` | `shlex.split` and `str.strip`, as the code uses them; external. |
| `Pipeline` | `pipeline.py`: the scanner, the grammar, the resolution of stages. |
| `Filter` | `filter.py`: glob matching, rules, paths. |
| `Quoting` | The loops of the scanner and of shlex reading the same command side by side.  Not a specification by itself. |
| `Commands`, `MCCommands` | Every command over small alphabets, read as in `Quoting`, and what the grammar, the filter and the executor each make of it. |
| `Text_proofs` | Machine-checked lemmas about texts of any length: that the folds are the loops, what shlex makes of a text, of what `strip` leaves of it and of what follows a tool's name. |
| `Commands_proofs` | Machine-checked proofs about the readers and about what is filtered and run, for any alphabet and length. |
| `Paths_proofs` | Machine-checked proofs about the path check, for any alphabet, paths of any length and any rules in normal form. |
| `Catalog` | `catalog.py`: from the files of the catalog directory to the registry. |
| `Dispatch`, `MCDispatch` | `server.py`'s handlers over the three: registry cache, listing, health, `call_tool` with its ways out, and the stages it starts; several calls at a time. |
| `Dispatch_proofs` | Machine-checked proofs about `Dispatch`, `Catalog` and the gates. |
| `Identity` | `from_config` and `resolve_identity` as operators over identity blocks and header values. |
| `Sessions` | The GET and POST routes: context variables, session tables, the awaits between a message's check and its call, and what is recorded. |
| `MCSessions` | The sets of blocks and requests for the runs of `Sessions`. |
| `Sessions_proofs` | Machine-checked proofs about `Sessions` and `Identity`. |

### State and actions

Stream 0 is the stdout of the last stage, stream *i* the stderr of stage *i*.
Bytes are counted: `pipe`, `buf` and `got` are the bytes in the kernel pipe, in
the StreamReader and in the reader task's chunks.  `holds` and `orphan` say who
has the write end of a pipe: a stage, or a descendant it left behind.  `rc` is
`Process.returncode`, which lags behind `code`, how the process really ended.
`waiter` records that the pending `Process.wait()` was called before the exit
was known.  `pc` is the await at which the coroutine is suspended; the code
between two awaits is one action, as on the event loop.  `wrote` is a history
variable.

The tool's steps (`Write`, `CloseEnd`, `Fork`, `OrphanClose`, `Exit`), the
kernel's `Die` and asyncio's `Pump`, `SeeEof` and `Notice` are external: they
are modelled from how the executor uses them.  An envelope's `size` is the
number of bytes of stdout that the result is decoded from.  A StreamReader stops reading when it
is full (`BufCap`, 128 KiB in asyncio) and then does not see EOF either.

`Quirks` selects what may happen around a call: `close` (a stage closes stdout or
stderr and runs on), `fork` (descendants keep its pipes), `flood` (more stderr
than the cap), `slow` (a 2 s timer fires before the loop has caught up with a
kill, an exit or available bytes), `cancel` (the calling task is cancelled).
Without `slow`, a 2 s timer fires only once the loop has dealt with everything
that has already happened; the entry's own timeout may always fire at any
moment.

In `Sessions` a stream is a GET request, its task and its session id in one;
`identityVar` and `connectingVar` are the two context variables in the context
of that task, `writers` the transport's session table, `sessionIdentity` is
`SESSION_IDENTITY`.  A post is the handler of a POST and the tool call it
carries: `at` says at which await the handler is suspended, `call` and `caller`
are the call's task and the copy of `IDENTITY` it got when it was started.
`audit` has what `_log_call` wrote for calls.  `opener` and the `from` of a post
are the requests themselves, kept to state the properties.  The SDK is external:
when it registers a stream, what it looks up, when it replies and when a message
is handed over are modelled from how `server.py` relies on them; whether it
removes a session after its stream has ended, and when, is left open, and so is
whether the calls of an ending stream are finished or cancelled.

A text is a sequence of characters.  `Shlex`, `Pipeline` and `Filter` are
operators without state: `LexChar` is one turn of shlex's loop and `ScanChar`
one turn of `_scan_segments`, both folded over the text; a rejected command is
`<<>>`, as a legal one has at least one segment.  Their results were compared
with those of the Python functions on some thirty thousand bounded inputs.
`Commands` types a command character by character, so that every text over a
keyboard's alphabet up to its length is a state and each property compares the
components' views of it.  A step also is a turn of three readers (`Quoting`),
the same `ScanChar` and `LexChar` that are folded elsewhere: `scan` is the state of `_scan_segments`' loop,
`whole` that of shlex on the command (what `run_tool` splits), `part` that of
shlex on the segment being read (what the filter, the resolution and
`run_pipeline` split).  That makes an invariant over steps of what would
otherwise be an induction over the text; `AsFolded` says that what the readers
hold is what the folds give for the text read so far.

In `Dispatch` `config` and `registry` are the two module caches, `disk` what
`load_catalog` would find if it ran now: a catalog directory and the executable
files, which change at any time (`DiskChanges`).  `call_tool` has no await
before the executor, so the gates are one action (`CallRaises`, `CallRefused`,
`CallPasses`, by outcome); after that a call starts its stages one at a time
and ends with an envelope, an exception or a cancellation.  `source`, `listed`
and `ran` are history.  A YAML file is a list of raw entries, empty, or
invalid; a raw entry says which keys have a wrong value, as far as
`_validate_entry` and `_build_entry` can tell.

## Runs

| Run | Bounds | Shows |
|---|---|---|
| `tool_safety` | all quirks, `MaxBytes` 1, pipe 1, reader 2 | results complete or marked, true exit status, nothing left running, the contract, and the inductive invariant |
| `tool_returns` | no quirks, `MaxBytes` 2, pipe 2, reader 1 | every call comes back; a failing tool's stderr is what is reported; the inductive invariant where its clauses about stderr apply |
| `pipe_safety` | close, fork, slow, cancel; 2 stages, stderr cap 0 | as `tool_safety`, for pipelines, and no pipe end left open |
| `pipe_returns` | close, flood; 2 stages | every call comes back and names every stage that failed; the inductive invariant where its clauses about exit statuses apply |
| `pipe_filters` | no quirks, 3 stages, stderr cap 0 | a pipeline of filters ends without the timeout |
| `sessions` | 2 streams and 2 messages of 2 users and nobody; 1 of each with every block and 9 header combinations | records name opener and sender, the tables agree, owners are heard, foreign sessions look unknown, the server fails closed, and the inductive invariant |
| `text` | alphabets of 3 to 6 characters, lengths 5 to 8 | scanner and shlex agree on what is quoted, what the scanner lets pass shlex can split, what is filtered is what runs, arguments survive resolution, no spelling of a path escapes, and the inductive invariant |
| `dispatch` | 2 calls, 9 requests, 10 disks | every gate before any process, the words that were typed run by the binary first found, verdicts that agree, a catalog loaded whole or not at all, and the inductive invariant |
| `tool_hang`, `tool_timeout`, `dispatch_silent`, `text_empty` | small | the code departs from what the repository says, see below |

The bounds are as small as the cases allow.  With a cap of 1 or 2 bytes, output
below, at and beyond the cap occur; with `PipeCap` 1 or 2 a pipe can be full
and non-empty when its writer dies; with `BufCap` 1 a reader can be paused and
with 2 it can hold more than a read may take.  A stderr cap of 0 still reads,
probes and times out, and keeps the two-stage and three-stage state spaces
small; `pipe_returns` has stderr contents.  Two stages give one unread stderr
and one link, three give a stage with links on both sides.

Two streams and two messages let every stream be opened by the same or another
user as any message, end before or after any of its awaits, and be looked at by
two messages at a time; a third would only repeat one of these roles.  The
constraint `MCBounded` keeps the many headers and blocks to one stream and one
message: what a header or block means does not depend on the other streams,
and the other half of the constraint has the interleavings.  One header at a
time is odd (absent, blank, wrong, repeated), the other is right.

In `text` the alphabets put together what may interact: both quotes with the
backslash and the pipe; a pipe stage's name with quotes and blanks; blanks, a
form feed and a backslash at the edges; slashes and dots with names in both
cases.  Eight characters are enough for a quote inside a quote after an escape
and for a path that climbs out of a denied directory and back; one alphabet has
the "=" behind which `_candidate_paths` finds another path.  How quotes nest
beyond that is covered by the theorems.  In `dispatch`
the disks are a good catalog of three files, another one, the first with its
binaries moved, and one for every way to fail; the requests take every way out
of the gates, the last one has arguments that shlex cannot split.  Two calls
are enough for a verdict to differ from an earlier one.

Deadlock is not checked: a call ends, a tool may idle for ever, each stream,
message and call is used once, and a command has a maximal length.  Streams,
messages and calls are symmetric; no liveness is checked under symmetry.

Fairness: the event loop runs every callback that can run (weak fairness of
each pump, EOF, notification and reader step), the coroutine goes on when it
can, its timers included, and a process that was sent SIGKILL dies.  Tools owe
nothing, except in `FilterSpec`, where a stage whose stdin has ended exits and
the timeout need not fire.  `Sessions`, `Commands` and `Dispatch` have
safety properties only.

### Where the code and its documentation differ

- **`tool_hang`**: `run_tool` ends with an unbounded `await proc.wait()` (line
  155).  When a tool writes more stderr than the 8192-byte cap plus what the
  paused reader takes, and the server sees the end of stdout before the exit,
  the call never returns, whatever the tool's timeout.  (With CPython 3.11, a
  tool that writes 180 000 bytes to stderr and exits hangs the call in a
  noticeable share of the runs.)  README.md:260 promises an envelope for every
  tool.
- **`tool_timeout`**: a tool that closes its stdout and runs on is never
  killed; cli_executor.py:4 promises that the timeout kills.
- **`dispatch_silent`**: exceptions other than `FileNotFoundError` leave the
  executor and `call_tool`: no envelope (README.md:260) and no line in the log
  (server.py:209), although the gates let the call pass and stages of it may
  have been started.
- **`text_empty`**: an empty command never reaches the filter that was changed
  to accept it (CHANGELOG.md:120): the grammar rejects it as an empty segment.

Smaller things met on the way.  Two of them come close to contradicting what
the repository says.  `pipe_fds`, which the comment at cli_executor.py:200 calls
"parent-side fds we still need to close", is never filled, so the loop over it
(line 243) closes nothing: when the binary of a stage is missing, the read end
kept for that stage and the pipe made for its output stay open.  `EndsClosed`
exempts this path, so it does not catch that leak; it says that no other call
that returns has one.  (A call that raises in the spawn loop may.)  And
CHANGELOG.md:133 says "Quoted tool names in pipe segments are rejected": a name
with an empty pair of quotes glued to its end is accepted, as the segment still
starts with the name; `NameIsNotArgument` exempts it.  The others no document
contradicts.  `_drain` waits as long
as a descendant holds the last stdout, which `Returns` excludes by the quirk
`fork`.  The scanner and shlex disagree on backslashes, as docs/TESTING.md:134
says in general: outside quotes a backslash escapes for shlex only, between
single quotes for the scanner only, which takes the quote of `'\'` for escaped.
`parted` records the first such character.  After it the two can get back into
step with different ideas of what was quoted: `'\'"'|\""` is one word for shlex
and two segments for the scanner, both of them without an error.  Such a command
is rejected or run on what was filtered all the same, because the filter and the
executor use the scanner's segments.  An empty
pair of quotes glued to a stage's name becomes an empty argument
(`NameIsNotArgument`; nothing keeps a catalog from naming a tool with a quote or
a backslash, which that property leaves out, as the name could then be taken
apart), and a form feed at the edge of a single command is
stripped for the filter but not for the tool (`FilteredIsRun`).

## Proofs

All proofs are for every value of the constants that the named assumptions
allow.  For every component the inductive invariant `IInv` is also checked by
TLC, in the runs named above.

### The executors

`Subprocess` states what the layer of pipes, readers and exits keeps by itself,
`Plumbing`: every byte written is in the pipe, in the reader or collected,
until one was read beyond the cap (`Conserved`); EOF is seen only on an empty
pipe nobody holds, and stays true (`EofIsFinal`), which needs that nobody
acquires a pipe but by `Fork` from one who holds it; a reader task ends only at
EOF or past the cap (`ReaderEnds`); `returncode` is never a guess
(`ExitKnown`); a stage has pipes and a status only while, or after, it ran
(`Lifecycle`).  `Subprocess_proofs` proves from `SubprocessAssumption` that the
tools and the event loop preserve it (`EnvironmentPlumbing`), and so do the
steps by which a coroutine starts a stage, signals some and moves its readers
(`SpawnPlumbing`, `ControlPlumbing`); which parts of the state the environment
cannot undo while the coroutine waits (`EnvironmentKeeps`); and that all an
observer without sight of pipes and tasks sees of such a step is that something
was written, that one process ended, or nothing (`EnvironmentFromOutside`).
`OutputIsComplete` is the core of both result theorems: once the stdout reader
is done, conservation says that what it collected is all that was or will be
written, or exactly the cap of more.

`RunTool_proofs` (assumption `OneStage`):

- `TypeCorrect`: `Spec => []TypeOK`
- `ResultsAreComplete`: `Spec => []NoSilentLoss`
- `NothingOutlivesACall`: `Spec => []NothingLeftRunning`
- `ExitStatusIsTrue`: `Spec => []TrueExitStatus`
- `StderrIsReported`: `Spec => []StderrSurfaces`, when `Tidy`
- `KeepsTheContract`: `Spec => ImplementsContract`

`RunPipeline_proofs` (assumption `ManyStages`, any number of stages from two):

- `TypeCorrect`: `Spec => []TypeOK`
- `ResultsAreComplete`: `Spec => []NoSilentLoss`
- `NothingOutlivesACall`: `Spec => []NothingLeftRunning`
- `PipeEndsAreClosed`: `Spec => []EndsClosed`
- `FailuresAreTold`: `Spec => []NoFailureHidden`, when `"slow" \notin Quirks`
- `KeepsTheContract`: `Spec => ImplementsContract`

None of the safety properties is inductive; `Invariance` proves `Spec => []IInv`
in each module, with one lemma per action.  To `Plumbing` it adds, for
`run_tool`, what the coroutine has established by each await (`AtAwait`): the
reap states are reached with the process killed or ended, and the final wait
either is for an exit not yet noticed or the exit is known; and that the
envelope keeps what it was built from (`EnvelopeKept`).  For `run_pipeline` it
adds that stages are started in order, so that the loops over `procs` on the
error paths, modelled as going on to stage `k + 1` if it was started, miss none
(`InOrder`);
that each loop has killed, reaped or awaited every stage before `k`
(`LoopsSoFar`); which pipe ends the server has at each await: at most the read
end for the next stage, and none once the readers run (`EndsAtAwait`); and
which readers there are (`ReadersAtAwait`).

Two theorems have a hypothesis on `Quirks`, because the code has no more to
offer: both are about 2 s timers that give up on something that has happened
already but which the loop has not seen.  `FailuresAreTold` excludes that
(`slow`), as its run `pipe_returns` does; then a bounded wait is left only with
a known status, or by a timeout after which the stage is killed and its exit
noticed (`StatusesKnown`).  `StderrIsReported` also excludes tools that close a
pipe early or leave it to descendants (`Tidy`): then the end of stdout means
that the tool has exited and that its stderr is about to end, so that the 2 s
cannot run out unless stdout was cut at the cap (`StderrAwaited`).  Every other
theorem holds for every set of quirks.

`KeepsTheContract` is the refinement: with `phase`, `live`, `written`, `ended`
mapped to `pc`, the processes not killed, `wrote` and the last stage's `code`,
the initial states are initial states of `ToolCall`, and every step is one of
its steps or changes nothing it sees.  A step of the environment is a `CWrite`,
a `CStop`, a `CEnd` or invisible (`EnvironmentFromOutside`), a kill is a
`CStop`, and an envelope is honest because `IInv` holds before and after it.

### The sessions

`Sessions_proofs` proves, for every set of identities, streams, messages,
requests and identity blocks, from `IdentityAssumption` (the constants differ)
and `SessionsAssumption` (session ids that were never issued are not streams,
requests and blocks have their types):

- `IdentityFailsClosed`: `Spec => []FailsClosed`
- `RecordsNameTheOpener`: `Spec => []RecordedAsItsOpener`
- `RecordsNameTheSender`: `Spec => []RecordedAsItsSender`
- `TablesStayTogether`: `Spec => []TablesAgree`
- `OwnersAreHeard`: `Spec => []OwnerIsHeard`
- `ForeignAnswers`: `Spec => []ForeignLooksUnknown`
- `TypeCorrect`: `Spec => []TypeOK`

The inductive invariant says that a stream's context, its entry in
`SESSION_IDENTITY` while it has one, and the copy its calls were given, are all
what `resolve_identity` returned for the request that opened it
(`ContextIsTheOpeners`, `TableIsTheOpeners`, `CallerIsTheOpener`); and that a
message which passed its check still satisfies it at every later await
(`CheckStillHolds`), although the stream may have left the tables by then: the
check compares two requests under one configuration, and none of the three can
change.  The lemmas about `Identity` tie that to the headers: what
`resolve_identity` returns is the one value of the header, and a request let in
under a block with a proxy header has presented the secret, because a block
without a secret does not load.

The two theorems about replies need more than that invariant, because a reply
is read long after it was given: `ReplyInv`, proved on top of it, says that an
open stream is always in the transport's table, that a session named by a
message was issued before and so never opens again, and that what a reply said
of the two requests it compared is still so.

### call_tool and the catalog

`Dispatch_proofs` proves, for every set of calls and requests, any search paths
and every state of the disk, from `DispatchAssumption` (the absent request is
no request, `search_paths` is a list, and a raw entry's binary is a bare name
or a directory and a name, which is how the model writes the two kinds
`_resolve_binary` tells apart):

- `NothingRunsUnchecked`: `Spec => []AllGatesBeforeAnyRun`
- `VerdictsAgree`: `Spec => []SameRequestSameVerdict`
- `ListedToolsAreKnown`: `Spec => []ListedIsKnown`
- `CatalogIsWhole`: `Spec => []CatalogAllOrNothing`
- `RunsWhatItFound`: `Spec => []RunsTheBinaryFirstFound`

The text operators stay unexpanded, so the proofs hold whatever a glob matches
and however a text is split: the argument is about which entry's rules are
applied to which text, and when.  The inductive invariant says that the
registry, once loaded, is what one disk gives and is never replaced
(`RegistryIsOneLoad`), that what was listed is in it, that the verdict on every
call is what the gates say of its request with this registry
(`VerdictIsItsOwn`), that only a passed call has stages, the ones its request
resolves to (`OnlyPassedRun`), and that its processes are these stages, one
after the other (`RanInOrder`).  `NothingRunsUnchecked` then needs
what the model's operators say of one request: that a passed request has all
its stages passed (`VerdictCases`), that a stage is the tool and the text which
were typed (`StageIsTyped`), and that the entry of a name is made of the raw
entry of that name, the only one because `add` refused no entry
(`LoadedWhole`).

`RunsWhatItFound` ties the process back to the catalog file: stage *i* of a call
has the binary of the entry its segment names (`RanInOrder`, `StageIsTyped`);
the entry is healthy, because the gates let it pass; and its binary is what
`_resolve_binary` returned for the raw entry when the registry was loaded
(`EntryHasItsBinary`), the one of least index among the search paths that had
it (`FirstFound`).  That a set of indices has a least one (`LeastOfThem`) is
proved from the library's well-foundedness of the naturals.

### The scanner and shlex

`Commands_proofs` proves, for every alphabet, registry and commands of any
length, from `QuotingAssumption` (the word that stands for "no quote" is not a
character) and `CommandsAssumption` (the keyboards have characters of the
alphabet only, and what is said of path rules below):

- `SplitsAgree`: `Spec => []SplitAgreesWithShlex`
- `LegalCommandsSplit`: `Spec => []LegalIsSplittable`
- `FilteredWordsRun`: `Spec => []FilteredIsRun`
- `NamesAreNotArguments`: `Spec => []NameIsNotArgument`

The condition of the first two is `parted`, which says at which characters the two
readers can take different turns.  A weaker one, which excludes only backslashes
outside quotes, holds for every command of up to eight characters and fails for
the one of nine above.  The invariant says that until then all three readers are
in the same quotes, that what the scanner skips between double quotes is what
shlex escapes there, and that no segment has ended inside a quote (`InStep`).
`ScanTurn` and `LexTurn` say what one turn of each loop does to quotes,
`SameTurn` that two readers in the same quotes stay so.

These are facts about turns; the properties are about what `ParsePipeline` and
`Split` return, which are folds over a whole text.  `AsFolded`, a part of the
invariant, connects the two: the readers' states are `Scan(command)`,
`Lex(command)` and `Lex` of the segment being read, a segment that was ended can
be split unless `unsplit`, and shlex met no backslash that escapes in any of
them unless `parted`.

`Text_proofs` has what this needs about texts of any length.  A fold of the
community modules is a `CHOOSE` of a function on the subsets of the text's
positions; `FoldExists` shows that such a function exists, so that `Lex` and
`Scan` of a text with one character more are one turn more (`LexAppend`,
`ScanAppend`).  The library's induction theorems cannot be instantiated here, as
they take an operator; `Induction` is the same principle for the members of a
set, proved from the well-foundedness of the naturals, and every fact about all
texts below goes through it:

- `StripIs`, `LStripIs`: which piece of a text `strip()` and `lstrip()` leave.
- `StripSplits`: a text that can be split still can after `strip()`, if nothing
  in it is escaped by a backslash.  (A text that ends in a backslash and a space
  cannot: this is why `LegalIsSplittable` needs `parted`.)
- `StripSameWords`: the words of the stripped text are those of the text, if the
  stripped text can be split and no form feed was stripped.  `FilteredWordsRun`
  is this and that a single segment is the whole command.
- `NameIsWord`, `RestAfterName`: shlex reads a tool's name at the start of a
  segment as it is written, and the rest of the segment has the words that
  follow, after an empty one perhaps.  The rest is read side by side with the
  segment (`AfterName`): they differ by the name in front of the first word
  until that word ends, and by that word from then on.

### Paths

`Paths_proofs` proves, from the same assumptions:

- `PathsAreChecked`: `Spec => []NoSpellingEscapes`

`CommandsAssumption` says of a path rule that it names a place: at least one
component, each in lower case, without wildcards or slashes, and none of them
empty, "." or "..".  (A rule in upper case is compared in lower case; rules with
wildcards elsewhere and relative rules are not covered.)  A rule stands for the pattern of that place, or of everything beneath it;
the repository's tests and probes use these for absolute paths
(`tests/test_filter.py`, `scripts/verify/conformance.py`).  A path is any text
that starts with a slash and has no blank, quote or backslash, so that it can be
handed over in one word, bare or in one of the ways of `Spellings`.  Where it
leads is `Place`, which counts depths and does not know `normpath`.  The second
half of the property, that nothing else is rejected, is about paths without "=":
`/a=/x` is rejected where `/x` is denied, because `_candidate_paths` looks behind
the "=".

The argument goes along the four loops of the filter (`split("/")`, `normpath`,
`"/".join`, `fnmatch`), each shown to be a loop like `Lex` and `Scan` above
(`CutAppend`, `TakeAppend`, `JoinAppend`, `ReachAppend`):

- `TakenIsPlace`: what `normpath` has taken after each component is as long as
  the path is deep there, and holds at each depth the name that last led to it.
- `EachComponents`, `EachTaken`, `EachJoin`: splitting, normalising and joining
  commute with lower case, so that the pattern, compared in lower case, may be
  compared with the place of the path in lower case.
- `ComponentsOfJoin`, `ComponentsSplit`: joining and splitting undo each other,
  so a text that goes on behind a rule's path and a slash is a place beneath it
  (`BeneathIs`).
- `ReachedLiteral`, `GlobLiteral`, `GlobStar`: what `fnmatch` makes of a pattern
  without wildcards and of one with a "*" at its end; `RuleMatches` puts these
  together.
- `SpellingIs`: `shlex.split` leaves each spelling whole, and `_candidate_paths`
  finds the path in it and, without "=", nothing else.

### Only model-checked

- The liveness properties `Returns` and `EofTravels`: the prover does not handle
  fairness and `ENABLED`.
- What the four runs that end in a violation refute.

## Not modelled

- In the executor: the wording of errors, JSON decoding of results, times, and
  whitespace stripping: output that is only whitespace counts as output here, and
  `NoSilentLoss` and `ToolCall` are about the bytes a result is made from, before
  `run_pipeline` takes the newlines off its end (line 313) and `run_tool` the
  whitespace around it (line 167).  A client does not get those back.
  `run_cli` is a wrapper without state.
- In the sessions: a configuration that uses one header for both purposes, and
  the content of messages other than tool calls.  An identity block that is
  present but empty is taken for an absent one (`identity.py:74`): the
  documentation says nothing of it, the model has it as an initial state.
- In the filter: character classes `[...]` in patterns, and letters whose lower
  case is more than one character.
- In the catalog: `prepend_args` (fixed by the entry, in front of what was
  typed), the chain of defaults for timeouts and limits, `pipe_stage` given as
  something else than a boolean, and rules given as one string instead of a
  list, which `list()` takes apart.
- In `Dispatch`: the identity field of the envelope, which is `Sessions`'
  subject, and how a started stage runs, which is `RunTool`'s and
  `RunPipeline`'s; there is no composition of the three, as they share no state
  but the text a stage is started with and the way a call ends.
- `load_config`'s choice of a file, the audit log's handlers, the launcher
  script: set-up of the environment.  `scripts/verify/conformance.py` is a test
  program; its assertions are a source of claims, not a part of the system.

## Plan

Every safety property that the runs check is proved, and both refinements.  What
is left: action properties of the executors that the contract does not say, such
as that no pipe is read after its reader was cancelled, and a definition of what
a pattern with wildcards anywhere matches, to prove the glob match against.
