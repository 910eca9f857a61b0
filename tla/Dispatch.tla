------------------------------ MODULE Dispatch ------------------------------
(***************************************************************************)
(* server.py's handlers over the catalog, the grammar, the filter and the  *)
(* executor: start-up, the registry loaded at first use, the listing, the  *)
(* health page, and call_tool with its gates, its envelope and its line in *)
(* the log, for several calls at a time while the catalog directory and    *)
(* the installed binaries change.  Of the executor there is the text each  *)
(* stage is started with and how a call may end (see ToolCall).            *)
(***************************************************************************)
EXTENDS Catalog, Pipeline, Filter

CONSTANTS
  Calls,     \* tool calls
  Requests,  \* records [tool, command]
  Disks,     \* states of the catalog directory and the binaries
  NoRequest

\* binary is a name to look up or a directory and a name (see Catalog).
ASSUME DispatchAssumption ==
  /\ NoRequest \notin Requests
  /\ SearchPaths \in Seq(Range(SearchPaths))
  /\ \A d \in Disks : \A i \in DOMAIN RawEntries(d) :
       LET binary == RawEntries(d)[i].binary
       IN binary = <<binary[1]>> \/ binary = <<binary[1], binary[2]>>

VARIABLES
  config,    \* CONFIG: "unread", "unusable", "no node" or "good"
  disk,      \* what load_catalog would read now
  registry,  \* REGISTRY
  source,    \* history: the disk it was loaded from
  listed,    \* history: names the clients have been shown
  pc,        \* call -> "idle", "running", "answered", "raised", "cancelled"
  request,   \* call -> its request
  verdict,   \* call -> what the gates said: a status, or "pass"
  stages,    \* call -> the stages it was resolved to
  ran,       \* call -> stages started: binary and argv after prepend_args
  envelope,  \* call -> status of the envelope, or "none"
  lines      \* call -> statuses of its lines in the log

caches   == <<config, registry, source>>
callVars == <<pc, request, verdict, stages, ran, envelope, lines>>
vars     == <<disk, caches, listed, callVars>>

Init ==
  /\ config = "unread" /\ disk \in Disks
  /\ registry = Unloaded /\ source = disk /\ listed = {}
  /\ pc = [c \in Calls |-> "idle"]
  /\ request = [c \in Calls |-> NoRequest]
  /\ verdict = [c \in Calls |-> "none"]
  /\ stages = [c \in Calls |-> <<>>]
  /\ ran = [c \in Calls |-> <<>>]
  /\ envelope = [c \in Calls |-> "none"]
  /\ lines = [c \in Calls |-> <<>>]

-----------------------------------------------------------------------------
(* Configuration, registry, and the handlers that only need those.         *)

\* _lifespan: the configuration is read for the identity block; the server
\* stops if there is none, and otherwise keeps it.
Start ==
  /\ config = "unread"
  /\ config' \in {"unusable", "no node", "good"}
  /\ UNCHANGED <<disk, registry, source, listed, callVars>>

Up == config \in {"no node", "good"}

DiskChanges ==
  /\ disk' \in Disks \ {disk}
  /\ UNCHANGED <<caches, listed, callVars>>

\* A mutant of GetRegistry: the catalog is read for every request.
GetRegistry_NoCache == LoadCatalog(disk)

\* get_registry: what it returns, Unloaded when it raises.
GetRegistry == IF registry = Unloaded THEN LoadCatalog(disk) ELSE registry

FillRegistry ==
  /\ GetRegistry # Unloaded
  /\ registry' = GetRegistry
  /\ source' = IF registry = Unloaded THEN disk ELSE source

\* A mutant of ListTools: the listing is made from the catalog as it is now.
ListTools_FromDisk ==
  /\ Up /\ FillRegistry /\ LoadCatalog(disk) # Unloaded
  /\ listed' = listed \cup DOMAIN LoadCatalog(disk)
  /\ UNCHANGED <<config, disk, callVars>>

ListTools ==
  /\ Up /\ FillRegistry
  /\ listed' = listed \cup DOMAIN GetRegistry
  /\ UNCHANGED <<config, disk, callVars>>

\* health: it has filled the registry when it fails for want of a node name.
Health ==
  /\ Up /\ FillRegistry
  /\ UNCHANGED <<config, disk, listed, callVars>>

-----------------------------------------------------------------------------
(* call_tool, up to the executor: no await, so one step.                   *)

Passes(entry, args) ==
  Healthy(entry) /\ CheckCommand(args, entry.rules) /\ CheckPaths(args, entry.path_deny)

StagesOf(reg, r) == ResolvePipeline(r.tool, ParsePipeline(r.command), reg)

\* A mutant of Verdict: the rules of the tool called hold for every stage.
Verdict_LeadRules(reg, r) ==
  LET st == StagesOf(reg, r)
      Ok(i) == Passes(reg[r.tool], st[i].args)
  IN IF r.tool \notin DOMAIN reg THEN "unknown tool"
     ELSE IF ~Healthy(reg[r.tool]) THEN "error"
     ELSE IF st = <<>> THEN "denied"
     ELSE IF \A i \in DOMAIN st : Ok(i) THEN "pass"
     ELSE "denied"

\* What the gates say of a request: the first that is not passed decides.
Verdict(reg, r) ==
  LET st == StagesOf(reg, r)
      Ok(i) == Passes(reg[st[i].tool], st[i].args)
  IN IF r.tool \notin DOMAIN reg THEN "unknown tool"
     ELSE IF ~Healthy(reg[r.tool]) THEN "error"
     ELSE IF st = <<>> THEN "denied"
     ELSE IF \A i \in DOMAIN st : Ok(i) THEN "pass"
     ELSE IF \E i \in DOMAIN st : /\ ~Healthy(reg[st[i].tool])
                                  /\ \A j \in 1..(i - 1) : Ok(j)
     THEN "error" ELSE "denied"

Receive(c, r) ==
  /\ Up /\ pc[c] = "idle"
  /\ request' = [request EXCEPT ![c] = r]

\* An envelope goes to the client, and its copy to the log.
Answer(c, status) ==
  /\ pc' = [pc EXCEPT ![c] = "answered"]
  /\ envelope' = [envelope EXCEPT ![c] = status]
  /\ lines' = [lines EXCEPT ![c] = Append(@, status)]

Leave(c, how) ==
  /\ pc' = [pc EXCEPT ![c] = how]
  /\ UNCHANGED <<envelope, lines>>

\* No node name (read before the registry), or a catalog that does not load.
CallRaises(c, r) ==
  /\ Receive(c, r)
  /\ config = "no node" \/ GetRegistry = Unloaded
  /\ Leave(c, "raised")
  /\ UNCHANGED <<disk, caches, listed, verdict, stages, ran>>

\* A mutant of CallRefused: after the refusal the call goes on, for want of a
\* return.
CallRefused_GoesOn(c, r) ==
  /\ Receive(c, r) /\ config = "good" /\ FillRegistry
  /\ Verdict(GetRegistry, r) # "pass"
  /\ verdict' = [verdict EXCEPT ![c] = Verdict(GetRegistry, r)]
  /\ stages' = [stages EXCEPT ![c] = StagesOf(GetRegistry, r)]
  /\ Leave(c, "running")
  /\ UNCHANGED <<config, disk, listed, ran>>

CallRefused(c, r) ==
  /\ Receive(c, r) /\ config = "good" /\ FillRegistry
  /\ Verdict(GetRegistry, r) # "pass"
  /\ verdict' = [verdict EXCEPT ![c] = Verdict(GetRegistry, r)]
  /\ Answer(c, IF verdict'[c] = "denied" THEN "denied" ELSE "error")
  /\ UNCHANGED <<config, disk, listed, stages, ran>>

CallPasses(c, r) ==
  /\ Receive(c, r) /\ config = "good" /\ FillRegistry
  /\ Verdict(GetRegistry, r) = "pass"
  /\ verdict' = [verdict EXCEPT ![c] = "pass"]
  /\ stages' = [stages EXCEPT ![c] = StagesOf(GetRegistry, r)]
  /\ Leave(c, "running")
  /\ UNCHANGED <<config, disk, listed, ran>>

-----------------------------------------------------------------------------
(* The executor, stage by stage, and what call_tool makes of its result.   *)

Text(c, i) == TextRun(request[c].command, stages[c], i)
Binary(c, i) == registry[stages[c][i].tool].binary
Turn(c) == Len(ran[c]) + 1
Starting(c) == pc[c] = "running" /\ Turn(c) \in DOMAIN stages[c]

SpawnStage(c) ==
  /\ Starting(c) /\ Splits(Text(c, Turn(c)))
  /\ Binary(c, Turn(c)) \in disk.executables
  /\ ran' = [ran EXCEPT ![c] =
       Append(@, [binary |-> Binary(c, Turn(c)), argv |-> Split(Text(c, Turn(c)))])]
  /\ UNCHANGED <<disk, caches, listed, pc, request, verdict, stages, envelope, lines>>

\* FileNotFoundError: the binary has gone since the catalog was loaded.
SpawnNotFound(c) ==
  /\ Starting(c) /\ Splits(Text(c, Turn(c)))
  /\ Binary(c, Turn(c)) \notin disk.executables
  /\ Answer(c, "error")
  /\ UNCHANGED <<disk, caches, listed, request, verdict, stages, ran>>

\* shlex.split raises ValueError, or the spawn another OSError.
SpawnRaises(c) ==
  /\ Starting(c)
  /\ Leave(c, "raised")
  /\ UNCHANGED <<disk, caches, listed, request, verdict, stages, ran>>

Finish(c) ==
  /\ pc[c] = "running" /\ Turn(c) \notin DOMAIN stages[c]
  /\ \E status \in {"success", "error"} : Answer(c, status)
  /\ UNCHANGED <<disk, caches, listed, request, verdict, stages, ran>>

Cancelled(c) ==
  /\ pc[c] = "running"
  /\ Leave(c, "cancelled")
  /\ UNCHANGED <<disk, caches, listed, request, verdict, stages, ran>>

Next ==
  \/ Start \/ DiskChanges \/ ListTools \/ Health
  \/ \E c \in Calls, r \in Requests :
       CallRaises(c, r) \/ CallRefused(c, r) \/ CallPasses(c, r)
  \/ \E c \in Calls :
       SpawnStage(c) \/ SpawnNotFound(c) \/ SpawnRaises(c) \/ Finish(c) \/ Cancelled(c)

Spec == Init /\ [][Next]_vars
-----------------------------------------------------------------------------

Statuses == {"success", "error", "denied"}

TypeOK ==
  /\ config \in {"unread", "unusable", "no node", "good"}
  /\ disk \in Disks /\ source \in Disks
  /\ pc \in [Calls -> {"idle", "running", "answered", "raised", "cancelled"}]
  /\ request \in [Calls -> Requests \cup {NoRequest}]
  /\ verdict \in [Calls -> {"none", "unknown tool", "error", "denied", "pass"}]
  /\ envelope \in [Calls -> Statuses \cup {"none"}]
  /\ DOMAIN stages = Calls /\ DOMAIN ran = Calls /\ DOMAIN lines = Calls

\* The catalog's raw entry for a name, in the disk the registry came from.
RawOf(name) == RawNamed(RawEntries(source), name)

\* The tool and the text of a segment, as the client typed them.
Typed(r, i) ==
  LET segment == ParsePipeline(r.command)[i]
  IN IF i = 1 THEN [tool |-> r.tool, text |-> segment]
     ELSE [tool |-> Head(Split(segment)), text |-> ArgsOf(segment)]

(***************************************************************************)
(* Once a process of a call has been started, every segment of its command *)
(* has passed the gates of its own tool, as the catalog files state them:  *)
(* a pipe stage where it has to be, no deny pattern, an allow pattern, no  *)
(* denied path.  Not only the stages already started: nothing of a         *)
(* pipeline runs that is refused further down.  (server.py:282-302.)       *)
(***************************************************************************)
AllGatesBeforeAnyRun ==
  \A c \in Calls : ran[c] # <<>> =>
    \A i \in DOMAIN ParsePipeline(request[c].command) :
      LET typed == Typed(request[c], i)
          raw == RawOf(typed.tool)
      IN /\ i # 1 => raw.pipe_stage
         /\ \A p \in raw.deny : ~GlobMatch(Strip(typed.text), p)
         /\ \E p \in raw.allow : GlobMatch(Strip(typed.text), p)
         /\ \A w \in ToSet(Split(typed.text)) : \A path \in CandidatePaths(w) :
              \A p \in raw.path_deny : ~GlobMatch(NormalizePath(path), p)

(***************************************************************************)
(* A stage runs the words the client typed for it (a tool called alone the *)
(* words of the command as it came), with the binary its entry names, the  *)
(* first of that name in search_paths when the catalog was loaded,         *)
(* whatever has been installed or removed since.  (README.md:49; healthy   *)
(* is never looked up again.)                                              *)
(***************************************************************************)
RunsTheBinaryFirstFound ==
  \A c \in Calls : \A i \in DOMAIN ran[c] :
    LET r == request[c]
        typed == Typed(r, i)
        named == RawOf(typed.tool).binary
        alone == DOMAIN ParsePipeline(r.command) = {1}
        run == ran[c][i].binary
    IN /\ ran[c][i].argv = Split(IF alone THEN r.command ELSE typed.text)
       /\ run \in source.executables
       /\ \/ run = named
          \/ \E n \in DOMAIN SearchPaths :
               /\ run = <<SearchPaths[n], named[1]>>
               /\ \A m \in 1..(n - 1) : <<SearchPaths[m], named[1]>> \notin source.executables

(***************************************************************************)
(* Two calls that make the same request are told the same by the gates,    *)
(* whatever happens to the catalog files between them.                     *)
(***************************************************************************)
SameRequestSameVerdict ==
  \A c, d \in Calls :
    verdict[c] # "none" /\ verdict[d] # "none" /\ request[c] = request[d] =>
      verdict[c] = verdict[d]

(***************************************************************************)
(* A tool that a client has been shown is never an unknown tool to a call. *)
(***************************************************************************)
ListedIsKnown ==
  \A c \in Calls : verdict[c] = "unknown tool" => request[c].tool \notin listed

(***************************************************************************)
(* The registry is the catalog as it was at one moment, all of it: every   *)
(* entry of every file is there with its own rules, none shadows another,  *)
(* and a load that failed has left nothing behind.                         *)
(***************************************************************************)
CatalogAllOrNothing ==
  registry # Unloaded =>
    LET raws == RawEntries(source)
    IN /\ DOMAIN registry = {raws[i].name : i \in DOMAIN raws}
       /\ \A i \in DOMAIN raws :
            /\ registry[raws[i].name].rules = [deny |-> raws[i].deny, allow |-> raws[i].allow]
            /\ registry[raws[i].name].path_deny = raws[i].path_deny
            /\ raws[i].deny \cup raws[i].allow # {}

(***************************************************************************)
(* Why: the registry is one load and is never replaced; what was listed is *)
(* in it (ListedFromIt), what the gates said of a call is what they say of *)
(* its request with this registry (VerdictIsItsOwn), only a call that      *)
(* passed has stages or processes (OnlyPassedRun), and the processes are   *)
(* its stages, started one after the other (RanInOrder).                   *)
(***************************************************************************)
RegistryIsOneLoad == registry # Unloaded => registry = LoadCatalog(source)

ListedFromIt == listed # {} => registry # Unloaded /\ listed \subseteq DOMAIN registry

VerdictIsItsOwn ==
  \A c \in Calls : verdict[c] # "none" =>
    /\ registry # Unloaded
    /\ request[c] \in Requests
    /\ verdict[c] = Verdict(registry, request[c])

OnlyPassedRun ==
  \A c \in Calls :
    /\ pc[c] = "idle" => verdict[c] = "none" /\ stages[c] = <<>> /\ ran[c] = <<>>
    /\ ran[c] # <<>> => verdict[c] = "pass"
    /\ pc[c] = "running" => verdict[c] = "pass"
    /\ verdict[c] = "pass" => stages[c] = StagesOf(registry, request[c])

RanInOrder ==
  \A c \in Calls :
    /\ ran[c] \in Seq(Range(ran[c]))
    /\ \A i \in DOMAIN ran[c] :
         /\ i \in DOMAIN stages[c]
         /\ ran[c][i] = [binary |-> Binary(c, i), argv |-> Split(Text(c, i))]

IInv ==
  /\ TypeOK /\ RegistryIsOneLoad /\ ListedFromIt /\ VerdictIsItsOwn
  /\ OnlyPassedRun /\ RanInOrder

(***************************************************************************)
(* server.py:209, "One line per tool call, carrying who it was made for":  *)
(* a call that passed the gates and was not cancelled ends with its line   *)
(* in the log.                                                             *)
(***************************************************************************)
EveryCallRecorded ==
  \A c \in Calls :
    verdict[c] = "pass" /\ pc[c] \in {"answered", "raised"} => Len(lines[c]) = 1
=============================================================================
