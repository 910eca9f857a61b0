------------------------------ MODULE Catalog -------------------------------
(***************************************************************************)
(* catalog.py: the registry made from the YAML files of the catalog        *)
(* directory and the executables present when it is loaded.                *)
(*                                                                         *)
(* A disk has dir (the catalog directory exists), docs (its files in       *)
(* order, as parsed) and executables (pairs of a directory and a name).  A *)
(* raw entry has name, binary (one component when bare, two when           *)
(* absolute), deny, allow, path_deny, pipe_stage; given, which of the two  *)
(* description keys it has; and wrong, the other keys whose value is       *)
(* missing or not of the type that is asked for.                           *)
(***************************************************************************)
EXTENDS SequencesExt, FiniteSetsExt

CONSTANTS
  SearchPaths,  \* catalog.search_paths
  Unloaded      \* REGISTRY is None, or load_catalog has raised

ValidatedKeys == {"entry", "name", "binary", "rules", "prepend_args", "output", "path_rules"}

\* _validate_entry.
ValidEntry(raw) ==
  /\ raw.wrong \cap ValidatedKeys = {}
  /\ Cardinality(raw.given) = 1
  /\ raw.deny \cup raw.allow # {}

\* _build_entry can read the description file and convert the limits.
CanBuild(raw) ==
  /\ "description_file" \in raw.given => "description_file" \notin raw.wrong
  /\ raw.wrong \cap {"timeout_seconds", "max_bytes"} = {}

NotFound == <<>>

\* A mutant of ResolveBinary: the last directory that has the name wins.
ResolveBinary_Last(binary, executables) ==
  LET tried == IF Len(binary) = 2 THEN <<binary>>
               ELSE [i \in DOMAIN SearchPaths |-> <<SearchPaths[i], binary[1]>>]
      hits == {i \in DOMAIN tried : tried[i] \in executables}
  IN IF hits = {} THEN NotFound ELSE tried[Max(hits)]

\* _resolve_binary: an absolute path is itself, a bare name the first hit.
ResolveBinary(binary, executables) ==
  LET tried == IF Len(binary) = 2 THEN <<binary>>
               ELSE [i \in DOMAIN SearchPaths |-> <<SearchPaths[i], binary[1]>>]
      hits == {i \in DOMAIN tried : tried[i] \in executables}
  IN IF hits = {} THEN NotFound ELSE tried[Min(hits)]

BuildEntry(raw, executables) ==
  [name |-> raw.name, binary |-> ResolveBinary(raw.binary, executables),
   pipe_stage |-> raw.pipe_stage, rules |-> [deny |-> raw.deny, allow |-> raw.allow],
   path_deny |-> raw.path_deny]

\* ToolEntry.healthy.
Healthy(entry) == entry.binary # NotFound

RawEntries(disk) == FlattenSeq([i \in DOMAIN disk.docs |-> disk.docs[i].entries])

\* The entry of that name, the only one once AddsUp.
RawNamed(raws, name) == raws[CHOOSE i \in DOMAIN raws : raws[i].name = name]

\* A mutant of AddsUp: an entry whose name is taken is passed over.
AddsUp_FirstWins(raws) == TRUE

\* ToolRegistry.add raises for none of the entries.
AddsUp(raws) ==
  \A i, j \in DOMAIN raws : raws[i].name = raws[j].name => i = j

\* load_catalog: everything, or an exception.
LoadCatalog(disk) ==
  LET raws == RawEntries(disk)
  IN IF /\ disk.dir
        /\ \A i \in DOMAIN disk.docs : disk.docs[i].kind \in {"empty", "list"}
        /\ \A i \in DOMAIN raws : ValidEntry(raws[i]) /\ CanBuild(raws[i])
        /\ AddsUp(raws)
     THEN [name \in {raws[i].name : i \in DOMAIN raws} |->
             BuildEntry(RawNamed(raws, name), disk.executables)]
     ELSE Unloaded
=============================================================================
