-------------------------- MODULE Dispatch_proofs ---------------------------
(***************************************************************************)
(* Proofs about call_tool's gates, for any number of calls, any requests   *)
(* and any catalogs on disk.  How a command is split, matched and          *)
(* normalised is left as it is: the text operators are never expanded.     *)
(***************************************************************************)
EXTENDS Dispatch, WellFoundedInduction, TLAPS

USE DispatchAssumption

\* The verdict is one of five, and is what the gates in their order allow.
LEMMA VerdictCases ==
  ASSUME NEW reg, NEW r
  PROVE  /\ Verdict(reg, r) \in {"unknown tool", "error", "denied", "pass"}
         /\ Verdict(reg, r) = "unknown tool" => r.tool \notin DOMAIN reg
         /\ Verdict(reg, r) = "pass" =>
              /\ r.tool \in DOMAIN reg
              /\ StagesOf(reg, r) # <<>>
              /\ \A i \in DOMAIN StagesOf(reg, r) :
                   Passes(reg[StagesOf(reg, r)[i].tool], StagesOf(reg, r)[i].args)
<1> DEFINE st == StagesOf(reg, r)
           Ok(i) == Passes(reg[st[i].tool], st[i].args)
           AllOk == \A i \in DOMAIN st : Ok(i)
           SomeDown == \E i \in DOMAIN st : /\ ~Healthy(reg[st[i].tool])
                                            /\ \A j \in 1..(i - 1) : Ok(j)
<1>1. Verdict(reg, r) =
        IF r.tool \notin DOMAIN reg THEN "unknown tool"
        ELSE IF ~Healthy(reg[r.tool]) THEN "error"
        ELSE IF st = <<>> THEN "denied"
        ELSE IF AllOk THEN "pass"
        ELSE IF SomeDown THEN "error" ELSE "denied"
  BY DEF Verdict
<1> HIDE DEF AllOk, SomeDown, st
<1>2. Verdict(reg, r) \in {"unknown tool", "error", "denied", "pass"}
  BY <1>1
<1>3. Verdict(reg, r) = "unknown tool" => r.tool \notin DOMAIN reg
  BY <1>1
<1>4. Verdict(reg, r) = "pass" => r.tool \in DOMAIN reg /\ st # <<>> /\ AllOk
  BY <1>1
<1>5. QED
  BY <1>2, <1>3, <1>4 DEF AllOk, st

-----------------------------------------------------------------------------
(* The invariant.                                                          *)

LEMMA InitIInv == Init => IInv
<1> SUFFICES ASSUME Init PROVE IInv
  OBVIOUS
<1>1. TypeOK
  BY DEF Init, TypeOK
<1>2. RegistryIsOneLoad /\ ListedFromIt
  BY DEF Init, RegistryIsOneLoad, ListedFromIt
<1>3. VerdictIsItsOwn /\ OnlyPassedRun
  BY DEF Init, VerdictIsItsOwn, OnlyPassedRun
<1>4. RanInOrder
  BY DEF Init, RanInOrder, Range
<1>5. QED
  BY <1>1, <1>2, <1>3, <1>4 DEF IInv

\* get_registry fills the registry once and then returns what is there.
LEMMA RegistryFilled ==
  ASSUME IInv, FillRegistry
  PROVE  /\ registry' = GetRegistry /\ registry' # Unloaded
         /\ source' \in Disks
         /\ registry' = LoadCatalog(source')
         /\ registry # Unloaded => registry' = registry
BY DEF IInv, TypeOK, RegistryIsOneLoad, FillRegistry, GetRegistry

\* What was started stays as it was when a step starts nothing and leaves every
\* call that has started something its request and its stages.
LEMMA RanKept ==
  ASSUME IInv, UNCHANGED ran, registry # Unloaded => registry' = registry,
         \A c \in Calls : ran[c] # <<>> => /\ request'[c] = request[c]
                                         /\ stages'[c] = stages[c]
  PROVE  RanInOrder'
<1> SUFFICES ASSUME NEW c \in Calls
             PROVE  /\ ran[c] \in Seq(Range(ran[c]))
                    /\ \A i \in DOMAIN ran[c] :
                         /\ i \in DOMAIN stages'[c]
                         /\ ran[c][i] = [binary |-> Binary(c, i)', argv |-> Split(Text(c, i)')]
  BY DEF RanInOrder
<1>1. ran[c] \in Seq(Range(ran[c]))
  BY DEF IInv, RanInOrder
<1>2. CASE ran[c] = <<>>
  BY <1>1, <1>2
<1>3. CASE ran[c] # <<>>
  <2>1. registry' = registry /\ request'[c] = request[c] /\ stages'[c] = stages[c]
    BY <1>3 DEF IInv, OnlyPassedRun, VerdictIsItsOwn
  <2>2. \A i : Binary(c, i)' = Binary(c, i) /\ Text(c, i)' = Text(c, i)
    BY <2>1 DEF Binary, Text
  <2>3. QED
    BY <1>1, <2>1, <2>2 DEF IInv, RanInOrder
<1>4. QED
  BY <1>2, <1>3

\* What a step keeps of the invariant when it touches no call.
LEMMA CallsUntouched ==
  ASSUME IInv, UNCHANGED callVars,
         registry # Unloaded => registry' = registry
  PROVE  VerdictIsItsOwn' /\ OnlyPassedRun' /\ RanInOrder'
<1>1. VerdictIsItsOwn'
  BY DEF IInv, VerdictIsItsOwn, callVars
<1>2. OnlyPassedRun'
  BY DEF IInv, VerdictIsItsOwn, OnlyPassedRun, callVars
<1>3. RanInOrder'
  BY RanKept DEF callVars
<1>4. QED
  BY <1>1, <1>2, <1>3

LEMMA StartStep == ASSUME IInv, Start PROVE IInv'
<1>1. TypeOK' /\ RegistryIsOneLoad' /\ ListedFromIt'
  BY DEF IInv, TypeOK, RegistryIsOneLoad, ListedFromIt, Start, callVars
<1>2. QED
  BY <1>1, CallsUntouched DEF IInv, Start

LEMMA DiskChangesStep == ASSUME IInv, DiskChanges PROVE IInv'
<1>1. TypeOK' /\ RegistryIsOneLoad' /\ ListedFromIt'
  BY DEF IInv, TypeOK, RegistryIsOneLoad, ListedFromIt, DiskChanges, caches, callVars
<1>2. QED
  BY <1>1, CallsUntouched DEF IInv, DiskChanges, caches

LEMMA ListToolsStep == ASSUME IInv, ListTools PROVE IInv'
<1>1. FillRegistry
  BY DEF ListTools
<1>2. TypeOK' /\ RegistryIsOneLoad'
  BY <1>1, RegistryFilled DEF IInv, TypeOK, RegistryIsOneLoad, ListTools, callVars
<1>3. ListedFromIt'
  BY <1>1, RegistryFilled DEF IInv, ListedFromIt, ListTools
<1>4. QED
  BY <1>1, <1>2, <1>3, RegistryFilled, CallsUntouched DEF IInv, ListTools

LEMMA HealthStep == ASSUME IInv, Health PROVE IInv'
<1>1. FillRegistry
  BY DEF Health
<1>2. TypeOK' /\ RegistryIsOneLoad'
  BY <1>1, RegistryFilled DEF IInv, TypeOK, RegistryIsOneLoad, Health, callVars
<1>3. ListedFromIt'
  BY <1>1, RegistryFilled DEF IInv, ListedFromIt, Health
<1>4. QED
  BY <1>1, <1>2, <1>3, RegistryFilled, CallsUntouched DEF IInv, Health

-----------------------------------------------------------------------------
(* call_tool up to the executor.                                           *)

\* A call that raises had no verdict before and has none now.
LEMMA CallRaisesStep ==
  ASSUME IInv, NEW c \in Calls, NEW r \in Requests, CallRaises(c, r)
  PROVE  IInv'
<1> USE DEF Receive, Leave, CallRaises
<1>1. TypeOK'
  BY DEF IInv, TypeOK, caches
<1>2. RegistryIsOneLoad' /\ ListedFromIt'
  BY DEF IInv, RegistryIsOneLoad, ListedFromIt, caches
<1>3. VerdictIsItsOwn'
  BY DEF IInv, TypeOK, VerdictIsItsOwn, OnlyPassedRun, caches
<1>4. OnlyPassedRun'
  BY DEF IInv, TypeOK, OnlyPassedRun, caches
<1>5. RanInOrder'
  <2>1. ran[c] = <<>> /\ UNCHANGED <<ran, registry, stages>>
    BY DEF IInv, OnlyPassedRun, caches
  <2>2. \A d \in Calls \ {c} : request'[d] = request[d]
    BY DEF IInv, TypeOK
  <2>3. QED
    BY <2>1, <2>2, RanKept
<1>6. QED
  BY <1>1, <1>2, <1>3, <1>4, <1>5 DEF IInv

LEMMA CallRefusedStep ==
  ASSUME IInv, NEW c \in Calls, NEW r \in Requests, CallRefused(c, r)
  PROVE  IInv'
<1> USE DEF Receive, CallRefused
<1>1. FillRegistry
  OBVIOUS
<1>2. verdict' = [verdict EXCEPT ![c] = Verdict(registry', r)]
  BY <1>1, RegistryFilled
<1>3. TypeOK'
  <2>1. verdict' \in [Calls -> {"none", "unknown tool", "error", "denied", "pass"}]
    BY <1>2, VerdictCases DEF IInv, TypeOK
  <2>2. pc' \in [Calls -> {"idle", "running", "answered", "raised", "cancelled"}]
    BY DEF IInv, TypeOK, Answer
  <2>3. request' \in [Calls -> Requests \cup {NoRequest}]
    BY DEF IInv, TypeOK
  <2>4. envelope' \in [Calls -> Statuses \cup {"none"}]
    BY DEF IInv, TypeOK, Answer, Statuses
  <2>5. DOMAIN stages' = Calls /\ DOMAIN ran' = Calls /\ DOMAIN lines' = Calls
    BY DEF IInv, TypeOK, Answer
  <2>6. QED
    BY <1>1, <2>1, <2>2, <2>3, <2>4, <2>5, RegistryFilled DEF IInv, TypeOK
<1>4. RegistryIsOneLoad' /\ ListedFromIt'
  BY <1>1, RegistryFilled DEF IInv, RegistryIsOneLoad, ListedFromIt
<1>5. VerdictIsItsOwn'
  BY <1>1, <1>2, RegistryFilled DEF IInv, TypeOK, VerdictIsItsOwn
<1>6. OnlyPassedRun'
  BY <1>1, <1>2, RegistryFilled DEF IInv, TypeOK, VerdictIsItsOwn, OnlyPassedRun, Answer
<1>7. RanInOrder'
  <2>1. ran[c] = <<>> /\ UNCHANGED <<ran, stages>>
    BY DEF IInv, OnlyPassedRun
  <2>2. \A d \in Calls \ {c} : request'[d] = request[d]
    BY DEF IInv, TypeOK
  <2>3. QED
    BY <1>1, <2>1, <2>2, RanKept, RegistryFilled
<1>8. QED
  BY <1>3, <1>4, <1>5, <1>6, <1>7 DEF IInv

LEMMA CallPassesStep ==
  ASSUME IInv, NEW c \in Calls, NEW r \in Requests, CallPasses(c, r)
  PROVE  IInv'
<1> USE DEF Receive, CallPasses
<1>1. FillRegistry
  OBVIOUS
<1>2. /\ Verdict(registry', r) = "pass"
      /\ verdict' = [verdict EXCEPT ![c] = "pass"]
      /\ stages' = [stages EXCEPT ![c] = StagesOf(registry', r)]
  BY <1>1, RegistryFilled
<1>3. TypeOK'
  BY <1>1, <1>2, RegistryFilled DEF IInv, TypeOK, Leave
<1>4. RegistryIsOneLoad' /\ ListedFromIt'
  BY <1>1, RegistryFilled DEF IInv, RegistryIsOneLoad, ListedFromIt
<1>5. VerdictIsItsOwn'
  BY <1>1, <1>2, RegistryFilled DEF IInv, TypeOK, VerdictIsItsOwn
<1>6. OnlyPassedRun'
  BY <1>1, <1>2, RegistryFilled DEF IInv, TypeOK, VerdictIsItsOwn, OnlyPassedRun, Leave
<1>7. RanInOrder'
  <2>1. ran[c] = <<>> /\ UNCHANGED ran
    BY DEF IInv, OnlyPassedRun
  <2>2. \A d \in Calls \ {c} : request'[d] = request[d] /\ stages'[d] = stages[d]
    BY <1>2 DEF IInv, TypeOK
  <2>3. QED
    BY <1>1, <2>1, <2>2, RanKept, RegistryFilled
<1>8. QED
  BY <1>3, <1>4, <1>5, <1>6, <1>7 DEF IInv

-----------------------------------------------------------------------------
(* The executor's steps change neither the request nor the verdict.        *)

\* The call ends, with an envelope or without one.
LEMMA EndStep ==
  ASSUME IInv, NEW c \in Calls, pc[c] = "running",
         NEW how \in {"answered", "raised", "cancelled"},
         pc' = [pc EXCEPT ![c] = how],
         envelope' \in [Calls -> Statuses \cup {"none"}], DOMAIN lines' = Calls,
         UNCHANGED <<disk, caches, listed, request, verdict, stages, ran>>
  PROVE  IInv'
<1>1. TypeOK'
  BY DEF IInv, TypeOK, caches
<1>2. RegistryIsOneLoad' /\ ListedFromIt' /\ VerdictIsItsOwn'
  BY DEF IInv, RegistryIsOneLoad, ListedFromIt, VerdictIsItsOwn, caches
<1>3. OnlyPassedRun'
  BY DEF IInv, TypeOK, OnlyPassedRun, caches
<1>4. RanInOrder'
  BY RanKept DEF caches
<1>5. QED
  BY <1>1, <1>2, <1>3, <1>4 DEF IInv

\* The sequence grows by its last element.
LEMMA AppendIsSequence ==
  ASSUME NEW s, s \in Seq(Range(s)), NEW e
  PROVE  /\ Append(s, e) \in Seq(Range(Append(s, e)))
         /\ DOMAIN Append(s, e) = DOMAIN s \cup {Len(s) + 1}
         /\ Append(s, e)[Len(s) + 1] = e
         /\ \A i \in DOMAIN s : Append(s, e)[i] = s[i]
<1> DEFINE S == Range(s) \cup {e}
           t == Append(s, e)
<1>1. s \in Seq(S) /\ e \in S
  OBVIOUS
<1> HIDE DEF S
<1>2. /\ Len(t) = Len(s) + 1 /\ t \in Seq(S) /\ t[Len(s) + 1] = e
      /\ \A i \in 1..Len(s) : t[i] = s[i]
  BY <1>1
<1> HIDE DEF t
<1>3. Len(s) \in Nat /\ DOMAIN s = 1..Len(s) /\ DOMAIN t = 1..(Len(s) + 1)
  BY <1>1, <1>2
<1>4. t \in Seq(Range(t))
  BY <1>2, <1>3 DEF Range
<1>5. QED
  BY <1>2, <1>3, <1>4 DEF t

\* One stage more is running: the next one.
LEMMA SpawnStageStep ==
  ASSUME IInv, NEW c \in Calls, SpawnStage(c)
  PROVE  IInv'
<1> DEFINE new == [binary |-> Binary(c, Turn(c)), argv |-> Split(Text(c, Turn(c)))]
<1>1. /\ pc[c] = "running" /\ Len(ran[c]) + 1 \in DOMAIN stages[c]
      /\ ran' = [ran EXCEPT ![c] = Append(@, new)]
      /\ UNCHANGED <<disk, caches, listed, pc, request, verdict, stages, envelope, lines>>
  BY DEF SpawnStage, Starting, Turn
<1> HIDE DEF new
<1>2. TypeOK'
  BY <1>1 DEF IInv, TypeOK, caches
<1>3. RegistryIsOneLoad' /\ ListedFromIt' /\ VerdictIsItsOwn'
  BY <1>1 DEF IInv, RegistryIsOneLoad, ListedFromIt, VerdictIsItsOwn, caches
<1>4. \A d \in Calls : d # c => ran'[d] = ran[d]
  BY <1>1 DEF IInv, TypeOK
<1>5. OnlyPassedRun'
  BY <1>1, <1>4 DEF IInv, OnlyPassedRun, caches
<1>6. RanInOrder'
  <2> SUFFICES ASSUME NEW d \in Calls
               PROVE  /\ ran'[d] \in Seq(Range(ran'[d]))
                      /\ \A i \in DOMAIN ran'[d] :
                           /\ i \in DOMAIN stages[d]
                           /\ ran'[d][i] = [binary |-> Binary(d, i), argv |-> Split(Text(d, i))]
    BY <1>1 DEF RanInOrder, Binary, Text, caches
  <2>1. /\ ran[d] \in Seq(Range(ran[d]))
        /\ \A i \in DOMAIN ran[d] :
             /\ i \in DOMAIN stages[d]
             /\ ran[d][i] = [binary |-> Binary(d, i), argv |-> Split(Text(d, i))]
    BY DEF IInv, RanInOrder
  <2>2. CASE d # c
    BY <1>4, <2>1, <2>2
  <2>3. CASE d = c
    <3>1. ran'[c] = Append(ran[c], new)
      BY <1>1 DEF IInv, TypeOK
    <3>2. new = [binary |-> Binary(c, Len(ran[c]) + 1), argv |-> Split(Text(c, Len(ran[c]) + 1))]
      BY DEF new, Turn
    <3>3. /\ Append(ran[c], new) \in Seq(Range(Append(ran[c], new)))
          /\ DOMAIN Append(ran[c], new) = DOMAIN ran[c] \cup {Len(ran[c]) + 1}
          /\ Append(ran[c], new)[Len(ran[c]) + 1] = new
          /\ \A i \in DOMAIN ran[c] : Append(ran[c], new)[i] = ran[c][i]
      BY <2>1, <2>3, AppendIsSequence
    <3>4. QED
      BY <1>1, <2>1, <2>3, <3>1, <3>2, <3>3
  <2>4. QED
    BY <2>2, <2>3
<1>7. QED
  BY <1>2, <1>3, <1>5, <1>6 DEF IInv

LEMMA CallEndsStep ==
  ASSUME IInv, NEW c \in Calls,
         SpawnNotFound(c) \/ SpawnRaises(c) \/ Finish(c) \/ Cancelled(c)
  PROVE  IInv'
<1>1. pc[c] = "running" /\ UNCHANGED <<disk, caches, listed, request, verdict, stages, ran>>
  BY DEF SpawnNotFound, SpawnRaises, Finish, Cancelled, Starting
<1>2. \/ \E status \in Statuses : Answer(c, status)
      \/ \E how \in {"raised", "cancelled"} : Leave(c, how)
  BY DEF SpawnNotFound, SpawnRaises, Finish, Cancelled, Statuses
<1>3. CASE \E status \in Statuses : Answer(c, status)
  <2>1. PICK status \in Statuses : Answer(c, status)
    BY <1>3
  <2>2. envelope' \in [Calls -> Statuses \cup {"none"}] /\ DOMAIN lines' = Calls
    BY <2>1 DEF IInv, TypeOK, Answer
  <2>3. QED
    BY <1>1, <2>1, <2>2, EndStep DEF Answer
<1>4. CASE \E how \in {"raised", "cancelled"} : Leave(c, how)
  <2>1. PICK how \in {"raised", "cancelled"} : Leave(c, how)
    BY <1>4
  <2>2. envelope' \in [Calls -> Statuses \cup {"none"}] /\ DOMAIN lines' = Calls
    BY <2>1 DEF IInv, TypeOK, Leave
  <2>3. QED
    BY <1>1, <2>1, <2>2, EndStep DEF Leave
<1>5. QED
  BY <1>2, <1>3, <1>4

LEMMA NextIInv == IInv /\ [Next]_vars => IInv'
<1> SUFFICES ASSUME IInv, [Next]_vars PROVE IInv'
  OBVIOUS
<1>1. CASE Start \/ DiskChanges \/ ListTools \/ Health
  BY <1>1, StartStep, DiskChangesStep, ListToolsStep, HealthStep
<1>2. CASE \E c \in Calls, r \in Requests :
             CallRaises(c, r) \/ CallRefused(c, r) \/ CallPasses(c, r)
  BY <1>2, CallRaisesStep, CallRefusedStep, CallPassesStep
<1>3. CASE \E c \in Calls : SpawnStage(c) \/ SpawnNotFound(c) \/ SpawnRaises(c)
                              \/ Finish(c) \/ Cancelled(c)
  BY <1>3, SpawnStageStep, CallEndsStep
<1>4. CASE UNCHANGED vars
  <2>1. TypeOK' /\ RegistryIsOneLoad' /\ ListedFromIt'
    BY <1>4 DEF IInv, TypeOK, RegistryIsOneLoad, ListedFromIt, vars, caches, callVars
  <2>2. QED
    BY <1>4, <2>1, CallsUntouched DEF IInv, vars, caches
<1>5. QED
  BY <1>1, <1>2, <1>3, <1>4 DEF Next

(***************************************************************************)
(* IInv holds in every reachable state: the registry is one load that is   *)
(* never replaced (get_registry, server.py:182), and the gates' verdict on *)
(* a call is the one this registry gives.                                  *)
(***************************************************************************)
THEOREM Invariance == Spec => []IInv
BY InitIInv, NextIInv, PTL DEF Spec

-----------------------------------------------------------------------------
(* What follows from it.                                                   *)

(***************************************************************************)
(* The gates say the same of the same request, whenever it is made and     *)
(* whatever has happened to the catalog files (server.py:253-302).         *)
(***************************************************************************)
THEOREM VerdictsAgree == Spec => []SameRequestSameVerdict
<1>1. IInv => SameRequestSameVerdict
  BY DEF IInv, VerdictIsItsOwn, SameRequestSameVerdict
<1>2. QED
  BY <1>1, Invariance, PTL

(***************************************************************************)
(* A tool list_tools has shown is known to call_tool (server.py:229, 259). *)
(***************************************************************************)
THEOREM ListedToolsAreKnown == Spec => []ListedIsKnown
<1>1. IInv => ListedIsKnown
  BY VerdictCases DEF IInv, VerdictIsItsOwn, ListedFromIt, ListedIsKnown
<1>2. QED
  BY <1>1, Invariance, PTL

\* What load_catalog returns is made of all the raw entries, one by one.
LEMMA LoadedWhole ==
  ASSUME NEW d, LoadCatalog(d) # Unloaded
  PROVE  /\ DOMAIN LoadCatalog(d) = {RawEntries(d)[i].name : i \in DOMAIN RawEntries(d)}
         /\ \A i \in DOMAIN RawEntries(d) :
              /\ ValidEntry(RawEntries(d)[i])
              /\ RawNamed(RawEntries(d), RawEntries(d)[i].name) = RawEntries(d)[i]
         /\ \A name \in DOMAIN LoadCatalog(d) :
              LoadCatalog(d)[name] = BuildEntry(RawNamed(RawEntries(d), name), d.executables)
<1> DEFINE raws == RawEntries(d)
           names == {raws[i].name : i \in DOMAIN raws}
           loads == /\ d.dir
                    /\ \A i \in DOMAIN d.docs : d.docs[i].kind \in {"empty", "list"}
                    /\ \A i \in DOMAIN raws : ValidEntry(raws[i]) /\ CanBuild(raws[i])
                    /\ AddsUp(raws)
           built == [name \in names |-> BuildEntry(RawNamed(raws, name), d.executables)]
<1>1. LoadCatalog(d) = IF loads THEN built ELSE Unloaded
  BY DEF LoadCatalog
<1> HIDE DEF raws
<1>2. loads /\ LoadCatalog(d) = built
  BY <1>1
<1>3. \A i \in DOMAIN raws : RawNamed(raws, raws[i].name) = raws[i]
  <2> SUFFICES ASSUME NEW i \in DOMAIN raws
               PROVE  RawNamed(raws, raws[i].name) = raws[i]
    OBVIOUS
  <2> DEFINE j == CHOOSE j \in DOMAIN raws : raws[j].name = raws[i].name
  <2>1. j \in DOMAIN raws /\ raws[j].name = raws[i].name
    OBVIOUS
  <2>2. j = i
    BY <1>2, <2>1 DEF AddsUp
  <2>3. QED
    BY <2>2 DEF RawNamed
<1>4. QED
  BY <1>2, <1>3 DEF raws

\* Every entry of the registry is made of the raw entry of its name.
LEMMA EntryIsItsRaw ==
  ASSUME IInv, registry # Unloaded, NEW name \in DOMAIN registry
  PROVE  /\ registry[name].pipe_stage = RawOf(name).pipe_stage
         /\ registry[name].rules = [deny |-> RawOf(name).deny, allow |-> RawOf(name).allow]
         /\ registry[name].path_deny = RawOf(name).path_deny
<1>1. registry = LoadCatalog(source) /\ LoadCatalog(source) # Unloaded
  BY DEF IInv, RegistryIsOneLoad
<1>2. registry[name] = BuildEntry(RawOf(name), source.executables)
  BY <1>1, LoadedWhole DEF RawOf
<1>3. QED
  BY <1>2 DEF BuildEntry

(***************************************************************************)
(* The registry holds the whole catalog as it was when it was loaded, each *)
(* entry with its own rules (load_catalog, catalog.py:183-221).            *)
(***************************************************************************)
THEOREM CatalogIsWhole == Spec => []CatalogAllOrNothing
<1>1. ASSUME IInv, registry # Unloaded
      PROVE  LET raws == RawEntries(source)
             IN /\ DOMAIN registry = {raws[i].name : i \in DOMAIN raws}
                /\ \A i \in DOMAIN raws :
                     /\ registry[raws[i].name].rules = [deny |-> raws[i].deny, allow |-> raws[i].allow]
                     /\ registry[raws[i].name].path_deny = raws[i].path_deny
                     /\ raws[i].deny \cup raws[i].allow # {}
  <2> DEFINE raws == RawEntries(source)
  <2>1. registry = LoadCatalog(source) /\ LoadCatalog(source) # Unloaded
    BY <1>1 DEF IInv, RegistryIsOneLoad
  <2>2. DOMAIN registry = {raws[i].name : i \in DOMAIN raws}
    BY <2>1, LoadedWhole
  <2>3. ASSUME NEW i \in DOMAIN raws
        PROVE  /\ registry[raws[i].name].rules = [deny |-> raws[i].deny, allow |-> raws[i].allow]
               /\ registry[raws[i].name].path_deny = raws[i].path_deny
               /\ raws[i].deny \cup raws[i].allow # {}
    <3>1. raws[i].name \in DOMAIN registry
      BY <2>2
    <3>2. ValidEntry(raws[i]) /\ RawOf(raws[i].name) = raws[i]
      BY <2>1, LoadedWhole DEF RawOf
    <3> HIDE DEF raws
    <3>3. QED
      BY <1>1, <3>1, <3>2, EntryIsItsRaw DEF ValidEntry
  <2>4. QED
    BY <2>2, <2>3
<1>2. IInv => CatalogAllOrNothing
  BY <1>1 DEF CatalogAllOrNothing
<1>3. QED
  BY <1>2, Invariance, PTL

\* A command that resolves has one stage for each segment.
LEMMA StagesAreSegments ==
  ASSUME NEW reg, NEW r, StagesOf(reg, r) # <<>>
  PROVE  DOMAIN StagesOf(reg, r) = DOMAIN ParsePipeline(r.command)
BY DEF StagesOf, ResolvePipeline

\* A stage is the tool and the text that were typed for its segment, and a
\* pipe stage unless it leads.
LEMMA StageIsTyped ==
  ASSUME NEW reg, NEW r, StagesOf(reg, r) # <<>>, r.tool \in DOMAIN reg,
         NEW i \in DOMAIN ParsePipeline(r.command)
  PROVE  /\ i \in DOMAIN StagesOf(reg, r)
         /\ StagesOf(reg, r)[i] = [tool |-> Typed(r, i).tool, args |-> Typed(r, i).text]
         /\ Typed(r, i).tool \in DOMAIN reg
         /\ i # 1 => reg[Typed(r, i).tool].pipe_stage
<1> DEFINE segments == ParsePipeline(r.command)
           st == [j \in DOMAIN segments |->
                    IF j = 1 THEN [tool |-> r.tool, args |-> segments[1]]
                    ELSE [tool |-> Head(Split(segments[j])), args |-> ArgsOf(segments[j])]]
<1>1. StagesOf(reg, r) =
        IF \A j \in DOMAIN segments \ {1} : ResolvesSegment(segments[j], reg) THEN st ELSE <<>>
  BY DEF StagesOf, ResolvePipeline
<1>2. Typed(r, i) = IF i = 1 THEN [tool |-> r.tool, text |-> segments[i]]
                    ELSE [tool |-> Head(Split(segments[i])), text |-> ArgsOf(segments[i])]
  BY DEF Typed
<1> HIDE DEF segments
<1>3. /\ \A j \in DOMAIN segments \ {1} : ResolvesSegment(segments[j], reg)
      /\ StagesOf(reg, r) = st
  BY <1>1
<1>4. i \in DOMAIN segments
  BY DEF segments
<1>5. DOMAIN StagesOf(reg, r) = DOMAIN segments
  BY StagesAreSegments DEF segments
<1>6. CASE i = 1
  BY <1>2, <1>3, <1>4, <1>5, <1>6
<1>7. CASE i # 1
  BY <1>2, <1>3, <1>4, <1>5, <1>7 DEF ResolvesSegment
<1>8. QED
  BY <1>6, <1>7

\* What the gates let pass, in terms of the entry's patterns.
LEMMA PassedGates ==
  ASSUME NEW entry, NEW args, Passes(entry, args)
  PROVE  /\ \A p \in entry.rules.deny : ~GlobMatch(Strip(args), p)
         /\ \E p \in entry.rules.allow : GlobMatch(Strip(args), p)
         /\ \A w \in ToSet(Split(args)) : \A path \in CandidatePaths(w) :
              \A p \in entry.path_deny : ~GlobMatch(NormalizePath(path), p)
<1>1. CheckCommand(args, entry.rules) /\ CheckPaths(args, entry.path_deny)
  BY DEF Passes
<1>2. \A w \in ToSet(Split(args)) : \A path \in CandidatePaths(w) :
        \A p \in entry.path_deny : ~GlobMatch(NormalizePath(path), p)
  BY <1>1 DEF CheckPaths, CheckWords, MatchesAny
<1>3. QED
  BY <1>1, <1>2 DEF CheckCommand, MatchesAny

(***************************************************************************)
(* No process of a call exists before every segment of its command has     *)
(* passed the gates of its own tool as the catalog states them             *)
(* (server.py:282-302, for any command and any catalog).                   *)
(***************************************************************************)
THEOREM NothingRunsUnchecked == Spec => []AllGatesBeforeAnyRun
<1>1. ASSUME IInv, NEW c \in Calls, ran[c] # <<>>,
             NEW i \in DOMAIN ParsePipeline(request[c].command)
      PROVE  LET typed == Typed(request[c], i)
                 raw == RawOf(typed.tool)
             IN /\ i # 1 => raw.pipe_stage
                /\ \A p \in raw.deny : ~GlobMatch(Strip(typed.text), p)
                /\ \E p \in raw.allow : GlobMatch(Strip(typed.text), p)
                /\ \A w \in ToSet(Split(typed.text)) : \A path \in CandidatePaths(w) :
                     \A p \in raw.path_deny : ~GlobMatch(NormalizePath(path), p)
  <2> DEFINE r == request[c]
             typed == Typed(r, i)
             entry == registry[typed.tool]
             raw == RawOf(typed.tool)
  <2>1. registry # Unloaded /\ Verdict(registry, r) = "pass"
    BY <1>1 DEF IInv, OnlyPassedRun, VerdictIsItsOwn
  <2>2. /\ r.tool \in DOMAIN registry
        /\ StagesOf(registry, r) # <<>>
        /\ \A j \in DOMAIN StagesOf(registry, r) :
             Passes(registry[StagesOf(registry, r)[j].tool], StagesOf(registry, r)[j].args)
    BY <2>1, VerdictCases
  <2>3. /\ i \in DOMAIN StagesOf(registry, r)
        /\ StagesOf(registry, r)[i] = [tool |-> typed.tool, args |-> typed.text]
        /\ typed.tool \in DOMAIN registry
        /\ i # 1 => entry.pipe_stage
    BY <2>2, StageIsTyped
  <2>4. Passes(entry, typed.text)
    BY <2>2, <2>3
  <2>5. /\ entry.pipe_stage = raw.pipe_stage
        /\ entry.rules.deny = raw.deny /\ entry.rules.allow = raw.allow
        /\ entry.path_deny = raw.path_deny
    <3> DEFINE name == typed.tool
    <3>1. name \in DOMAIN registry
      BY <2>3
    <3> HIDE DEF name
    <3>2. /\ registry[name].pipe_stage = RawOf(name).pipe_stage
          /\ registry[name].rules = [deny |-> RawOf(name).deny, allow |-> RawOf(name).allow]
          /\ registry[name].path_deny = RawOf(name).path_deny
      BY <1>1, <2>1, <3>1, EntryIsItsRaw
    <3>3. /\ registry[name].rules.deny = RawOf(name).deny
          /\ registry[name].rules.allow = RawOf(name).allow
      BY <3>2
    <3>4. QED
      BY <3>2, <3>3 DEF name
  <2>6. /\ \A p \in entry.rules.deny : ~GlobMatch(Strip(typed.text), p)
        /\ \E p \in entry.rules.allow : GlobMatch(Strip(typed.text), p)
        /\ \A w \in ToSet(Split(typed.text)) : \A path \in CandidatePaths(w) :
             \A p \in entry.path_deny : ~GlobMatch(NormalizePath(path), p)
    BY <2>4, PassedGates
  <2> HIDE DEF entry, raw, typed
  <2>7. /\ i # 1 => raw.pipe_stage
        /\ \A p \in raw.deny : ~GlobMatch(Strip(typed.text), p)
        /\ \E p \in raw.allow : GlobMatch(Strip(typed.text), p)
        /\ \A w \in ToSet(Split(typed.text)) : \A path \in CandidatePaths(w) :
             \A p \in raw.path_deny : ~GlobMatch(NormalizePath(path), p)
    BY <2>3, <2>5, <2>6
  <2>8. QED
    BY <2>7 DEF raw, typed
<1>2. IInv => AllGatesBeforeAnyRun
  BY <1>1 DEF AllGatesBeforeAnyRun
<1>3. QED
  BY <1>2, Invariance, PTL

-----------------------------------------------------------------------------
(* The binaries.                                                           *)

\* A set of numbers that is not empty has a least one.
LEMMA LeastOfThem ==
  ASSUME NEW T, T \subseteq Nat, T # {}
  PROVE  Min(T) \in T /\ \A y \in T : Min(T) =< y
<1> DEFINE R == {ss \in Nat \X Nat : ss[1] < ss[2]}
<1>1. IsWellFoundedOn(R, Nat)
  BY NatLessThanWellFounded, Zenon DEF OpToRel
<1>2. \A x, y \in Nat : <<y, x>> \in R <=> y < x
  OBVIOUS
<1> HIDE DEF R
<1>3. PICK x \in T : \A y \in T : <<y, x>> \notin R
  BY <1>1, WFMin
<1>4. ASSUME NEW y \in T PROVE x =< y
  <2>1. x \in Nat /\ y \in Nat /\ ~(y < x)
    BY <1>2, <1>3
  <2>2. QED
    BY <2>1
<1>5. QED
  BY <1>4 DEF Min

\* A binary that is found is the one that was named, or the name in the first
\* of the search paths that has it.
LEMMA FirstFound ==
  ASSUME NEW binary, binary = <<binary[1]>> \/ binary = <<binary[1], binary[2]>>,
         NEW executables, ResolveBinary(binary, executables) # NotFound
  PROVE  LET found == ResolveBinary(binary, executables)
         IN /\ found \in executables
            /\ \/ found = binary
               \/ \E n \in DOMAIN SearchPaths :
                    /\ found = <<SearchPaths[n], binary[1]>>
                    /\ \A m \in 1..(n - 1) : <<SearchPaths[m], binary[1]>> \notin executables
<1> DEFINE tried == IF Len(binary) = 2 THEN <<binary>>
                    ELSE [i \in DOMAIN SearchPaths |-> <<SearchPaths[i], binary[1]>>]
           hits == {i \in DOMAIN tried : tried[i] \in executables}
           n == Min(hits)
<1>1. ResolveBinary(binary, executables) = IF hits = {} THEN NotFound ELSE tried[n]
  BY DEF ResolveBinary
<1>2. DOMAIN SearchPaths = 1..Len(SearchPaths) /\ Len(SearchPaths) \in Nat
  OBVIOUS
<1>3. CASE binary = <<binary[1], binary[2]>>
  <2>1. Len(binary) = 2
    BY <1>3
  <2>2. tried = <<binary>>
    BY <2>1
  <2> HIDE DEF tried
  <2>3. hits # {} /\ hits \subseteq {1}
    BY <1>1, <2>2
  <2>4. n = 1 /\ n \in hits
    <3>1. hits \subseteq Nat
      BY <2>3
    <3> HIDE DEF hits
    <3>2. QED
      BY <2>3, <3>1, LeastOfThem
  <2>5. ResolveBinary(binary, executables) = binary /\ binary \in executables
    BY <1>1, <2>2, <2>3, <2>4
  <2>6. QED
    BY <2>5
<1>4. CASE binary = <<binary[1]>>
  <2>1. Len(binary) = 1
    BY <1>4
  <2>2. tried = [i \in DOMAIN SearchPaths |-> <<SearchPaths[i], binary[1]>>]
    BY <2>1
  <2> HIDE DEF tried
  <2>3. hits # {} /\ hits \subseteq Nat
    <3>1. hits # {}
      <4> HIDE DEF hits, n
      <4>1. QED
        BY <1>1
    <3>2. DOMAIN tried = 1..Len(SearchPaths)
      BY <1>2, <2>2
    <3>3. QED
      BY <1>2, <3>1, <3>2
  <2>4. n \in hits /\ \A y \in hits : n =< y
    <3> HIDE DEF hits
    <3>1. QED
      BY <2>3, LeastOfThem
  <2>5. n \in DOMAIN SearchPaths /\ tried[n] \in executables
    BY <2>2, <2>4
  <2>6. ResolveBinary(binary, executables) = <<SearchPaths[n], binary[1]>>
    BY <1>1, <2>2, <2>3, <2>5
  <2>7. ASSUME NEW m \in 1..(n - 1)
        PROVE  <<SearchPaths[m], binary[1]>> \notin executables
    <3>1. m \in DOMAIN SearchPaths /\ ~(n =< m)
      <4> HIDE DEF n
      <4>1. QED
        BY <1>2, <2>5
    <3>2. m \notin hits
      BY <2>4, <3>1
    <3>3. QED
      BY <2>2, <3>1, <3>2
  <2>8. <<SearchPaths[n], binary[1]>> \in executables
    BY <2>2, <2>5
  <2> HIDE DEF n
  <2>9. QED
    BY <2>5, <2>6, <2>7, <2>8
<1>5. QED
  BY <1>3, <1>4

\* An entry that is healthy has the binary its raw entry names, found on the
\* disk the registry came from.
LEMMA EntryHasItsBinary ==
  ASSUME IInv, registry # Unloaded, NEW name \in DOMAIN registry, Healthy(registry[name])
  PROVE  LET named == RawOf(name).binary
             found == registry[name].binary
         IN /\ found \in source.executables
            /\ \/ found = named
               \/ \E n \in DOMAIN SearchPaths :
                    /\ found = <<SearchPaths[n], named[1]>>
                    /\ \A m \in 1..(n - 1) :
                         <<SearchPaths[m], named[1]>> \notin source.executables
<1> DEFINE named == RawOf(name).binary
           found == registry[name].binary
<1>1. registry = LoadCatalog(source) /\ LoadCatalog(source) # Unloaded /\ source \in Disks
  BY DEF IInv, TypeOK, RegistryIsOneLoad
<1>2. PICK i \in DOMAIN RawEntries(source) : RawOf(name) = RawEntries(source)[i]
  <2> DEFINE raws == RawEntries(source)
  <2>1. DOMAIN registry = {raws[j].name : j \in DOMAIN raws}
    BY <1>1, LoadedWhole
  <2> HIDE DEF raws
  <2>2. PICK i \in DOMAIN raws : name = raws[i].name
    BY <2>1
  <2>3. RawNamed(raws, raws[i].name) = raws[i]
    BY <1>1, LoadedWhole DEF raws
  <2>4. QED
    BY <2>2, <2>3 DEF RawOf, raws
<1>3. named = <<named[1]>> \/ named = <<named[1], named[2]>>
  BY <1>1, <1>2
<1>4. found = ResolveBinary(named, source.executables)
  <2>1. registry[name] = BuildEntry(RawOf(name), source.executables)
    BY <1>1, LoadedWhole DEF RawOf
  <2>2. QED
    BY <2>1 DEF BuildEntry
<1>5. ResolveBinary(named, source.executables) # NotFound
  BY <1>4 DEF Healthy
<1> HIDE DEF named, found
<1>6. LET f == ResolveBinary(named, source.executables)
      IN /\ f \in source.executables
         /\ \/ f = named
            \/ \E n \in DOMAIN SearchPaths :
                 /\ f = <<SearchPaths[n], named[1]>>
                 /\ \A m \in 1..(n - 1) : <<SearchPaths[m], named[1]>> \notin source.executables
  BY <1>3, <1>5, FirstFound
<1>7. QED
  BY <1>4, <1>6 DEF named, found

(***************************************************************************)
(* A stage runs the words typed for it with the first binary of its        *)
(* entry's name that there was when the catalog was loaded, for any search *)
(* paths and whatever is installed or removed since (_resolve_binary,      *)
(* catalog.py:37; cli_executor.py:115, 213).                               *)
(***************************************************************************)
THEOREM RunsWhatItFound == Spec => []RunsTheBinaryFirstFound
<1>1. ASSUME IInv, NEW c \in Calls, NEW i \in DOMAIN ran[c]
      PROVE  LET r == request[c]
                 typed == Typed(r, i)
                 named == RawOf(typed.tool).binary
                 alone == DOMAIN ParsePipeline(r.command) = {1}
                 run == ran[c][i].binary
             IN /\ ran[c][i].argv = Split(IF alone THEN r.command ELSE typed.text)
                /\ run \in source.executables
                /\ \/ run = named
                   \/ \E n \in DOMAIN SearchPaths :
                        /\ run = <<SearchPaths[n], named[1]>>
                        /\ \A m \in 1..(n - 1) :
                             <<SearchPaths[m], named[1]>> \notin source.executables
  <2> DEFINE r == request[c]
             st == StagesOf(registry, r)
             segments == ParsePipeline(r.command)
             typed == Typed(r, i)
             name == typed.tool
             named == RawOf(name).binary
             run == ran[c][i].binary
  <2>1. /\ registry # Unloaded /\ Verdict(registry, r) = "pass"
        /\ stages[c] = st
    BY <1>1 DEF IInv, OnlyPassedRun, VerdictIsItsOwn
  <2>2. /\ i \in DOMAIN st
        /\ ran[c][i] = [binary |-> Binary(c, i), argv |-> Split(Text(c, i))]
    BY <1>1, <2>1 DEF IInv, RanInOrder
  <2>3. /\ r.tool \in DOMAIN registry /\ st # <<>>
        /\ Passes(registry[st[i].tool], st[i].args)
    BY <2>1, <2>2, VerdictCases
  <2>4. i \in DOMAIN segments
    BY <2>2, <2>3, StagesAreSegments
  <2>5. /\ DOMAIN st = DOMAIN segments
        /\ st[i] = [tool |-> name, args |-> typed.text]
        /\ name \in DOMAIN registry
    BY <2>3, <2>4, StagesAreSegments, StageIsTyped
  <2>6. Healthy(registry[name])
    BY <2>3, <2>5 DEF Passes
  <2> HIDE DEF st, segments, r
  <2>7. ran[c][i].argv = Split(IF DOMAIN segments = {1} THEN r.command ELSE typed.text)
    <3>1. Text(c, i) = IF DOMAIN segments = {1} THEN r.command ELSE typed.text
      BY <2>1, <2>5 DEF Text, TextRun, r
    <3>2. QED
      BY <2>2, <3>1
  <2>8. run = registry[name].binary
    <3>1. Binary(c, i) = registry[name].binary
      BY <2>1, <2>5 DEF Binary
    <3>2. QED
      BY <2>2, <3>1
  <2> HIDE DEF name, run, typed
  <2>9. LET found == registry[name].binary
        IN /\ found \in source.executables
           /\ \/ found = named
              \/ \E n \in DOMAIN SearchPaths :
                   /\ found = <<SearchPaths[n], named[1]>>
                   /\ \A m \in 1..(n - 1) :
                        <<SearchPaths[m], named[1]>> \notin source.executables
    BY <1>1, <2>1, <2>5, <2>6, EntryHasItsBinary
  <2>10. QED
    BY <2>7, <2>8, <2>9 DEF r, segments, typed, name, run
<1>2. IInv => RunsTheBinaryFirstFound
  BY <1>1 DEF RunsTheBinaryFirstFound
<1>3. QED
  BY <1>2, Invariance, PTL
=============================================================================
