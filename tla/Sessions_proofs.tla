-------------------------- MODULE Sessions_proofs --------------------------
(***************************************************************************)
(* Proofs about sessions, for every set of identities, streams, messages,  *)
(* requests and identity blocks.                                           *)
(***************************************************************************)
EXTENDS Sessions, TLAPS

USE IdentityAssumption, SessionsAssumption

-----------------------------------------------------------------------------
(* What identity.py computes                                               *)

\* A header has no value, one, or is refused.
LEMMA SoleValueFacts ==
  ASSUME NEW S, NEW values \in Seq(S), None \notin S, Refused \notin S
  PROVE  /\ SoleValue(values) \in S \cup {None, Refused}
         /\ SoleValue(values) = None => values = << >>
         /\ SoleValue(values) \in S => values = <<SoleValue(values)>>
<1>1. Len(values) \in Nat
  OBVIOUS
<1>2. CASE Len(values) = 0
  <2>1. values = << >>
    BY <1>2
  <2>2. SoleValue(values) = None
    BY <1>2 DEF SoleValue
  <2>3. QED
    BY <2>1, <2>2
<1>3. CASE Len(values) = 1
  <2>1. values[1] \in S /\ values = <<values[1]>>
    BY <1>3
  <2>2. SoleValue(values) = values[1]
    BY <1>3 DEF SoleValue
  <2>3. QED
    BY <2>1, <2>2
<1>4. CASE Len(values) > 1
  BY <1>1, <1>4 DEF SoleValue
<1>5. \A n \in Nat : n = 0 \/ n = 1 \/ n > 1
  OBVIOUS
<1>6. QED
  BY <1>1, <1>2, <1>3, <1>4, <1>5, Zenon

\* resolve_identity returns an identity, None, or refuses.
LEMMA ResolveType ==
  ASSUME NEW r \in Requests, NEW c \in Configs
  PROVE  ResolveIdentity(r, c) \in Identities \cup {Refused}
<1>1. SoleValue(r.identity) \in Names \cup {Empty, None, Refused}
  BY SoleValueFacts DEF Requests
<1>2. QED
  BY <1>1 DEF ResolveIdentity, OrEmpty, Identities

\* With the mechanism on, what it returns is what the header says.
LEMMA ResolveSaysIdentity ==
  ASSUME NEW r \in Requests, NEW c \in Configs,
         c.on, ResolveIdentity(r, c) # Refused
  PROVE  SaysIdentity(r, ResolveIdentity(r, c))
<1> DEFINE v == SoleValue(r.identity)
<1>1. /\ v \in Names \cup {Empty, None, Refused}
      /\ v = None => r.identity = << >>
      /\ v \in Names \cup {Empty} => r.identity = <<v>>
  BY SoleValueFacts DEF Requests
<1>2. CASE v \in Names
  <2>1. ResolveIdentity(r, c) = v
    BY <1>2 DEF ResolveIdentity, OrEmpty
  <2>2. QED
    BY <1>1, <1>2, <2>1 DEF SaysIdentity
<1>3. CASE v \in {None, Empty}
  <2>1. ResolveIdentity(r, c) = None
    BY <1>3 DEF ResolveIdentity, OrEmpty
  <2>2. QED
    BY <1>1, <1>3, <2>1 DEF SaysIdentity
<1>4. CASE v = Refused
  BY <1>4 DEF ResolveIdentity, OrEmpty
<1>5. QED
  BY <1>1, <1>2, <1>3, <1>4

LEMMA FromConfigType ==
  ASSUME NEW b \in Blocks
  PROVE  FromConfig(b) \in Configs
BY DEF FromConfig, Blocks, Configs, Off, OrEmpty

\* A block with a proxy header that loads has a secret to compare with, so a
\* request that is let in has presented it, once.
LEMMA LetInWithSecret ==
  ASSUME NEW r \in Requests, NEW b \in Blocks,
         b.block = "filled", b.proxy, ~Misconfigured(b),
         ResolveIdentity(r, FromConfig(b)) # Refused
  PROVE  r.proxy = <<Secret>>
<1> DEFINE v == SoleValue(r.proxy)
<1> DEFINE S == {Secret, Wrong, Empty}
<1>1. /\ v \in S \cup {None, Refused}
      /\ v \in S => r.proxy = <<v>>
  <2>1. r.proxy \in Seq(S) /\ None \notin S /\ Refused \notin S
    BY DEF Requests
  <2>2. QED
    BY <2>1, SoleValueFacts
<1>2. b.environ = Secret
  BY DEF Misconfigured, Blocks, OrEmpty
<1>3. FromConfig(b).on /\ FromConfig(b).proxy /\ FromConfig(b).secret = Secret
  BY <1>2 DEF FromConfig, OrEmpty
<1>4. OrEmpty(v) = Secret
  BY <1>3 DEF ResolveIdentity, ProxyProven, OrEmpty
<1>5. QED
  BY <1>1, <1>4 DEF OrEmpty

\* With require, nobody is let in without an identity.
LEMMA LetInWithName ==
  ASSUME NEW r \in Requests, NEW b \in Blocks,
         b.block = "filled", b.require,
         ResolveIdentity(r, FromConfig(b)) # Refused
  PROVE  ResolveIdentity(r, FromConfig(b)) \in Names
<1>1. FromConfig(b).on /\ FromConfig(b).require
  BY DEF FromConfig
<1>2. SoleValue(r.identity) \in Names \cup {Empty, None, Refused}
  BY SoleValueFacts DEF Requests
<1>3. QED
  BY <1>1, <1>2 DEF ResolveIdentity, OrEmpty

-----------------------------------------------------------------------------
(* The invariant is inductive                                              *)

LEMMA InitIInv == Init => IInv
<1> SUFFICES ASSUME Init PROVE IInv
  OBVIOUS
<1>1. Off \in Configs /\ NoRequest \in Requests
  BY DEF Off, Configs, NoRequest, Requests
<1>2. TypeOK
  BY <1>1 DEF Init, TypeOK, PostRecords, NoPost, Identities, Sessions
<1>3. QED
  BY <1>2 DEF Init, IInv, ConfigIsTheBlocks, ContextIsTheOpeners, OpenedProperly,
              TableIsTheOpeners, CheckStillHolds, CheckHolds, CallerIsTheOpener, NoPost

LEMMA StartupIInv == IInv /\ Startup => IInv'
<1> SUFFICES ASSUME IInv, Startup PROVE IInv'
  OBVIOUS
<1> USE DEF IInv, Startup, contextVars, tableVars
<1>1. TypeOK'
  BY FromConfigType DEF TypeOK
<1>2. /\ \A s \in Streams : stream[s] = "idle"
      /\ \A p \in Posts : post[p].at = "idle" /\ post[p].call = "none"
  BY DEF ConfigIsTheBlocks
<1>3. ConfigIsTheBlocks'
  BY <1>2 DEF ConfigIsTheBlocks
<1>4. writers = {}
  BY <1>2 DEF OpenedProperly, TypeOK
<1>5. (ContextIsTheOpeners /\ OpenedProperly /\ TableIsTheOpeners)'
  BY <1>2, <1>4 DEF ContextIsTheOpeners, OpenedProperly, TableIsTheOpeners
<1>6. audit = {}
  BY <1>2 DEF CallerIsTheOpener, TypeOK
<1>7. (CheckStillHolds /\ CallerIsTheOpener)'
  BY <1>2, <1>6 DEF CheckStillHolds, CheckHolds, CallerIsTheOpener
<1>8. QED
  BY <1>1, <1>3, <1>5, <1>7

LEMMA ConnectIInv ==
  ASSUME NEW s \in Streams, NEW r \in Requested
  PROVE  IInv /\ Connect(s, r) => IInv'
<1> SUFFICES ASSUME IInv, Connect(s, r) PROVE IInv'
  OBVIOUS
<1> DEFINE identity == ResolveIdentity(r, config)
<1> USE DEF IInv, Connect, serverVars, contextVars, tableVars
<1>1. identity \in Identities \cup {Refused}
  BY ResolveType DEF TypeOK
<1>2. TypeOK'
  BY <1>1 DEF TypeOK
<1>3. s \notin writers /\ s \notin Issued
  BY DEF OpenedProperly, Issued
<1>4. /\ \A t \in Streams \ {s} :
           stream'[t] = stream[t] /\ opener'[t] = opener[t]
             /\ identityVar'[t] = identityVar[t] /\ connectingVar'[t] = connectingVar[t]
      /\ opener'[s] = r /\ stream'[s] \in {"connecting", "refused"}
      /\ stream'[s] = "connecting" =>
           identity # Refused /\ identityVar'[s] = identity /\ connectingVar'[s] = identity
  BY DEF TypeOK
<1>5. Issued' = Issued
  BY <1>3, <1>4 DEF Issued
<1>6. (ConfigIsTheBlocks /\ ContextIsTheOpeners)'
  BY <1>4 DEF ConfigIsTheBlocks, ContextIsTheOpeners
<1>7. (OpenedProperly /\ TableIsTheOpeners)'
  BY <1>3, <1>4 DEF OpenedProperly, TableIsTheOpeners, TypeOK
<1>8. (CheckStillHolds /\ CallerIsTheOpener)'
  <2>1. \A t \in Issued : opener'[t] = opener[t]
    BY <1>3, <1>4 DEF Issued
  <2>2. (Bound <=> Bound') /\ UNCHANGED <<post, audit, config>>
    BY DEF Bound
  <2>3. QED
    BY <1>5, <2>1, <2>2 DEF CheckStillHolds, CheckHolds, CallerIsTheOpener
<1>9. QED
  BY <1>2, <1>6, <1>7, <1>8

LEMMA RegisterIInv ==
  ASSUME NEW s \in Streams
  PROVE  IInv /\ Register(s) => IInv'
<1> SUFFICES ASSUME IInv, Register(s) PROVE IInv'
  OBVIOUS
<1> USE DEF IInv, Register, serverVars, contextVars
<1>1. TypeOK'
  BY DEF TypeOK
<1>2. /\ stream'[s] = "open"
      /\ \A t \in Streams \ {s} : stream'[t] = stream[t]
  BY DEF TypeOK
<1>3. (ConfigIsTheBlocks /\ ContextIsTheOpeners /\ OpenedProperly)'
  BY <1>2 DEF ConfigIsTheBlocks, ContextIsTheOpeners, OpenedProperly
<1>4. connectingVar[s] = ResolveIdentity(opener[s], config)
  BY DEF ContextIsTheOpeners
<1>5. TableIsTheOpeners'
  BY <1>4 DEF TableIsTheOpeners
<1>6. Issued \subseteq Issued'
  BY <1>2 DEF Issued
<1>7. (CheckStillHolds /\ CallerIsTheOpener)'
  BY <1>6 DEF CheckStillHolds, CheckHolds, CallerIsTheOpener, Bound
<1>8. QED
  BY <1>1, <1>3, <1>5, <1>7

LEMMA DisconnectIInv ==
  ASSUME NEW s \in Streams
  PROVE  IInv /\ Disconnect(s) => IInv'
<1> SUFFICES ASSUME IInv, Disconnect(s) PROVE IInv'
  OBVIOUS
<1> USE DEF IInv, Disconnect, serverVars, contextVars, tableVars
<1>1. TypeOK'
  BY DEF TypeOK
<1>2. /\ stream'[s] = "ending"
      /\ \A t \in Streams \ {s} : stream'[t] = stream[t]
  BY DEF TypeOK
<1>3. (ConfigIsTheBlocks /\ ContextIsTheOpeners /\ OpenedProperly /\ TableIsTheOpeners)'
  BY <1>2 DEF ConfigIsTheBlocks, ContextIsTheOpeners, OpenedProperly, TableIsTheOpeners
<1>4. Issued' = Issued
  BY <1>2 DEF Issued
<1>5. (CheckStillHolds /\ CallerIsTheOpener)'
  BY <1>4 DEF CheckStillHolds, CheckHolds, CallerIsTheOpener, Bound
<1>6. QED
  BY <1>1, <1>3, <1>5

LEMMA ForgetIInv ==
  ASSUME NEW s \in Streams
  PROVE  IInv /\ Forget(s) => IInv'
<1> SUFFICES ASSUME IInv, Forget(s) PROVE IInv'
  OBVIOUS
<1> USE DEF IInv, Forget, serverVars, contextVars
<1>1. TypeOK'
  BY DEF TypeOK
<1>2. (ConfigIsTheBlocks /\ ContextIsTheOpeners /\ OpenedProperly /\ TableIsTheOpeners)'
  BY DEF ConfigIsTheBlocks, ContextIsTheOpeners, OpenedProperly, TableIsTheOpeners
<1>3. (CheckStillHolds /\ CallerIsTheOpener)'
  BY DEF CheckStillHolds, CheckHolds, CallerIsTheOpener, Bound, Issued
<1>4. QED
  BY <1>1, <1>2, <1>3

LEMMA LeaveIInv ==
  ASSUME NEW s \in Streams
  PROVE  IInv /\ Leave(s) => IInv'
<1> SUFFICES ASSUME IInv, Leave(s) PROVE IInv'
  OBVIOUS
<1> USE DEF IInv, Leave, serverVars, contextVars, tableVars
<1>1. TypeOK'
  BY DEF TypeOK, Identities
<1>2. /\ stream'[s] = "closed"
      /\ \A t \in Streams \ {s} : stream'[t] = stream[t] /\ identityVar'[t] = identityVar[t]
                                   /\ connectingVar'[t] = connectingVar[t]
  BY DEF TypeOK
<1>3. (ConfigIsTheBlocks /\ ContextIsTheOpeners /\ OpenedProperly /\ TableIsTheOpeners)'
  BY <1>2 DEF ConfigIsTheBlocks, ContextIsTheOpeners, OpenedProperly, TableIsTheOpeners
<1>4. Issued' = Issued
  BY <1>2 DEF Issued
<1>5. (CheckStillHolds /\ CallerIsTheOpener)'
  BY <1>4 DEF CheckStillHolds, CheckHolds, CallerIsTheOpener, Bound
<1>6. QED
  BY <1>1, <1>3, <1>5

\* The steps of a POST change nothing but that post and the audit log.
LEMMA PostFrame ==
  ASSUME IInv, UNCHANGED <<serverVars, stream, opener, contextVars, tableVars>>,
         server = "serving"
  PROVE  /\ (ConfigIsTheBlocks /\ ContextIsTheOpeners /\ OpenedProperly /\ TableIsTheOpeners)'
         /\ Issued' = Issued /\ (Bound <=> Bound')
         /\ \A q \in Posts : post'[q] = post[q] => CheckHolds(q)'
<1>1. /\ (ConfigIsTheBlocks /\ ContextIsTheOpeners /\ OpenedProperly /\ TableIsTheOpeners)'
      /\ Issued' = Issued /\ (Bound <=> Bound')
  BY DEF IInv, serverVars, contextVars, tableVars, ConfigIsTheBlocks, ContextIsTheOpeners,
         OpenedProperly, TableIsTheOpeners, Issued, Bound
<1>2. ASSUME NEW q \in Posts, post'[q] = post[q]
      PROVE  CheckHolds(q)'
  BY <1>1, <1>2 DEF IInv, CheckStillHolds, CheckHolds, serverVars
<1>3. QED
  BY <1>1, <1>2

\* A post stays well-typed when one of them becomes another record.
LEMMA PostType ==
  ASSUME IInv, UNCHANGED <<serverVars, stream, opener, contextVars, tableVars>>,
         NEW p \in Posts, post' = [post EXCEPT ![p] = post'[p]], post'[p] \in PostRecords,
         audit' \subseteq [post: Posts, identity: Identities]
  PROVE  TypeOK'
BY DEF IInv, TypeOK, serverVars, contextVars, tableVars

\* A post that is past its check, or carries a call, needs a serving server.
LEMMA PostServing ==
  ASSUME IInv, NEW p \in Posts, post[p].at # "idle" \/ post[p].call # "none"
  PROVE  server = "serving"
BY DEF IInv, ConfigIsTheBlocks

\* The updates of a post stay within its type.
LEMMA PostUpdates ==
  ASSUME NEW x \in PostRecords
  PROVE  /\ \A at \in {"found", "accepted", "done"}, reply \in {"none", "202", "400", "404"} :
              [x EXCEPT !.at = at, !.reply = reply] \in PostRecords
         /\ \A at \in {"checked", "done"}, r \in Requests, t \in Sessions, reply \in {"none", "403", "404"} :
              [x EXCEPT !.at = at, !.from = r, !.to = t, !.reply = reply] \in PostRecords
         /\ \A identity \in Identities :
              [x EXCEPT !.at = "done", !.call = "running", !.caller = identity] \in PostRecords
         /\ [x EXCEPT !.at = "done"] \in PostRecords
         /\ [x EXCEPT !.call = "ended"] \in PostRecords
BY DEF PostRecords

LEMMA ReceiveIInv ==
  ASSUME NEW p \in Posts, NEW r \in Requested, NEW t \in Sessions
  PROVE  IInv /\ Receive(p, r, t) => IInv'
<1> SUFFICES ASSUME IInv, Receive(p, r, t) PROVE IInv'
  OBVIOUS
<1> DEFINE identity == ResolveIdentity(r, config)
<1> USE DEF Receive
<1>1. /\ server = "serving"
      /\ UNCHANGED <<serverVars, stream, opener, contextVars, tableVars>>
      /\ UNCHANGED <<config, stream, opener, sessionIdentity, audit>>
  BY DEF serverVars, tableVars
<1>2. Verdict(r, t) \in {"none", "403", "404"}
  BY DEF Verdict
<1>3. TypeOK'
  <2> DEFINE rec == [post[p] EXCEPT !.at = IF Verdict(r, t) = "none" THEN "checked" ELSE "done",
                                  !.from = r, !.to = t, !.reply = Verdict(r, t)]
  <2>1. post[p] \in PostRecords /\ identityVar \in [Streams -> Identities]
    BY DEF IInv, TypeOK
  <2>2. post' = [post EXCEPT ![p] = rec]
    OBVIOUS
  <2>3. rec \in PostRecords
    BY <1>2, <2>1, PostUpdates
  <2>4. post'[p] = rec
    BY <2>2 DEF IInv, TypeOK
  <2>5. audit' \subseteq [post: Posts, identity: Identities]
    BY <1>1 DEF IInv, TypeOK
  <2> HIDE DEF rec
  <2>6. QED
    BY <1>1, <2>2, <2>3, <2>4, <2>5, PostType
<1>4. /\ post'[p].from = r /\ post'[p].to = t /\ post'[p].call = post[p].call
      /\ post'[p].at \in {"checked", "done"} /\ post'[p].caller = post[p].caller
      /\ post'[p].at = "checked" => Verdict(r, t) = "none"
      /\ \A q \in Posts \ {p} : post'[q] = post[q]
  BY DEF IInv, TypeOK, PostRecords
<1>5. post[p].call = "none"
  BY DEF IInv, CallerIsTheOpener, TypeOK, PostRecords
<1>6. ASSUME Verdict(r, t) = "none"
      PROVE  /\ identity # Refused
             /\ Bound => t \in Issued /\ identity = ResolveIdentity(opener[t], config)
  <2>1. identity # Refused /\ (Bound => t \in DOMAIN sessionIdentity /\ sessionIdentity[t] = identity)
    BY <1>6 DEF Verdict
  <2>2. QED
    BY <2>1 DEF IInv, TableIsTheOpeners, OpenedProperly, Issued, TypeOK, PostRecords
<1>7. CheckStillHolds'
  BY <1>1, <1>4, <1>5, <1>6, PostFrame DEF IInv, CheckStillHolds, CheckHolds
<1>8. CallerIsTheOpener'
  BY <1>1, <1>4, <1>5, PostFrame DEF IInv, CallerIsTheOpener, TypeOK, PostRecords
<1>9. QED
  BY <1>1, <1>3, <1>7, <1>8, PostFrame DEF IInv

LEMMA LookUpIInv ==
  ASSUME NEW p \in Posts
  PROVE  IInv /\ LookUp(p) => IInv'
<1> SUFFICES ASSUME IInv, LookUp(p) PROVE IInv'
  OBVIOUS
<1> USE DEF LookUp
<1>1. /\ server = "serving"
      /\ UNCHANGED <<serverVars, stream, opener, contextVars, tableVars>>
      /\ UNCHANGED <<config, stream, opener, audit>>
  BY PostServing DEF serverVars
<1>2. TypeOK'
  <2> DEFINE status == CASE post[p].to = Malformed -> "400"
                         [] post[p].to \in writers -> "none"
                         [] OTHER -> "404"
  <2> DEFINE rec == [post[p] EXCEPT !.at = IF status = "none" THEN "found" ELSE "done", !.reply = status]
  <2>1. post[p] \in PostRecords /\ identityVar \in [Streams -> Identities]
    BY DEF IInv, TypeOK
  <2>2. post' = [post EXCEPT ![p] = rec]
    OBVIOUS
  <2>3. rec \in PostRecords
    <3>1. status \in {"none", "400", "404"}
      OBVIOUS
    <3>2. QED
      BY <2>1, <3>1, PostUpdates
  <2>4. post'[p] = rec
    BY <2>2 DEF IInv, TypeOK
  <2>5. audit' \subseteq [post: Posts, identity: Identities]
    BY <1>1 DEF IInv, TypeOK
  <2> HIDE DEF rec
  <2>6. QED
    BY <1>1, <2>2, <2>3, <2>4, <2>5, PostType
<1>3. /\ post'[p].from = post[p].from /\ post'[p].to = post[p].to
      /\ post'[p].call = post[p].call /\ post'[p].caller = post[p].caller
      /\ post'[p].at \in {"found", "done"}
      /\ post'[p].at = "found" => post[p].to \in writers
      /\ \A q \in Posts \ {p} : post'[q] = post[q]
  BY DEF IInv, TypeOK, PostRecords
<1>4. writers \subseteq Issued
  BY DEF IInv, OpenedProperly, TypeOK, Issued
<1>5. post[p].call = "none"
  BY DEF IInv, CallerIsTheOpener, TypeOK, PostRecords
<1>6. CheckStillHolds'
  BY <1>1, <1>3, <1>5, PostFrame DEF IInv, CheckStillHolds, CheckHolds
<1>7. CallerIsTheOpener'
  BY <1>1, <1>3, <1>4, <1>5, PostFrame DEF IInv, CallerIsTheOpener, TypeOK, PostRecords
<1>8. QED
  BY <1>1, <1>2, <1>6, <1>7, PostFrame DEF IInv

LEMMA AcknowledgeIInv ==
  ASSUME NEW p \in Posts
  PROVE  IInv /\ Acknowledge(p) => IInv'
<1> SUFFICES ASSUME IInv, Acknowledge(p) PROVE IInv'
  OBVIOUS
<1> USE DEF Acknowledge
<1>1. /\ server = "serving"
      /\ UNCHANGED <<serverVars, stream, opener, contextVars, tableVars>>
      /\ UNCHANGED <<config, stream, opener, audit>>
  BY PostServing DEF serverVars
<1>2. PICK at \in {"accepted", "done"}, reply \in {"202", "400"} :
        post' = [post EXCEPT ![p] = [@ EXCEPT !.at = at, !.reply = reply]]
  OBVIOUS
<1>3. /\ post'[p].from = post[p].from /\ post'[p].to = post[p].to
      /\ post'[p].call = post[p].call /\ post'[p].caller = post[p].caller
      /\ post'[p].at \in {"accepted", "done"}
      /\ \A q \in Posts \ {p} : post'[q] = post[q]
  BY <1>2 DEF IInv, TypeOK, PostRecords
<1>4. post[p].call = "none"
  BY DEF IInv, CallerIsTheOpener, TypeOK, PostRecords
<1>5. CheckStillHolds'
  BY <1>1, <1>3, <1>4, PostFrame DEF IInv, CheckStillHolds, CheckHolds
<1>6. CallerIsTheOpener'
  BY <1>1, <1>3, <1>4, PostFrame DEF IInv, CallerIsTheOpener, TypeOK, PostRecords
<1>7. TypeOK'
  <2>1. post[p] \in PostRecords
    BY DEF IInv, TypeOK
  <2>2. [post[p] EXCEPT !.at = at, !.reply = reply] \in PostRecords
    BY <2>1, PostUpdates
  <2>3. QED
    BY <1>1, <1>2, <2>2 DEF IInv, TypeOK, serverVars, contextVars, tableVars
<1>8. QED
  BY <1>1, <1>5, <1>6, <1>7, PostFrame DEF IInv

LEMMA DispatchIInv ==
  ASSUME NEW p \in Posts
  PROVE  IInv /\ Dispatch(p) => IInv'
<1> SUFFICES ASSUME IInv, Dispatch(p) PROVE IInv'
  OBVIOUS
<1> USE DEF Dispatch
<1>1. /\ server = "serving"
      /\ UNCHANGED <<serverVars, stream, opener, contextVars, tableVars>>
      /\ UNCHANGED <<config, stream, opener, audit>>
  BY PostServing DEF serverVars
<1>2. TypeOK'
  <2> DEFINE rec == [post[p] EXCEPT !.at = "done", !.call = "running",
                                  !.caller = identityVar[post[p].to]]
  <2>1. post[p] \in PostRecords /\ identityVar \in [Streams -> Identities]
    BY DEF IInv, TypeOK
  <2>2. post' = [post EXCEPT ![p] = rec]
    OBVIOUS
  <2>3. rec \in PostRecords
    BY <2>1, PostUpdates
  <2>4. post'[p] = rec
    BY <2>2 DEF IInv, TypeOK
  <2>5. audit' \subseteq [post: Posts, identity: Identities]
    BY <1>1 DEF IInv, TypeOK
  <2> HIDE DEF rec
  <2>6. QED
    BY <1>1, <2>2, <2>3, <2>4, <2>5, PostType
<1>3. /\ post'[p].from = post[p].from /\ post'[p].to = post[p].to
      /\ post'[p].call = "running" /\ post'[p].caller = identityVar[post[p].to]
      /\ post'[p].at = "done"
      /\ \A q \in Posts \ {p} : post'[q] = post[q]
  BY DEF IInv, TypeOK, PostRecords
<1>4. /\ post[p].call = "none"
      /\ post[p].to \in Issued
      /\ identityVar[post[p].to] = ResolveIdentity(opener[post[p].to], config)
  BY DEF IInv, CallerIsTheOpener, ContextIsTheOpeners, Issued, TypeOK, PostRecords
<1>5. CheckStillHolds'
  BY <1>1, <1>3, <1>4, PostFrame DEF IInv, CheckStillHolds, CheckHolds
<1>6. CallerIsTheOpener'
  BY <1>1, <1>3, <1>4, PostFrame DEF IInv, CallerIsTheOpener, TypeOK, PostRecords
<1>7. QED
  BY <1>1, <1>2, <1>5, <1>6, PostFrame DEF IInv

LEMMA LoseIInv ==
  ASSUME NEW p \in Posts
  PROVE  IInv /\ Lose(p) => IInv'
<1> SUFFICES ASSUME IInv, Lose(p) PROVE IInv'
  OBVIOUS
<1> USE DEF Lose
<1>1. /\ server = "serving"
      /\ UNCHANGED <<serverVars, stream, opener, contextVars, tableVars>>
      /\ UNCHANGED <<config, stream, opener, audit>>
  BY PostServing DEF serverVars
<1>2. TypeOK'
  BY DEF IInv, TypeOK, PostRecords, serverVars, contextVars, tableVars
<1>3. /\ post'[p].call = post[p].call /\ post'[p].at = "done"
      /\ \A q \in Posts \ {p} : post'[q] = post[q]
  BY DEF IInv, TypeOK, PostRecords
<1>4. post[p].call = "none"
  BY DEF IInv, CallerIsTheOpener, TypeOK, PostRecords
<1>5. CheckStillHolds'
  BY <1>1, <1>3, <1>4, PostFrame DEF IInv, CheckStillHolds, CheckHolds
<1>6. CallerIsTheOpener'
  BY <1>1, <1>3, <1>4, PostFrame DEF IInv, CallerIsTheOpener, TypeOK, PostRecords
<1>7. QED
  BY <1>1, <1>2, <1>5, <1>6, PostFrame DEF IInv

LEMMA RecordIInv ==
  ASSUME NEW p \in Posts
  PROVE  IInv /\ Record(p) => IInv'
<1> SUFFICES ASSUME IInv, Record(p) PROVE IInv'
  OBVIOUS
<1> USE DEF Record
<1>1. /\ server = "serving"
      /\ UNCHANGED <<serverVars, stream, opener, contextVars, tableVars>>
      /\ UNCHANGED <<config, stream, opener>>
  BY PostServing DEF serverVars
<1>2. /\ post'[p].from = post[p].from /\ post'[p].to = post[p].to
      /\ post'[p].call = "ended" /\ post'[p].caller = post[p].caller
      /\ post'[p].at = post[p].at
      /\ \A q \in Posts \ {p} : post'[q] = post[q]
  BY DEF IInv, TypeOK, PostRecords
<1>3. TypeOK'
  BY DEF IInv, TypeOK, PostRecords, serverVars, contextVars, tableVars
<1>4. CheckStillHolds'
  BY <1>1, <1>2, PostFrame DEF IInv, CheckStillHolds, CheckHolds
<1>5. CallerIsTheOpener'
  BY <1>1, <1>2, PostFrame DEF IInv, CallerIsTheOpener, TypeOK, PostRecords
<1>6. QED
  BY <1>1, <1>3, <1>4, <1>5, PostFrame DEF IInv

LEMMA CancelIInv ==
  ASSUME NEW p \in Posts
  PROVE  IInv /\ Cancel(p) => IInv'
<1> SUFFICES ASSUME IInv, Cancel(p) PROVE IInv'
  OBVIOUS
<1> USE DEF Cancel
<1>1. /\ server = "serving"
      /\ UNCHANGED <<serverVars, stream, opener, contextVars, tableVars>>
      /\ UNCHANGED <<config, stream, opener, audit>>
  BY PostServing DEF serverVars
<1>2. /\ post'[p].from = post[p].from /\ post'[p].to = post[p].to
      /\ post'[p].call = "ended" /\ post'[p].caller = post[p].caller
      /\ post'[p].at = post[p].at
      /\ \A q \in Posts \ {p} : post'[q] = post[q]
  BY DEF IInv, TypeOK, PostRecords
<1>3. TypeOK'
  BY DEF IInv, TypeOK, PostRecords, serverVars, contextVars, tableVars
<1>4. CheckStillHolds'
  BY <1>1, <1>2, PostFrame DEF IInv, CheckStillHolds, CheckHolds
<1>5. CallerIsTheOpener'
  BY <1>1, <1>2, PostFrame DEF IInv, CallerIsTheOpener, TypeOK, PostRecords
<1>6. QED
  BY <1>1, <1>3, <1>4, <1>5, PostFrame DEF IInv

LEMMA StutterIInv == IInv /\ UNCHANGED vars => IInv'
BY DEF IInv, vars, TypeOK, ConfigIsTheBlocks, ContextIsTheOpeners, OpenedProperly,
       TableIsTheOpeners, CheckStillHolds, CheckHolds, CallerIsTheOpener, Issued, Bound

\* The invariant holds of every reachable state: the streams' contexts, the two
\* tables, the checked messages and the records all speak of the same openers.
THEOREM Invariance == Spec => []IInv
<1>1. ASSUME IInv, [Next]_vars
      PROVE  IInv'
  <2>1. CASE Startup
    BY <1>1, <2>1, StartupIInv
  <2>2. ASSUME NEW s \in Streams, StreamStep(s)
        PROVE  IInv'
    BY <1>1, <2>2, ConnectIInv, RegisterIInv, DisconnectIInv, ForgetIInv, LeaveIInv
       DEF StreamStep
  <2>3. ASSUME NEW p \in Posts, PostStep(p)
        PROVE  IInv'
    BY <1>1, <2>3, ReceiveIInv, LookUpIInv, AcknowledgeIInv, DispatchIInv, LoseIInv,
       RecordIInv, CancelIInv
       DEF PostStep
  <2>4. CASE UNCHANGED vars
    BY <1>1, <2>4, StutterIInv
  <2>5. QED
    BY <1>1, <2>1, <2>2, <2>3, <2>4 DEF Next
<1>2. QED
  BY <1>1, InitIInv, PTL DEF Spec

-----------------------------------------------------------------------------
(* What follows from it                                                    *)

\* What a record names, and that the requests behind it were let in.
LEMMA RecordFacts ==
  ASSUME IInv, NEW a \in audit
  PROVE  /\ a.post \in Posts /\ post[a.post].to \in Streams
         /\ post[a.post].from \in Requests /\ opener[post[a.post].to] \in Requests
         /\ a.identity = ResolveIdentity(opener[post[a.post].to], config)
         /\ a.identity # Refused
         /\ Bound => a.identity = ResolveIdentity(post[a.post].from, config)
<1>1. /\ a.post \in Posts /\ post[a.post].from \in Requests
      /\ post[a.post].call = "ended" /\ a.identity = post[a.post].caller
  BY DEF IInv, TypeOK, PostRecords, CallerIsTheOpener
<1>2. /\ post[a.post].to \in Issued
      /\ a.identity = ResolveIdentity(opener[post[a.post].to], config)
  BY <1>1 DEF IInv, CallerIsTheOpener
<1>3. Bound => a.identity = ResolveIdentity(post[a.post].from, config)
  BY <1>1, <1>2 DEF IInv, CheckStillHolds, CheckHolds
<1>4. QED
  BY <1>1, <1>2, <1>3 DEF IInv, TypeOK, OpenedProperly, Issued

\* Every variable keeps its type: contexts, tables and records hold identities,
\* never a refusal or an empty header value (identity.py:124-158).
THEOREM TypeCorrect == Spec => []TypeOK
<1>1. IInv => TypeOK
  BY DEF IInv
<1>2. QED
  BY <1>1, Invariance, PTL

\* A tool call is recorded under the identity that opened its stream.
THEOREM RecordsNameTheOpener == Spec => []RecordedAsItsOpener
<1>1. IInv => RecordedAsItsOpener
  BY RecordFacts, ResolveSaysIdentity DEF RecordedAsItsOpener, IInv, TypeOK
<1>2. QED
  BY <1>1, Invariance, PTL

\* With bind_to_session a tool call is recorded under the identity of whoever
\* sent it, although the stream may have ended between check and call.
THEOREM RecordsNameTheSender == Spec => []RecordedAsItsSender
<1>1. IInv => RecordedAsItsSender
  BY RecordFacts, ResolveSaysIdentity DEF RecordedAsItsSender, Bound, IInv, TypeOK
<1>2. QED
  BY <1>1, Invariance, PTL

\* SESSION_IDENTITY holds the streams of the transport's table, each with the
\* identity that opened it.
THEOREM TablesStayTogether == Spec => []TablesAgree
<1>1. ASSUME IInv PROVE TablesAgree
  <2>1. ASSUME NEW s \in writers, config.on
        PROVE  SaysIdentity(opener[s], sessionIdentity[s])
    <3>1. /\ s \in Streams /\ opener[s] \in Requests /\ config \in Configs
          /\ ResolveIdentity(opener[s], config) # Refused
          /\ sessionIdentity[s] = ResolveIdentity(opener[s], config)
      BY <1>1 DEF IInv, TypeOK, OpenedProperly, TableIsTheOpeners
    <3>2. QED
      BY <2>1, <3>1, ResolveSaysIdentity
  <2>2. QED
    BY <1>1, <2>1 DEF TablesAgree, IInv, TableIsTheOpeners
<1>2. QED
  BY <1>1, Invariance, PTL

\* A deployment that asks for the proxy's secret or for an identity gets it on
\* every request that is let in, or does not start.
THEOREM IdentityFailsClosed == Spec => []FailsClosed
<1>1. ASSUME IInv, block.block = "filled" PROVE FailsClosed
  <2>1. block \in Blocks
    BY <1>1 DEF IInv, TypeOK
  <2>2. ASSUME block.proxy, NEW s \in Issued \cup writers
        PROVE  opener[s].proxy = <<Secret>>
    <3>1. /\ opener[s] \in Requests /\ ~Misconfigured(block)
          /\ ResolveIdentity(opener[s], FromConfig(block)) # Refused
      BY <1>1, <2>2 DEF IInv, TypeOK, OpenedProperly, ConfigIsTheBlocks, Issued
    <3>2. QED
      BY <1>1, <2>1, <2>2, <3>1, LetInWithSecret
  <2>3. ASSUME block.proxy, NEW p \in Posts,
               post[p].at \in {"checked", "found", "accepted"} \/ post[p].call # "none"
        PROVE  post[p].from.proxy = <<Secret>>
    <3>1. /\ post[p].from \in Requests /\ ~Misconfigured(block)
          /\ ResolveIdentity(post[p].from, FromConfig(block)) # Refused
      BY <1>1, <2>3, PostServing DEF IInv, TypeOK, PostRecords, CheckStillHolds, CheckHolds, ConfigIsTheBlocks
    <3>2. QED
      BY <1>1, <2>1, <2>3, <3>1, LetInWithSecret
  <2>4. ASSUME block.require, NEW a \in audit
        PROVE  a.identity \in Names
    <3>1. config = FromConfig(block)
      BY <1>1, RecordFacts DEF IInv, ConfigIsTheBlocks, CallerIsTheOpener
    <3>2. QED
      BY <1>1, <2>1, <2>4, <3>1, RecordFacts, LetInWithName
  <2>5. QED
    BY <2>2, <2>3, <2>4 DEF FailsClosed
<1>2. IInv => FailsClosed
  BY <1>1 DEF FailsClosed
<1>3. QED
  BY <1>2, Invariance, PTL

-----------------------------------------------------------------------------
(* Replies already given                                                   *)

\* What a reply says stays true of the two requests it compared, and a refusal
\* for want of a session is not taken back by a stream that opens later.
ReplyStands(p) ==
  LET identity == ResolveIdentity(post[p].from, config)
      foreign == identity # ResolveIdentity(opener[post[p].to], config)
  IN IF post[p].at = "idle" THEN post[p].reply = "none"
     ELSE /\ post[p].to \in Issued \cup {Unknown, Malformed}
          /\ identity = Refused => post[p].reply = "403"
          /\ Bound /\ identity # Refused
               /\ (post[p].to = Unknown \/ (post[p].to \in Streams /\ foreign))
               => post[p].reply = "404"
          /\ post[p].reply = "404" /\ post[p].to \in Streams
               => stream[post[p].to] # "open" \/ foreign

ReplyInv ==
  /\ \A s \in Streams : stream[s] = "open" => s \in writers
  /\ \A p \in Posts : ReplyStands(p)

LEMMA InitReplyInv == Init => ReplyInv
BY DEF Init, ReplyInv, ReplyStands, NoPost

\* A step of the streams that only moves them on.
LEMMA StreamReplies ==
  ASSUME IInv, ReplyInv, UNCHANGED <<config, post>>,
         \A s \in Issued : /\ s \in Issued' /\ opener'[s] = opener[s]
                           /\ stream'[s] = "open" => stream[s] = "open"
  PROVE  \A p \in Posts : ReplyStands(p)'
<1> SUFFICES ASSUME NEW p \in Posts PROVE ReplyStands(p)'
  OBVIOUS
<1>1. post'[p] = post[p] /\ ReplyStands(p) /\ (Bound <=> Bound')
  BY DEF ReplyInv, Bound
<1>2. CASE post[p].at = "idle"
  BY <1>1, <1>2 DEF ReplyStands
<1>3. CASE post[p].at # "idle" /\ post[p].to \in Issued
  <2>1. /\ post[p].to \in Issued' /\ opener'[post[p].to] = opener[post[p].to]
        /\ stream'[post[p].to] = "open" => stream[post[p].to] = "open"
    BY <1>3
  <2>2. QED
    BY <1>1, <1>3, <2>1 DEF ReplyStands
<1>4. CASE post[p].at # "idle" /\ post[p].to \in {Unknown, Malformed}
  BY <1>1, <1>4, SessionsAssumption DEF ReplyStands
<1>5. QED
  BY <1>1, <1>2, <1>3, <1>4 DEF ReplyStands

LEMMA StreamStepReplies ==
  ASSUME IInv, ReplyInv, NEW s \in Streams, StreamStep(s)
  PROVE  ReplyInv'
<1> DEFINE MovesOn ==
      \A t \in Issued : /\ t \in Issued' /\ opener'[t] = opener[t]
                        /\ stream'[t] = "open" => stream[t] = "open"
<1> DEFINE OpenIsListed == \A t \in Streams : stream'[t] = "open" => t \in writers'
<1>1. UNCHANGED <<config, post>> /\ MovesOn /\ OpenIsListed
  <2>1. ASSUME NEW r \in Requested, Connect(s, r)
        PROVE  UNCHANGED <<config, post>> /\ MovesOn /\ OpenIsListed
    BY <2>1 DEF IInv, TypeOK, ReplyInv, Connect, Issued, serverVars, tableVars
  <2>2. CASE Register(s)
    BY <2>2 DEF IInv, TypeOK, ReplyInv, Register, Issued, serverVars
  <2>3. CASE Disconnect(s)
    BY <2>3 DEF IInv, TypeOK, ReplyInv, Disconnect, Issued, serverVars, tableVars
  <2>4. CASE Forget(s)
    BY <2>4 DEF IInv, TypeOK, ReplyInv, Forget, Issued, serverVars
  <2>5. CASE Leave(s)
    BY <2>5 DEF IInv, TypeOK, ReplyInv, Leave, Issued, serverVars, tableVars
  <2>6. QED
    BY <2>1, <2>2, <2>3, <2>4, <2>5 DEF StreamStep
<1>2. \A p \in Posts : ReplyStands(p)'
  BY <1>1, StreamReplies
<1>3. QED
  BY <1>1, <1>2 DEF ReplyInv

\* A step of one POST: it is enough to look at that post.
LEMMA PostReplies ==
  ASSUME IInv, ReplyInv, NEW p \in Posts,
         UNCHANGED <<config, stream, opener, writers>>,
         \A q \in Posts \ {p} : post'[q] = post[q],
         ReplyStands(p)'
  PROVE  ReplyInv'
<1>1. ASSUME NEW q \in Posts PROVE ReplyStands(q)'
  BY DEF ReplyInv, ReplyStands, Issued, Bound
<1>2. QED
  BY <1>1 DEF ReplyInv

LEMMA ReceiveReplies ==
  ASSUME IInv, ReplyInv, NEW p \in Posts, NEW r \in Requested, NEW t \in Sessions,
         Receive(p, r, t)
  PROVE  ReplyInv'
<1> DEFINE identity == ResolveIdentity(r, config)
<1>1. /\ UNCHANGED <<config, stream, opener, writers>>
      /\ \A q \in Posts \ {p} : post'[q] = post[q]
      /\ post'[p].from = r /\ post'[p].to = t /\ post'[p].reply = Verdict(r, t)
      /\ post'[p].at # "idle"
  BY DEF IInv, TypeOK, PostRecords, Receive, serverVars, tableVars
<1>2. t \in Issued \cup {Unknown, Malformed}
  BY DEF Receive
<1>3. identity = Refused => Verdict(r, t) = "403"
  BY DEF Verdict
<1>4. Bound /\ identity # Refused /\ (t = Unknown \/ (t \in Streams /\ identity # ResolveIdentity(opener[t], config)))
        => Verdict(r, t) = "404"
  BY DEF Verdict, IInv, TableIsTheOpeners, TypeOK
<1>5. Verdict(r, t) = "404" /\ t \in Streams
        => stream[t] # "open" \/ identity # ResolveIdentity(opener[t], config)
  BY DEF Verdict, IInv, TableIsTheOpeners, TypeOK, ReplyInv
<1> HIDE DEF identity
<1>6. ReplyStands(p)'
  BY <1>1, <1>2, <1>3, <1>4, <1>5 DEF ReplyStands, Issued, Bound, identity
<1>7. QED
  BY <1>1, <1>6, PostReplies

\* A message that passed its check is neither refused nor foreign.
LEMMA CheckedIsOwn ==
  ASSUME IInv, NEW p \in Posts, post[p].at \in {"checked", "found", "accepted"}
  PROVE  LET identity == ResolveIdentity(post[p].from, config)
         IN /\ identity # Refused
            /\ Bound => /\ post[p].to \in Streams /\ post[p].to # Unknown
                        /\ identity = ResolveIdentity(opener[post[p].to], config)
BY DEF IInv, CheckStillHolds, CheckHolds, Issued

LEMMA LookUpReplies ==
  ASSUME IInv, ReplyInv, NEW p \in Posts, LookUp(p)
  PROVE  ReplyInv'
<1>1. /\ UNCHANGED <<config, stream, opener, writers>>
      /\ \A q \in Posts \ {p} : post'[q] = post[q]
      /\ post[p].at = "checked" /\ post'[p].at # "idle"
      /\ post'[p].from = post[p].from /\ post'[p].to = post[p].to
      /\ post'[p].reply = "404" => post[p].to \notin writers
  BY DEF IInv, TypeOK, PostRecords, LookUp, serverVars, tableVars
<1>2. post[p].to \in Issued \cup {Unknown, Malformed}
  BY <1>1 DEF ReplyInv, ReplyStands
<1>3. \A s \in Streams : s \notin writers => stream[s] # "open"
  BY DEF ReplyInv
<1>4. ReplyStands(p)'
  BY <1>1, <1>2, <1>3, CheckedIsOwn DEF ReplyStands, Issued, Bound
<1>5. QED
  BY <1>1, <1>4, PostReplies

LEMMA AcknowledgeReplies ==
  ASSUME IInv, ReplyInv, NEW p \in Posts, Acknowledge(p)
  PROVE  ReplyInv'
<1>1. /\ UNCHANGED <<config, stream, opener, writers>>
      /\ \A q \in Posts \ {p} : post'[q] = post[q]
      /\ post[p].at = "found" /\ post'[p].at # "idle"
      /\ post'[p].from = post[p].from /\ post'[p].to = post[p].to
      /\ post'[p].reply \in {"202", "400"}
  <2>1. UNCHANGED <<config, stream, opener, writers>> /\ post[p].at = "found"
    BY DEF Acknowledge, serverVars, tableVars
  <2>2. CASE post' = [post EXCEPT ![p] = [@ EXCEPT !.at = "accepted", !.reply = "202"]]
    BY <2>1, <2>2 DEF IInv, TypeOK, PostRecords
  <2>3. CASE post' = [post EXCEPT ![p] = [@ EXCEPT !.at = "done", !.reply = "400"]]
    BY <2>1, <2>3 DEF IInv, TypeOK, PostRecords
  <2>4. QED
    BY <2>2, <2>3 DEF Acknowledge
<1>2. post[p].to \in Issued \cup {Unknown, Malformed}
  BY <1>1 DEF ReplyInv, ReplyStands
<1>3. ReplyStands(p)'
  BY <1>1, <1>2, CheckedIsOwn DEF ReplyStands, Issued, Bound
<1>4. QED
  BY <1>1, <1>3, PostReplies

\* From then on the reply is not touched.
LEMMA LaterReplies ==
  ASSUME IInv, ReplyInv, NEW p \in Posts, Dispatch(p) \/ Lose(p) \/ Record(p) \/ Cancel(p)
  PROVE  ReplyInv'
<1>1. /\ UNCHANGED <<config, stream, opener, writers>>
      /\ \A q \in Posts \ {p} : post'[q] = post[q]
      /\ post'[p].from = post[p].from /\ post'[p].to = post[p].to
      /\ post'[p].reply = post[p].reply
      /\ post'[p].at # "idle" /\ post[p].at # "idle"
  <2>1. CASE Dispatch(p)
    BY <2>1 DEF IInv, TypeOK, PostRecords, Dispatch, serverVars, tableVars
  <2>2. CASE Lose(p)
    BY <2>2 DEF IInv, TypeOK, PostRecords, Lose, serverVars, tableVars
  <2>3. CASE Record(p)
    BY <2>3 DEF IInv, TypeOK, PostRecords, CallerIsTheOpener, Record, serverVars, tableVars
  <2>4. CASE Cancel(p)
    BY <2>4 DEF IInv, TypeOK, PostRecords, CallerIsTheOpener, Cancel, serverVars, tableVars
  <2>5. QED
    BY <2>1, <2>2, <2>3, <2>4
<1>2. ReplyStands(p)'
  BY <1>1 DEF ReplyInv, ReplyStands, Issued, Bound
<1>3. QED
  BY <1>1, <1>2, PostReplies

LEMMA StartupReplies ==
  ASSUME IInv, ReplyInv, Startup
  PROVE  ReplyInv'
<1>1. \A p \in Posts : post[p].at = "idle" /\ post'[p] = post[p]
  BY DEF IInv, ConfigIsTheBlocks, Startup
<1>2. UNCHANGED <<stream, writers>>
  BY DEF Startup, tableVars
<1>3. QED
  BY <1>1, <1>2 DEF ReplyInv, ReplyStands

LEMMA RepliesInvariance == Spec => []ReplyInv
<1>1. ASSUME IInv, ReplyInv, [Next]_vars
      PROVE  ReplyInv'
  <2>1. CASE Startup
    BY <1>1, <2>1, StartupReplies
  <2>2. ASSUME NEW s \in Streams, StreamStep(s)
        PROVE  ReplyInv'
    BY <1>1, <2>2, StreamStepReplies
  <2>3. ASSUME NEW p \in Posts, PostStep(p)
        PROVE  ReplyInv'
    BY <1>1, <2>3, ReceiveReplies, LookUpReplies, AcknowledgeReplies, LaterReplies
       DEF PostStep
  <2>4. CASE UNCHANGED vars
    BY <1>1, <2>4 DEF ReplyInv, ReplyStands, Issued, Bound, vars
  <2>5. QED
    BY <1>1, <2>1, <2>2, <2>3, <2>4 DEF Next
<1>2. QED
  BY <1>1, InitReplyInv, Invariance, PTL DEF Spec

\* Nobody is told that a stream of their own does not exist while it is open
\* (handle_messages, server.py:358-380).
THEOREM OwnersAreHeard == Spec => []OwnerIsHeard
<1>1. ReplyInv => OwnerIsHeard
  BY DEF ReplyInv, ReplyStands, OwnerIsHeard
<1>2. QED
  BY <1>1, RepliesInvariance, PTL

\* With bind_to_session a message to somebody else's stream is answered as one to
\* a session that was never issued (server.py:370-372).
THEOREM ForeignAnswers == Spec => []ForeignLooksUnknown
<1>1. ASSUME ReplyInv, Bound, NEW p \in Posts, NEW q \in Posts,
             post[p].from = post[q].from, post[p].reply # "none", post[q].reply # "none",
             post[q].to = Unknown, post[p].to \in Streams,
             ResolveIdentity(post[p].from, config) # ResolveIdentity(opener[post[p].to], config)
      PROVE  post[p].reply = post[q].reply
  <2>1. ReplyStands(p) /\ ReplyStands(q)
    BY <1>1 DEF ReplyInv
  <2>2. CASE ResolveIdentity(post[p].from, config) = Refused
    BY <1>1, <2>1, <2>2 DEF ReplyStands
  <2>3. CASE ResolveIdentity(post[p].from, config) # Refused
    BY <1>1, <2>1, <2>3 DEF ReplyStands
  <2>4. QED
    BY <2>2, <2>3
<1>2. ReplyInv => ForeignLooksUnknown
  BY <1>1 DEF ForeignLooksUnknown
<1>3. QED
  BY <1>2, RepliesInvariance, PTL
=============================================================================
