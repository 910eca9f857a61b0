------------------------------ MODULE Sessions ------------------------------
(***************************************************************************)
(* The two routes of cli_mcp/server.py and what ties them together: a GET  *)
(* opens an SSE stream (handle_sse), POSTs send messages to it             *)
(* (handle_messages), and the tool calls they carry run in tasks of the    *)
(* stream, which know their caller through a context variable.             *)
(*                                                                         *)
(* A stream and its session id have one name, as uuid4 never repeats.      *)
(* The SDK's SseServerTransport and Server are modelled from how server.py *)
(* uses them: connect_sse registers the stream in its session table,       *)
(* removes it at some time after the stream has ended, or never, and       *)
(* handle_post_message looks the session up and hands the message over,    *)
(* awaiting in between.                                                    *)
(***************************************************************************)
EXTENDS Identity

CONSTANTS
  Streams,    \* GET requests, and the session ids they are given
  Posts,      \* POST requests
  Unknown,    \* a well-formed session id that was never issued
  Malformed,  \* a session id that is missing or is no UUID
  Requested,  \* the headers that requests carry
  Deployed    \* the identity blocks to deploy with

ASSUME SessionsAssumption ==
  /\ Unknown \notin Streams /\ Malformed \notin Streams /\ Unknown # Malformed
  /\ None \notin Streams
  /\ Requested \subseteq Requests
  /\ Deployed \subseteq Blocks

VARIABLES
  block,            \* the server.identity block of this deployment
  server,           \* "starting", "serving" or "failed"
  config,           \* IDENTITY_CONFIG
  stream,           \* stream -> how far its handle_sse has come
  opener,           \* history: stream -> the GET that opened it
  identityVar,      \* stream -> IDENTITY in the context of its task
  connectingVar,    \* stream -> _CONNECTING_IDENTITY in the same context
  writers,          \* the transport's session table
  sessionIdentity,  \* SESSION_IDENTITY: session -> identity
  post,             \* post -> its handler and the call it carries
  audit             \* calls that have been recorded, with their identity

serverVars  == <<block, server, config>>
contextVars == <<identityVar, connectingVar>>
tableVars   == <<writers, sessionIdentity>>
vars == <<block, server, config, stream, opener, identityVar, connectingVar,
          writers, sessionIdentity, post, audit>>

Sessions == Streams \cup {Unknown, Malformed}
Identities == Names \cup {None}

NoRequest == [proxy |-> << >>, identity |-> << >>]

\* at     where the POST's handler is: the code between two awaits is one step
\* from   its headers        to   the session it names
\* reply  HTTP status, "none" before there is one
\* call   the tool call it carries        caller  IDENTITY in the call's context
NoPost == [at |-> "idle", from |-> NoRequest, to |-> Unknown, reply |-> "none",
           call |-> "none", caller |-> None]

PostRecords ==
  [at: {"idle", "checked", "found", "accepted", "done"}, from: Requests,
   to: Sessions, reply: {"none", "202", "400", "403", "404"},
   call: {"none", "running", "ended"}, caller: Identities]

TypeOK ==
  /\ block \in Deployed
  /\ server \in {"starting", "serving", "failed"}
  /\ config \in Configs
  /\ stream \in [Streams -> {"idle", "connecting", "open", "ending", "closed", "refused"}]
  /\ opener \in [Streams -> Requests]
  /\ identityVar \in [Streams -> Identities]
  /\ connectingVar \in [Streams -> Identities]
  /\ writers \subseteq Streams
  /\ DOMAIN sessionIdentity \subseteq Streams
  /\ \A s \in DOMAIN sessionIdentity : sessionIdentity[s] \in Identities
  /\ post \in [Posts -> PostRecords]
  /\ audit \subseteq [post: Posts, identity: Identities]

Init ==
  /\ block \in Deployed
  /\ server = "starting"
  /\ config = Off
  /\ stream = [s \in Streams |-> "idle"]
  /\ opener = [s \in Streams |-> NoRequest]
  /\ identityVar = [s \in Streams |-> None]
  /\ connectingVar = [s \in Streams |-> None]
  /\ writers = {}
  /\ sessionIdentity = [s \in {} |-> None]
  /\ post = [p \in Posts |-> NoPost]
  /\ audit = {}

-----------------------------------------------------------------------------
(* Start-up and the GET route                                              *)

\* _lifespan: the configuration is resolved once; a bad one stops the server
Startup ==
  /\ server = "starting"
  /\ IF Misconfigured(block)
       THEN server' = "failed" /\ UNCHANGED config
       ELSE server' = "serving" /\ config' = FromConfig(block)
  /\ UNCHANGED <<block, stream, opener, contextVars, tableVars, post, audit>>

\* A mutant of Connect: only the registry is told who connects, IDENTITY is not set
Connect_SetsOne(s, r) ==
  LET identity == ResolveIdentity(r, config)
  IN  /\ server = "serving"
      /\ stream[s] = "idle"
      /\ opener' = [opener EXCEPT ![s] = r]
      /\ IF identity = Refused
           THEN /\ stream' = [stream EXCEPT ![s] = "refused"]
                /\ UNCHANGED connectingVar
           ELSE /\ stream' = [stream EXCEPT ![s] = "connecting"]
                /\ connectingVar' = [connectingVar EXCEPT ![s] = identity]
      /\ UNCHANGED <<serverVars, identityVar, tableVars, post, audit>>

\* handle_sse up to the await in connect_sse
Connect(s, r) ==
  LET identity == ResolveIdentity(r, config)
  IN  /\ server = "serving"
      /\ stream[s] = "idle"
      /\ opener' = [opener EXCEPT ![s] = r]
      /\ IF identity = Refused
           THEN /\ stream' = [stream EXCEPT ![s] = "refused"]
                /\ UNCHANGED contextVars
           ELSE /\ stream' = [stream EXCEPT ![s] = "connecting"]
                /\ identityVar' = [identityVar EXCEPT ![s] = identity]
                /\ connectingVar' = [connectingVar EXCEPT ![s] = identity]
      /\ UNCHANGED <<serverVars, tableVars, post, audit>>

\* A mutant: the context variables were plain module globals: any connect may have set them
Register_Global(s) ==
  /\ stream[s] = "connecting"
  /\ stream' = [stream EXCEPT ![s] = "open"]
  /\ writers' = writers \cup {s}
  /\ \E u \in Streams :
       /\ stream[u] \in {"connecting", "open"}
       /\ sessionIdentity' = [t \in DOMAIN sessionIdentity \cup {s} |->
                                IF t = s THEN connectingVar[u] ELSE sessionIdentity[t]]
  /\ UNCHANGED <<serverVars, opener, contextVars, post, audit>>

\* _SessionRegistry.__setitem__, called by the SDK in the connecting task
Register(s) ==
  /\ stream[s] = "connecting"
  /\ stream' = [stream EXCEPT ![s] = "open"]
  /\ writers' = writers \cup {s}
  /\ sessionIdentity' = [t \in DOMAIN sessionIdentity \cup {s} |->
                           IF t = s THEN connectingVar[s] ELSE sessionIdentity[t]]
  /\ UNCHANGED <<serverVars, opener, contextVars, post, audit>>

\* the client goes away: no more messages are read from the stream
Disconnect(s) ==
  /\ stream[s] = "open"
  /\ stream' = [stream EXCEPT ![s] = "ending"]
  /\ UNCHANGED <<serverVars, opener, contextVars, tableVars, post, audit>>

\* A mutant: the table of identities is not told that the stream is gone
Forget_KeepsIdentity(s) ==
  /\ stream[s] \in {"ending", "closed"}
  /\ s \in writers
  /\ writers' = writers \ {s}
  /\ UNCHANGED <<serverVars, stream, opener, contextVars, sessionIdentity, post, audit>>

\* _SessionRegistry.__delitem__ and pop
Forget(s) ==
  /\ stream[s] \in {"ending", "closed"}
  /\ s \in writers
  /\ writers' = writers \ {s}
  /\ sessionIdentity' = [t \in DOMAIN sessionIdentity \ {s} |-> sessionIdentity[t]]
  /\ UNCHANGED <<serverVars, stream, opener, contextVars, post, audit>>

\* mcp_server.run has ended, with all the calls of the stream: reset the context
Leave(s) ==
  /\ stream[s] = "ending"
  /\ \A p \in Posts : post[p].call = "running" => post[p].to # s
  /\ stream' = [stream EXCEPT ![s] = "closed"]
  /\ identityVar' = [identityVar EXCEPT ![s] = None]
  /\ connectingVar' = [connectingVar EXCEPT ![s] = None]
  /\ UNCHANGED <<serverVars, opener, tableVars, post, audit>>

-----------------------------------------------------------------------------
(* The POST route                                                          *)

\* a client knows a session id once the stream has been opened
Issued == {s \in Streams : stream[s] \in {"open", "ending", "closed"}}

Bound == config.on /\ config.bind

\* A mutant: the comparison is .get(session) against None, so no identity is no check
Verdict_AnonymousPasses(r, t) ==
  LET identity == ResolveIdentity(r, config)
  IN  IF identity = Refused THEN "403"
      ELSE IF ~Bound \/ identity = None THEN "none"
      ELSE IF t \notin DOMAIN sessionIdentity THEN "404"
      ELSE IF sessionIdentity[t] # identity THEN "404"
      ELSE "none"

\* A mutant: a foreign session is forbidden rather than not found
Verdict_SaysForbidden(r, t) ==
  LET identity == ResolveIdentity(r, config)
  IN  IF identity = Refused THEN "403"
      ELSE IF ~Bound THEN "none"
      ELSE IF t \notin DOMAIN sessionIdentity THEN "404"
      ELSE IF sessionIdentity[t] # identity THEN "403"
      ELSE "none"

\* the reply of handle_messages, or "none" when it goes on to the SDK
Verdict(r, t) ==
  LET identity == ResolveIdentity(r, config)
  IN  IF identity = Refused THEN "403"
      ELSE IF ~Bound THEN "none"
      ELSE IF t \notin DOMAIN sessionIdentity THEN "404"
      ELSE IF sessionIdentity[t] # identity THEN "404"
      ELSE "none"

\* handle_messages up to the await of handle_post_message
Receive(p, r, t) ==
  /\ server = "serving"
  /\ post[p].at = "idle"
  /\ t \in Issued \cup {Unknown, Malformed}
  /\ post' = [post EXCEPT ![p] =
       [@ EXCEPT !.at = IF Verdict(r, t) = "none" THEN "checked" ELSE "done",
                 !.from = r, !.to = t, !.reply = Verdict(r, t)]]
  /\ UNCHANGED <<serverVars, stream, opener, contextVars, tableVars, audit>>

\* the SDK looks the session up and awaits the body of the request
LookUp(p) ==
  LET status == CASE post[p].to = Malformed -> "400"
                  [] post[p].to \in writers -> "none"
                  [] OTHER -> "404"
  IN  /\ post[p].at = "checked"
      /\ post' = [post EXCEPT ![p] =
           [@ EXCEPT !.at = IF status = "none" THEN "found" ELSE "done", !.reply = status]]
      /\ UNCHANGED <<serverVars, stream, opener, contextVars, tableVars, audit>>

\* the body is parsed and the reply sent; the message is still to be handed over
Acknowledge(p) ==
  /\ post[p].at = "found"
  /\ \/ post' = [post EXCEPT ![p] = [@ EXCEPT !.at = "accepted", !.reply = "202"]]
     \/ post' = [post EXCEPT ![p] = [@ EXCEPT !.at = "done", !.reply = "400"]]
  /\ UNCHANGED <<serverVars, stream, opener, contextVars, tableVars, audit>>

\* A mutant: run() called outside the scope of the context variable: a call sees whoever
\* connected last
Dispatch_AnyContext(p) ==
  LET s == post[p].to
  IN  /\ post[p].at = "accepted"
      /\ s \in Streams /\ stream[s] = "open"
      /\ \E u \in Issued : post' = [post EXCEPT ![p] =
           [@ EXCEPT !.at = "done", !.call = "running", !.caller = identityVar[u]]]
      /\ UNCHANGED <<serverVars, stream, opener, contextVars, tableVars, audit>>

\* the stream's Server reads the message and starts a task for the call, which
\* gets a copy of the context that mcp_server.run was called in
Dispatch(p) ==
  LET s == post[p].to
  IN  /\ post[p].at = "accepted"
      /\ s \in Streams /\ stream[s] = "open"
      /\ post' = [post EXCEPT ![p] =
           [@ EXCEPT !.at = "done", !.call = "running", !.caller = identityVar[s]]]
      /\ UNCHANGED <<serverVars, stream, opener, contextVars, tableVars, audit>>

\* the stream ended after the lookup: the message is lost
Lose(p) ==
  /\ post[p].at = "accepted"
  /\ stream[post[p].to] \in {"ending", "closed"}
  /\ post' = [post EXCEPT ![p] = [@ EXCEPT !.at = "done"]]
  /\ UNCHANGED <<serverVars, stream, opener, contextVars, tableVars, audit>>

\* call_tool ends: it reads IDENTITY for the envelope and the audit line
Record(p) ==
  /\ post[p].call = "running"
  /\ post' = [post EXCEPT ![p] = [@ EXCEPT !.call = "ended"]]
  /\ audit' = audit \cup {[post |-> p, identity |-> post[p].caller]}
  /\ UNCHANGED <<serverVars, stream, opener, contextVars, tableVars>>

\* the stream ends under the call, which is cancelled without a record
Cancel(p) ==
  /\ post[p].call = "running"
  /\ stream[post[p].to] = "ending"
  /\ post' = [post EXCEPT ![p] = [@ EXCEPT !.call = "ended"]]
  /\ UNCHANGED <<serverVars, stream, opener, contextVars, tableVars, audit>>

StreamStep(s) ==
  \/ \E r \in Requested : Connect(s, r)
  \/ Register(s)
  \/ Disconnect(s)
  \/ Forget(s)
  \/ Leave(s)

PostStep(p) ==
  \/ \E r \in Requested, t \in Sessions : Receive(p, r, t)
  \/ LookUp(p)
  \/ Acknowledge(p)
  \/ Dispatch(p)
  \/ Lose(p)
  \/ Record(p)
  \/ Cancel(p)

Next ==
  \/ Startup
  \/ \E s \in Streams : StreamStep(s)
  \/ \E p \in Posts : PostStep(p)

Spec == Init /\ [][Next]_vars

-----------------------------------------------------------------------------
(* Properties                                                              *)

\* what the headers of a request say about who sent it, without any parsing
\* rule: the header occurs once with that value, or there is no value in it
SaysIdentity(r, identity) ==
  IF identity = None THEN r.identity \in {<< >>, <<Empty>>}
                     ELSE r.identity = <<identity>>

\* A call is recorded under the identity of the one who opened its stream, and
\* no other stream's connecting, closing or calling changes that (lines 101-105).
RecordedAsItsOpener ==
  config.on => \A a \in audit : SaysIdentity(opener[post[a.post].to], a.identity)

\* With bind_to_session the record names the sender of the message, which came
\* later and on another connection: a call is never recorded against somebody
\* else (handle_messages, lines 340-347).
RecordedAsItsSender ==
  Bound => \A a \in audit : SaysIdentity(post[a.post].from, a.identity)

\* Whatever block is deployed, a request that gets past handle_sse or
\* handle_messages carries the proxy's secret, once, if the block names a proxy
\* header (identity.py lines 11-17); and no record is anonymous if the block
\* requires an identity (lines 19-25).
FailsClosed ==
  block.block = "filled" =>
    /\ block.proxy =>
         /\ \A s \in Issued \cup writers : opener[s].proxy = <<Secret>>
         /\ \A p \in Posts :
              post[p].at \in {"checked", "found", "accepted"} \/ post[p].call # "none" =>
                post[p].from.proxy = <<Secret>>
    /\ block.require => \A a \in audit : a.identity \in Names

\* SESSION_IDENTITY is about the streams of the transport's table and says who
\* opened them, whatever connects and disconnects at the same time (113-157).
TablesAgree ==
  /\ DOMAIN sessionIdentity = writers
  /\ config.on => \A s \in writers : SaysIdentity(opener[s], sessionIdentity[s])

\* The check turns nobody away from a stream of their own: a message refused as
\* naming no session is from somebody else, or its stream is not open any more.
OwnerIsHeard ==
  \A p \in Posts :
    post[p].reply = "404" /\ post[p].to \in Streams =>
      \/ stream[post[p].to] # "open"
      \/ ResolveIdentity(post[p].from, config) # ResolveIdentity(opener[post[p].to], config)

\* Somebody else's session is answered as one that does not exist (370-372).
ForeignLooksUnknown ==
  Bound => \A p, q \in Posts :
    /\ post[p].from = post[q].from
    /\ post[p].reply # "none" /\ post[q].reply # "none"
    /\ post[q].to = Unknown
    /\ post[p].to \in Streams
    /\ ResolveIdentity(post[p].from, config) # ResolveIdentity(opener[post[p].to], config)
    => post[p].reply = post[q].reply

-----------------------------------------------------------------------------
(* The inductive invariant behind RecordedAsItsSender                      *)

\* the configuration in force is the one the block asks for
ConfigIsTheBlocks ==
  /\ server = "serving" => ~Misconfigured(block) /\ config = FromConfig(block)
  /\ server # "serving" =>
       /\ \A s \in Streams : stream[s] = "idle"
       /\ \A p \in Posts : post[p].at = "idle" /\ post[p].call = "none"

\* the context of a stream's task knows who opened it
ContextIsTheOpeners ==
  \A s \in Streams :
    stream[s] \in {"connecting", "open", "ending"} =>
      /\ identityVar[s] = ResolveIdentity(opener[s], config)
      /\ connectingVar[s] = identityVar[s]

OpenedProperly ==
  \A s \in Streams :
    /\ stream[s] = "idle" => s \notin writers
    /\ stream[s] \in {"connecting", "open", "ending", "closed"} =>
         ResolveIdentity(opener[s], config) # Refused
    /\ s \in writers => stream[s] \in {"open", "ending", "closed"}

TableIsTheOpeners ==
  /\ DOMAIN sessionIdentity = writers
  /\ \A s \in writers : sessionIdentity[s] = ResolveIdentity(opener[s], config)

\* the check of a message holds from then on, although the stream may have
\* ended and left the tables, as neither opener nor configuration can change
CheckHolds(p) ==
  post[p].at \in {"checked", "found", "accepted"} \/ post[p].call # "none" =>
    /\ ResolveIdentity(post[p].from, config) # Refused
    /\ Bound => /\ post[p].to \in Issued
                /\ ResolveIdentity(post[p].from, config)
                     = ResolveIdentity(opener[post[p].to], config)

CheckStillHolds == \A p \in Posts : CheckHolds(p)

CallerIsTheOpener ==
  /\ \A p \in Posts :
       /\ post[p].at \in {"found", "accepted"} => post[p].to \in Issued
       /\ post[p].call # "none" =>
            /\ post[p].at = "done"
            /\ post[p].to \in Issued
            /\ post[p].caller = ResolveIdentity(opener[post[p].to], config)
  /\ \A a \in audit : post[a.post].call = "ended" /\ a.identity = post[a.post].caller

IInv ==
  /\ TypeOK
  /\ ConfigIsTheBlocks
  /\ ContextIsTheOpeners
  /\ OpenedProperly
  /\ TableIsTheOpeners
  /\ CheckStillHolds
  /\ CallerIsTheOpener

=============================================================================
