------------------------------ MODULE Identity ------------------------------
(***************************************************************************)
(* cli_mcp/identity.py: which configuration of server.identity is in       *)
(* force, and who a request comes from.                                    *)
(*                                                                         *)
(* A request is reduced to the values of its two headers that matter.      *)
(* Identities are elements of Names, already without surrounding blanks;   *)
(* Empty is the empty string and, in the identity header, any string that  *)
(* is empty once stripped.                                                 *)
(***************************************************************************)
EXTENDS Naturals, Sequences

CONSTANTS
  Names,    \* identities that a proxy can establish
  None,     \* Python's None
  Empty,    \* the empty string
  Secret,   \* the secret shared with the proxy
  Wrong,    \* any other value of the proxy header
  Refused   \* the exception IdentityRefused

ASSUME IdentityAssumption ==
  /\ {None, Empty, Refused} \cap Names = {}
  /\ None # Empty /\ None # Refused /\ Empty # Refused
  /\ {Empty, None, Refused} \cap {Secret, Wrong} = {}
  /\ Secret # Wrong

Requests == [proxy: Seq({Secret, Wrong, Empty}), identity: Seq(Names \cup {Empty})]

(***************************************************************************)
(* The server.identity block of the YAML file and what it refers to.       *)
(*   block    absent, present but empty (null or {}), or filled in         *)
(*   header   its header is not blank                                      *)
(*   proxy    its proxy_header is not blank                                *)
(*   named    its proxy_secret_env is not blank                            *)
(*   environ  the environment variable of that name                        *)
(***************************************************************************)
Blocks ==
  [block: {"absent", "empty", "filled"}, header: BOOLEAN, proxy: BOOLEAN,
   named: BOOLEAN, environ: {None, Empty, Secret}, require: BOOLEAN, bind: BOOLEAN]

Configs ==
  [on: BOOLEAN, proxy: BOOLEAN, secret: {None, Empty, Secret},
   require: BOOLEAN, bind: BOOLEAN]

Off == [on |-> FALSE, proxy |-> FALSE, secret |-> None, require |-> FALSE, bind |-> FALSE]

OrEmpty(v) == IF v = None THEN Empty ELSE v

\* A mutant of Misconfigured: the secret is not looked at.
Misconfigured_SecretMayBeUnset(b) ==
  b.block = "filled" /\ (~b.header \/ (b.proxy /\ ~b.named))

Misconfigured(b) ==
  /\ b.block = "filled"
  /\ \/ ~b.header
     \/ b.proxy /\ ~b.named
     \/ b.proxy /\ OrEmpty(b.environ) = Empty

\* IdentityConfig.from_config, for a block that is not misconfigured
FromConfig(b) ==
  IF b.block # "filled" THEN Off
  ELSE [on |-> TRUE, proxy |-> b.proxy,
        secret |-> IF b.proxy THEN OrEmpty(b.environ) ELSE None,
        require |-> b.require, bind |-> b.bind]

\* A mutant of SoleValue: a repeated header is not refused.
SoleValue_TakesTheFirst(values) == IF values = << >> THEN None ELSE values[1]

SoleValue(values) ==
  IF Len(values) = 0 THEN None
  ELSE IF Len(values) = 1 THEN values[1]
  ELSE Refused

\* the check of the proxy header; a refusal differs from every expected value
ProxyProven(r, c) == c.proxy => OrEmpty(SoleValue(r.proxy)) = OrEmpty(c.secret)

\* A mutant of ResolveIdentity: no identity is recorded as an empty string.
ResolveIdentity_EmptyIsAValue(r, c) ==
  LET identity == OrEmpty(SoleValue(r.identity))
  IN  IF ~c.on THEN None
      ELSE IF ~ProxyProven(r, c) \/ identity = Refused THEN Refused
      ELSE IF identity = Empty /\ c.require THEN Refused ELSE identity

\* resolve_identity: an identity, None, or Refused
ResolveIdentity(r, c) ==
  LET identity == OrEmpty(SoleValue(r.identity))
  IN  IF ~c.on THEN None
      ELSE IF ~ProxyProven(r, c) \/ identity = Refused THEN Refused
      ELSE IF identity # Empty THEN identity
      ELSE IF c.require THEN Refused ELSE None
=============================================================================
