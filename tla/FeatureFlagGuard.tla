-------------------------- MODULE FeatureFlagGuard --------------------------
(***************************************************************************)
(* FeatureFlagGuard.canActivate() and SystemConfigService.isEnabled(), over*)
(* the store that SystemConfigService implements (FlagStore): requests to  *)
(* flagged and unflagged routes while flags change and the table fails.    *)
(***************************************************************************)
EXTENDS FlagStore

CONSTANTS
  Route,    \* handlers
  FlagOf    \* FlagOf[h]: the key of @FeatureFlag on h or its class, or None

\* JSON values, as their type and the text that tells them apart here.
ASSUME GuardAssumption ==
  /\ FlagOf \in [Route -> Key \cup {None}]
  /\ \A v \in Value : v.type \in {"boolean", "string", "number", "null", "object"}

VARIABLE request  \* request[c]: the request whose guard makes call c

guardVars == <<storeVars, request>>

NoRequest == [pc |-> "idle", route |-> None]
RequestState ==
  [pc : {"idle", "asking", "allowed", "denied"}, route : Route \cup {None}]

GuardTypeOK == StoreTypeOK /\ request \in [Call -> RequestState]

\* Boolean(v)
Truthy(v) ==
  CASE v.type = "boolean" -> v.text = "true"
    [] v.type = "string"  -> v.text # ""
    [] v.type = "number"  -> v.text # "0"
    [] OTHER              -> v.type = "object"

IsEnabled_BooleansOnly(v) == Truthy(v)

\* Booleans stand for themselves, and so do their names stored as strings.
IsEnabled(v) ==
  IF v.type = "string" /\ v.text \in {"true", "false"}
  THEN v.text = "true"
  ELSE Truthy(v)

Opens_OnlyWhenSet(r) == r # None /\ IsEnabled(r)

\* The guard asks with the default true: no row, no block.
Opens(r) == r = None \/ IsEnabled(r)

Decision(open) == IF open THEN "allowed" ELSE "denied"

GuardInit == StoreInit /\ request = [c \in Call |-> NoRequest]

CanActivate(c, h) ==
  /\ request[c].pc = "idle"
  /\ request' = [request EXCEPT ![c] =
       [pc |-> IF FlagOf[h] = None THEN "allowed" ELSE "asking", route |-> h]]
  /\ UNCHANGED storeVars

\* get() answers with a row, and the guard goes on at once.
Decide(c, r) ==
  /\ request[c].pc = "asking"
  /\ StoreAnswer(c, FlagOf[request[c].route], r)
  /\ request' = [request EXCEPT ![c].pc = Decision(Opens(r))]

\* get() caught an error of the table and answers with the default.
DecideOnError(c) ==
  /\ request[c].pc = "asking"
  /\ StoreDefault(c, FlagOf[request[c].route])
  /\ request' = [request EXCEPT ![c].pc = Decision(Opens(None))]

Finish(c) ==
  /\ request[c].pc \in {"allowed", "denied"}
  /\ StoreRelease({c})
  /\ request' = [request EXCEPT ![c] = NoRequest]

\* The process that serves the requests in S crashes or is redeployed.
Die(S) ==
  /\ StoreRelease(S)
  /\ request' = [c \in Call |-> IF c \in S THEN NoRequest ELSE request[c]]

GuardNext ==
  \/ \E c \in Call, h \in Route : CanActivate(c, h)
  \/ \E c \in Call, r \in Row : Decide(c, r)
  \/ \E c \in Call : DecideOnError(c) \/ Finish(c)
  \/ \E S \in SUBSET Call : Die(S)
  \/ \E k \in Key, r \in Row : StoreWrite(k, r) /\ UNCHANGED request
  \/ StoreTick /\ UNCHANGED request

GuardSpec == GuardInit /\ [][GuardNext]_guardVars

-----------------------------------------------------------------------------

\* The rows the table held in the last StaleBound ticks.
Recent(k) == {r \in Row : age[k][r] <= StaleBound}

\* The values an operator may leave in a flag to mean "off": what docs and
\* code agree on, read from FEATURE-FLAGS.md and the comments of isEnabled().
Off(r) == r # None /\ r.type \in {"boolean", "string"} /\ r.text = "false"
On(r) == r = None \/ (r.type \in {"boolean", "string"} /\ r.text = "true")

Denies(c) == request[c].pc = "asking" /\ request'[c].pc = "denied"
Allows(c) == request[c].pc = "asking" /\ request'[c].pc = "allowed"

\* Action property, the kill switch: a request to a flagged route whose row
\* has been off for longer than the caches can hide is refused, as long as
\* the table can be read.
KillSwitch ==
  [][\A c \in Call : Allows(c) =>
       \/ answer'[c].failed
       \/ \E r \in Recent(FlagOf[request[c].route]) : ~ Off(r)]_guardVars

\* Action property, "missing flags never block": a request is refused only
\* if its route has a flag whose row was lately neither absent nor on.  A
\* table that cannot be read refuses nobody.
RefusalsAreMeant ==
  [][\A c \in Call : Denies(c) =>
       /\ FlagOf[request[c].route] # None
       /\ ~ answer'[c].failed
       /\ \E r \in Recent(FlagOf[request[c].route]) : ~ On(r)]_guardVars
=============================================================================
