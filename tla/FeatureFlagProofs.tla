-------------------------- MODULE FeatureFlagProofs --------------------------
(***************************************************************************)
(* Theorems about FeatureFlagGuard for every set of routes, keys, values   *)
(* and requests, and every bound on staleness.                             *)
(***************************************************************************)
EXTENDS FeatureFlagGuard, TLAPS

\* A request that asks does so for the flag of its route.
Asks ==
  \A c \in Call : request[c].pc = "asking" =>
    request[c].route \in Route /\ FlagOf[request[c].route] \in Key \ {None}

\* The inductive invariant.
GuardInv == GuardTypeOK /\ Asks

\* What the operator calls off is not enabled, and what he calls on is, with
\* the types in which a row can hold either.
LEMMA OffIsClosed == \A r : Opens(r) => ~ Off(r)
BY DEF Opens, IsEnabled, Truthy, Off

LEMMA OnIsOpen == \A r : On(r) => Opens(r)
BY DEF Opens, IsEnabled, Truthy, On

LEMMA InitGuardInv == GuardInit => GuardInv
<1> SUFFICES ASSUME GuardInit PROVE GuardInv
  OBVIOUS
<1>1. MaxAge \in Nat
  BY FlagStoreAssumption DEF MaxAge
<1>2. StoreTypeOK
  BY <1>1 DEF GuardInit, StoreInit, StoreTypeOK
<1>3. request \in [Call -> RequestState] /\ Asks
  BY DEF GuardInit, NoRequest, RequestState, Asks
<1> QED
  BY <1>2, <1>3 DEF GuardInv, GuardTypeOK

\* An answer of the store leaves it well typed.
LEMMA AnswerTypes ==
  ASSUME StoreTypeOK, NEW c \in Call, NEW a \in Answer \cup {None},
         answer' = [answer EXCEPT ![c] = a], UNCHANGED <<db, age>>
  PROVE  StoreTypeOK' /\ answer'[c] = a
BY DEF StoreTypeOK

LEMMA DecideTypes ==
  ASSUME GuardInv, NEW c \in Call, NEW open \in BOOLEAN, StoreTypeOK',
         request[c].pc = "asking",
         request' = [request EXCEPT ![c].pc = Decision(open)]
  PROVE  GuardInv'
<1>1. request[c] \in RequestState
  BY DEF GuardInv, GuardTypeOK
<1>2. [request[c] EXCEPT !.pc = Decision(open)] \in RequestState
  BY <1>1 DEF RequestState, Decision
<1>3. GuardTypeOK'
  BY <1>2 DEF GuardInv, GuardTypeOK
<1>4. Asks'
  BY <1>1 DEF GuardInv, GuardTypeOK, Asks, RequestState, Decision
<1> QED
  BY <1>3, <1>4 DEF GuardInv

LEMMA NextGuardInv == GuardInv /\ [GuardNext]_guardVars => GuardInv'
<1> SUFFICES ASSUME GuardInv, [GuardNext]_guardVars PROVE GuardInv'
  OBVIOUS
<1>0. StoreTypeOK /\ request \in [Call -> RequestState]
  BY DEF GuardInv, GuardTypeOK
<1>1. ASSUME NEW c \in Call, NEW h \in Route, CanActivate(c, h) PROVE GuardInv'
  <2> DEFINE s == [pc |-> IF FlagOf[h] = None THEN "allowed" ELSE "asking",
                   route |-> h]
  <2>1. request' = [request EXCEPT ![c] = s] /\ UNCHANGED storeVars
    BY <1>1 DEF CanActivate
  <2>2. s \in RequestState
    BY DEF RequestState
  <2>3. GuardTypeOK'
    BY <1>0, <2>1, <2>2 DEF GuardTypeOK, StoreTypeOK, storeVars
  <2>4. FlagOf[h] \in Key \cup {None}
    BY GuardAssumption
  <2>5. Asks'
    BY <1>0, <2>1, <2>4 DEF GuardInv, Asks
  <2> QED
    BY <2>3, <2>5 DEF GuardInv
<1>2. ASSUME NEW c \in Call, NEW r \in Row, Decide(c, r) PROVE GuardInv'
  <2>1. FlagOf[request[c].route] \in Key
    BY <1>2 DEF Decide, GuardInv, Asks
  <2>2. StoreTypeOK'
    BY <1>0, <1>2, <2>1, AnswerTypes DEF Decide, StoreAnswer, Answer
  <2>3. Opens(r) \in BOOLEAN
    BY DEF Opens, IsEnabled, Truthy
  <2> QED
    BY <1>2, <2>2, <2>3, DecideTypes DEF Decide
<1>3. ASSUME NEW c \in Call, DecideOnError(c) PROVE GuardInv'
  <2>1. FlagOf[request[c].route] \in Key
    BY <1>3 DEF DecideOnError, GuardInv, Asks
  <2>2. StoreTypeOK'
    BY <1>0, <1>3, <2>1, AnswerTypes
    DEF DecideOnError, StoreDefault, Answer, Row
  <2>3. Opens(None) \in BOOLEAN
    BY DEF Opens
  <2> QED
    BY <1>3, <2>2, <2>3, DecideTypes DEF DecideOnError
<1>4. ASSUME NEW c \in Call, Finish(c) PROVE GuardInv'
  <2>1. StoreTypeOK'
    BY <1>0, <1>4 DEF Finish, StoreRelease, StoreTypeOK
  <2>2. request' \in [Call -> RequestState] /\ Asks'
    BY <1>0, <1>4 DEF Finish, NoRequest, RequestState, GuardInv, Asks
  <2> QED
    BY <2>1, <2>2 DEF GuardInv, GuardTypeOK
<1>5. ASSUME NEW k \in Key, NEW r \in Row, StoreWrite(k, r), UNCHANGED request
      PROVE  GuardInv'
  <2>1. 0 \in 0..MaxAge
    BY FlagStoreAssumption DEF MaxAge
  <2>2. StoreTypeOK'
    BY <1>0, <1>5, <2>1 DEF StoreWrite, StoreTypeOK
  <2> QED
    BY <1>5, <2>2 DEF GuardInv, GuardTypeOK, Asks
<1>6. ASSUME StoreTick, UNCHANGED request PROVE GuardInv'
  <2>1. \A k \in Key, r \in Row : age[k][r] \in 0..MaxAge
    BY <1>0 DEF StoreTypeOK
  <2>2. age' \in [Key -> [Row -> 0..MaxAge]]
    BY <1>6, <2>1, FlagStoreAssumption DEF StoreTick, MaxAge
  <2>3. StoreTypeOK'
    BY <1>0, <1>6, <2>2 DEF StoreTick, StoreTypeOK
  <2> QED
    BY <1>6, <2>3 DEF GuardInv, GuardTypeOK, Asks
<1>7. CASE UNCHANGED guardVars
  BY <1>7 DEF guardVars, storeVars, GuardInv, GuardTypeOK, StoreTypeOK, Asks
<1>8. ASSUME NEW S \in SUBSET Call, Die(S) PROVE GuardInv'
  <2>1. StoreTypeOK'
    BY <1>0, <1>8 DEF Die, StoreRelease, StoreTypeOK
  <2>2. request' \in [Call -> RequestState] /\ Asks'
    BY <1>0, <1>8 DEF Die, NoRequest, RequestState, GuardInv, Asks
  <2> QED
    BY <2>1, <2>2 DEF GuardInv, GuardTypeOK
<1> QED
  BY <1>1, <1>2, <1>3, <1>4, <1>5, <1>6, <1>7, <1>8 DEF GuardNext

\* The inductive invariant holds in every reachable state.
THEOREM GuardInvariant == GuardSpec => []GuardInv
BY InitGuardInv, NextGuardInv, PTL DEF GuardSpec

\* Type correctness of the guard and of the store under it.
THEOREM GuardTypeCorrect == GuardSpec => []GuardTypeOK
<1>1. GuardInv => GuardTypeOK
  BY DEF GuardInv
<1> QED
  BY <1>1, GuardInvariant, PTL

-----------------------------------------------------------------------------

\* A request is decided by Decide or by DecideOnError alone.
LEMMA WhoDecides ==
  ASSUME GuardInv, [GuardNext]_guardVars, NEW c \in Call,
         request[c].pc = "asking", request'[c].pc \in {"allowed", "denied"}
  PROVE  (\E r \in Row : Decide(c, r)) \/ DecideOnError(c)
<1>0. request \in [Call -> RequestState]
  BY DEF GuardInv, GuardTypeOK
<1>1. request'[c] # request[c]
  OBVIOUS
<1>2. ASSUME NEW d \in Call, d # c,
             \/ \E h \in Route : CanActivate(d, h)
             \/ \E r \in Row : Decide(d, r)
             \/ DecideOnError(d) \/ Finish(d)
      PROVE  FALSE
  BY <1>0, <1>1, <1>2 DEF CanActivate, Decide, DecideOnError, Finish
<1>3. ASSUME (\E h \in Route : CanActivate(c, h)) \/ Finish(c) PROVE FALSE
  BY <1>3 DEF CanActivate, Finish
<1>4. ASSUME NEW S \in SUBSET Call, Die(S) PROVE FALSE
  BY <1>1, <1>4 DEF Die, NoRequest
<1> QED
  BY <1>1, <1>2, <1>3, <1>4 DEF GuardNext, guardVars

\* A flag that has been off for longer than the bound stops every request,
\* while the table can be read.
THEOREM KillSwitchWorks == GuardSpec => KillSwitch
<1>1. GuardInv /\ [GuardNext]_guardVars =>
        [\A c \in Call : Allows(c) =>
           \/ answer'[c].failed
           \/ \E r \in Recent(FlagOf[request[c].route]) : ~ Off(r)]_guardVars
  <2> SUFFICES ASSUME GuardInv, [GuardNext]_guardVars, NEW c \in Call, Allows(c)
               PROVE  \/ answer'[c].failed
                      \/ \E r \in Recent(FlagOf[request[c].route]) : ~ Off(r)
    OBVIOUS
  <2>0. request \in [Call -> RequestState] /\ StoreTypeOK
    BY DEF GuardInv, GuardTypeOK
  <2>1. ASSUME NEW r \in Row, Decide(c, r)
        PROVE  \E s \in Recent(FlagOf[request[c].route]) : ~ Off(s)
    <3>1. Opens(r)
      BY <2>0, <2>1 DEF Allows, Decide, Decision
    <3> QED
      BY <2>1, <3>1, OffIsClosed DEF Decide, StoreAnswer, Recent
  <2>2. ASSUME DecideOnError(c) PROVE answer'[c].failed
    BY <2>0, <2>2 DEF DecideOnError, StoreDefault, StoreTypeOK
  <2> QED
    BY <2>1, <2>2, WhoDecides DEF Allows
<1> QED
  BY <1>1, GuardInvariant, PTL DEF GuardSpec, KillSwitch

\* A flag that is absent or on never blocks, and neither does a table that
\* cannot be read.
THEOREM RefusalsAreAlwaysMeant == GuardSpec => RefusalsAreMeant
<1>1. GuardInv /\ [GuardNext]_guardVars =>
        [\A c \in Call : Denies(c) =>
           /\ FlagOf[request[c].route] # None
           /\ ~ answer'[c].failed
           /\ \E r \in Recent(FlagOf[request[c].route]) : ~ On(r)]_guardVars
  <2> SUFFICES ASSUME GuardInv, [GuardNext]_guardVars, NEW c \in Call, Denies(c)
               PROVE  /\ FlagOf[request[c].route] # None
                      /\ ~ answer'[c].failed
                      /\ \E r \in Recent(FlagOf[request[c].route]) : ~ On(r)
    OBVIOUS
  <2>0. request \in [Call -> RequestState] /\ StoreTypeOK
    BY DEF GuardInv, GuardTypeOK
  <2>1. FlagOf[request[c].route] # None
    BY DEF Denies, GuardInv, Asks
  <2>2. ~ DecideOnError(c)
    <3>1. Decision(Opens(None)) = "allowed"
      BY DEF Decision, Opens
    <3> QED
      BY <2>0, <3>1 DEF Denies, DecideOnError, RequestState
  <2>3. ASSUME NEW r \in Row, Decide(c, r)
        PROVE  /\ ~ answer'[c].failed
               /\ \E s \in Recent(FlagOf[request[c].route]) : ~ On(s)
    <3>1. ~ Opens(r)
      BY <2>0, <2>3 DEF Denies, Decide, Decision
    <3>2. ~ answer'[c].failed
      BY <2>0, <2>3 DEF Decide, StoreAnswer, StoreTypeOK
    <3> QED
      BY <2>3, <3>1, <3>2, OnIsOpen DEF Decide, StoreAnswer, Recent
  <2> QED
    BY <2>1, <2>2, <2>3, WhoDecides DEF Denies
<1> QED
  BY <1>1, GuardInvariant, PTL DEF GuardSpec, RefusalsAreMeant
=============================================================================
