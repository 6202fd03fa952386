--------------------------- MODULE LifecycleProofs ---------------------------
(***************************************************************************)
(* Theorems about Lifecycle for every set of requests, tokens and          *)
(* deployments, and about the logouts it serves.  What is proved of Logout *)
(* alone holds in the process that starts and stops around it, because     *)
(* every step of Lifecycle is a step of Logout or leaves its variables     *)
(* alone.                                                                  *)
(***************************************************************************)
EXTENDS Lifecycle, TLAPS

-----------------------------------------------------------------------------
(* Logouts *)

\* Active(t), of the row of t and the time.
ActiveRow(row, time) ==
  row.stored /\ row.revokedAt = None /\ row.expiresAt > time

\* Once a request is answered without an error, its token is active no more,
\* and stays so.
Ended ==
  \A r \in Request :
    /\ logouts[r].pc \in {"find", "revoke"} => logouts[r].token \in Token
    /\ logouts[r].pc = "replied" /\ ~ logouts[r].failed
         /\ logouts[r].token \in Token => ~ ActiveRow(tokens[logouts[r].token], now)

\* The inductive invariant.
LogoutInv == TypeOK /\ Ended /\ CookiesAreCleared

LEMMA InitLogoutInv == Init => LogoutInv
<1> SUFFICES ASSUME Init PROVE LogoutInv
  OBVIOUS
<1>1. NoLogout \in LogoutState
  BY DEF NoLogout, LogoutState, Pc
<1>2. now \in Time
  BY LogoutAssumption DEF Init, Time
<1>3. tokens \in [Token -> Row]
  BY DEF Init, Row, Reason
<1>4. TypeOK
  BY <1>1, <1>2, <1>3 DEF Init, TypeOK
<1>5. Ended /\ CookiesAreCleared
  BY DEF Init, NoLogout, Ended, CookiesAreCleared
<1> QED
  BY <1>4, <1>5 DEF LogoutInv

-----------------------------------------------------------------------------

\* A revocation leaves a table of rows, ends the token, and touches no row
\* that was revoked before.
LEMMA RevokedRows ==
  ASSUME TypeOK, NEW t \in Token, NEW reason \in Reason,
         tokens' = Revoked(t, reason), now' = now
  PROVE  /\ tokens' \in [Token -> Row]
         /\ ~ ActiveRow(tokens'[t], now')
         /\ \A u \in Token : ActiveRow(tokens'[u], now') => ActiveRow(tokens[u], now)
<1>1. tokens \in [Token -> Row] /\ now \in Time /\ now # None
  BY LogoutAssumption DEF TypeOK, Time
<1>2. CASE Revocable(t)
  <2>1. tokens' = [tokens EXCEPT ![t].revokedAt = now, ![t].reason = reason]
    BY <1>2 DEF Revoked
  <2>2. [tokens[t] EXCEPT !.revokedAt = now, !.reason = reason] \in Row
    BY <1>1 DEF Row
  <2>3. tokens' \in [Token -> Row]
    BY <1>1, <2>1, <2>2
  <2>4. tokens'[t].revokedAt = now /\ \A u \in Token \ {t} : tokens'[u] = tokens[u]
    BY <1>1, <2>1 DEF Row
  <2> QED
    BY <1>1, <2>3, <2>4 DEF ActiveRow
<1>3. CASE ~ Revocable(t)
  BY <1>1, <1>3 DEF Revoked, Revocable, ActiveRow
<1> QED
  BY <1>2, <1>3

\* A request moves to s; tokens that are not active stay so.
LEMMA MoveLogoutInv ==
  ASSUME LogoutInv, NEW r \in Request, NEW s \in LogoutState,
         logouts' = [logouts EXCEPT ![r] = s],
         now' \in Time, tokens' \in [Token -> Row],
         \A t \in Token : ActiveRow(tokens'[t], now') => ActiveRow(tokens[t], now),
         s.pc \in {"find", "revoke"} => s.token \in Token,
         s.pc = "replied" /\ ~ s.failed /\ s.token \in Token
           => ~ ActiveRow(tokens'[s.token], now'),
         s.pc = "replied" => (s.cleared <=> s.token # Unreadable)
  PROVE  LogoutInv'
<1> USE DEF LogoutInv
<1>1. TypeOK'
  BY DEF TypeOK
<1>2. logouts'[r] = s /\ \A q \in Request \ {r} : logouts'[q] = logouts[q]
  BY DEF TypeOK
<1>3. ASSUME NEW q \in Request
      PROVE  /\ logouts'[q].pc \in {"find", "revoke"} => logouts'[q].token \in Token
             /\ logouts'[q].pc = "replied" /\ ~ logouts'[q].failed
                  /\ logouts'[q].token \in Token
                => ~ ActiveRow(tokens'[logouts'[q].token], now')
  <2>1. CASE q = r
    BY <1>2, <2>1
  <2>2. CASE q # r
    <3>1. logouts'[q] = logouts[q] /\ logouts[q].token \in Token \cup {None, Unreadable}
      BY <1>2, <2>2 DEF TypeOK, LogoutState
    <3> QED
      BY <3>1 DEF Ended
  <2> QED
    BY <2>1, <2>2
<1>4. Ended'
  BY <1>3 DEF Ended
<1>5. CookiesAreCleared'
  BY <1>2 DEF CookiesAreCleared
<1> QED
  BY <1>1, <1>4, <1>5

\* Requests that die, or none, and tokens that are not active staying so.
LEMMA OthersLogoutInv ==
  ASSUME LogoutInv, logouts' \in [Request -> LogoutState],
         \A r \in Request : logouts'[r] \in {logouts[r], NoLogout},
         now' \in Time, tokens' \in [Token -> Row],
         \A t \in Token : ActiveRow(tokens'[t], now') => ActiveRow(tokens[t], now)
  PROVE  LogoutInv'
<1> USE DEF LogoutInv
<1>1. NoLogout.pc = "idle"
  BY DEF NoLogout
<1>2. TypeOK'
  BY DEF TypeOK
<1>3. \A q \in Request : logouts'[q].pc # "idle" =>
        logouts'[q] = logouts[q] /\ logouts[q].token \in Token \cup {None, Unreadable}
  BY <1>1 DEF TypeOK, LogoutState
<1>4. ASSUME NEW q \in Request
      PROVE  /\ logouts'[q].pc \in {"find", "revoke"} => logouts'[q].token \in Token
             /\ logouts'[q].pc = "replied" /\ ~ logouts'[q].failed
                  /\ logouts'[q].token \in Token
                => ~ ActiveRow(tokens'[logouts'[q].token], now')
  BY <1>3 DEF Ended
<1>5. Ended'
  BY <1>4 DEF Ended
<1>6. CookiesAreCleared'
  BY <1>3 DEF CookiesAreCleared
<1> QED
  BY <1>2, <1>5, <1>6

-----------------------------------------------------------------------------

\* The last thing a logout does.
LEMMA ClearedState ==
  ASSUME NEW s \in LogoutState
  PROVE  /\ ClearCookies(s) \in LogoutState
         /\ ClearCookies(s).pc = "replied" /\ ClearCookies(s).cleared
         /\ ClearCookies(s).token = s.token /\ ClearCookies(s).failed = s.failed
BY DEF ClearCookies, LogoutState, Pc

LEMMA LogoutStepInv ==
  ASSUME LogoutInv, NEW r \in Request, LogoutStep(r)
  PROVE  LogoutInv'
<1> DEFINE old == logouts[r]
           new == ClearCookies(old)
<1>0. /\ old \in LogoutState /\ now \in Time /\ tokens \in [Token -> Row]
      /\ old.pc \in {"find", "revoke"} => old.token \in Token /\ old.token # Unreadable
  BY LogoutAssumption DEF LogoutInv, TypeOK, Ended
<1>n. /\ new \in LogoutState /\ new.pc = "replied" /\ new.cleared
      /\ new.token = old.token
  BY <1>0, ClearedState
<1> HIDE DEF new
<1>1. CASE FindActive(r)
  <2>1. UNCHANGED <<now, tokens>> /\ old.token \in Token /\ old.token # Unreadable
    BY <1>0, <1>1 DEF FindActive
  <2>2. \A t \in Token : ActiveRow(tokens'[t], now') <=> ActiveRow(tokens[t], now)
    BY <2>1 DEF ActiveRow
  <2>3. CASE ActiveRow(tokens[old.token], now)
    <3> DEFINE s == [old EXCEPT !.pc = "revoke"]
    <3>1. logouts' = [logouts EXCEPT ![r] = s]
      BY <1>1, <2>3 DEF FindActive, Active, ActiveRow
    <3>2. s \in LogoutState /\ s.token = old.token /\ s.pc = "revoke"
      BY <1>0 DEF LogoutState, Pc
    <3> HIDE DEF s
    <3> QED
      BY <1>0, <2>1, <2>2, <3>1, <3>2, MoveLogoutInv
  <2>4. CASE ~ ActiveRow(tokens[old.token], now)
    <3>1. logouts' = [logouts EXCEPT ![r] = new]
      BY <1>1, <2>4 DEF FindActive, Active, ActiveRow, new
    <3> QED
      BY <1>0, <1>n, <2>1, <2>2, <2>4, <3>1, MoveLogoutInv
  <2> QED
    BY <2>3, <2>4
<1>2. CASE Revoke(r)
  <2>1. /\ logouts' = [logouts EXCEPT ![r] = new] /\ now' = now
        /\ tokens' = Revoked(old.token, "logout")
    BY <1>2 DEF Revoke, new
  <2>2. old.token \in Token /\ old.token # Unreadable
    BY <1>0, <1>2 DEF Revoke
  <2>3. /\ tokens' \in [Token -> Row] /\ ~ ActiveRow(tokens'[old.token], now')
        /\ \A t \in Token : ActiveRow(tokens'[t], now') => ActiveRow(tokens[t], now)
    BY <2>1, <2>2, RevokedRows DEF LogoutInv, Reason
  <2> QED
    BY <1>0, <1>n, <2>1, <2>2, <2>3, MoveLogoutInv
<1>3. CASE DbFails(r)
  <2> DEFINE s == [old EXCEPT !.failed = TRUE]
             t == ClearCookies(s)
  <2>1. logouts' = [logouts EXCEPT ![r] = t] /\ now' = now
    BY <1>3 DEF DbFails
  <2>2. old.token \in Token /\ old.token # Unreadable
    BY <1>0, <1>3 DEF DbFails
  <2>3. s \in LogoutState /\ s.token = old.token /\ s.failed
    BY <1>0 DEF LogoutState
  <2> HIDE DEF s
  <2>4. /\ t \in LogoutState /\ t.pc = "replied" /\ t.failed /\ t.cleared
        /\ t.token = old.token
    BY <2>3, ClearedState
  <2>5. /\ tokens' \in [Token -> Row]
        /\ \A u \in Token : ActiveRow(tokens'[u], now') => ActiveRow(tokens[u], now)
    <3>1. CASE UNCHANGED tokens
      BY <1>0, <2>1, <3>1 DEF ActiveRow
    <3>2. CASE tokens' = Revoked(old.token, "logout")
      BY <2>1, <2>2, <3>2, RevokedRows DEF LogoutInv, Reason
    <3> QED
      BY <1>3, <3>1, <3>2 DEF DbFails
  <2> HIDE DEF t
  <2> QED
    BY <1>0, <2>1, <2>2, <2>4, <2>5, MoveLogoutInv
<1>4. CASE Finish(r)
  <2>1. NoLogout \in LogoutState /\ NoLogout.pc = "idle"
    BY DEF NoLogout, LogoutState, Pc
  <2>2. \A t \in Token : ActiveRow(tokens'[t], now') <=> ActiveRow(tokens[t], now)
    BY <1>4 DEF Finish, ActiveRow
  <2> QED
    BY <1>0, <1>4, <2>1, <2>2, MoveLogoutInv DEF Finish
<1> QED
  BY <1>1, <1>2, <1>3, <1>4 DEF LogoutStep

LEMMA NextLogoutInv == LogoutInv /\ [Next]_vars => LogoutInv'
<1> SUFFICES ASSUME LogoutInv, [Next]_vars PROVE LogoutInv'
  OBVIOUS
<1>0. /\ now \in Time /\ tokens \in [Token -> Row]
      /\ logouts \in [Request -> LogoutState]
  BY DEF LogoutInv, TypeOK
<1>s. ASSUME UNCHANGED <<now, tokens>>
      PROVE  \A t \in Token \cup {None} :
               ActiveRow(tokens'[t], now') <=> ActiveRow(tokens[t], now)
  BY <1>s DEF ActiveRow
<1>1. ASSUME NEW r \in Request, Arrives(r) PROVE LogoutInv'
  <2>0. /\ NoLogout \in LogoutState /\ NoLogout.token = None /\ NoLogout.pc = "idle"
        /\ None \notin Token /\ Unreadable \notin Token /\ None # Unreadable
    BY LogoutAssumption DEF NoLogout, LogoutState, Pc
  <2>1. CASE LogoutThrows(r)
    <3> DEFINE s == [NoLogout EXCEPT !.pc = "replied", !.token = Unreadable]
    <3>1. logouts' = [logouts EXCEPT ![r] = s] /\ UNCHANGED <<now, tokens>>
      BY <2>1 DEF LogoutThrows
    <3>2. /\ s \in LogoutState /\ s.pc = "replied" /\ s.token = Unreadable
          /\ ~ s.cleared
      BY DEF NoLogout, LogoutState, Pc
    <3> HIDE DEF s
    <3> QED
      BY <1>0, <1>s, <2>0, <3>1, <3>2, MoveLogoutInv
  <2>2. CASE Logout(r, None)
    <3> DEFINE s == ClearCookies(NoLogout)
    <3>1. logouts' = [logouts EXCEPT ![r] = s] /\ UNCHANGED <<now, tokens>>
      BY <2>2 DEF Logout
    <3>2. s \in LogoutState /\ s.pc = "replied" /\ s.token = None /\ s.cleared
      BY <2>0, ClearedState
    <3> HIDE DEF s
    <3> QED
      BY <1>0, <1>s, <2>0, <3>1, <3>2, MoveLogoutInv
  <2>3. ASSUME NEW c \in Token, Logout(r, c) PROVE LogoutInv'
    <3> DEFINE s == [NoLogout EXCEPT !.pc = "find", !.token = c]
    <3>1. logouts' = [logouts EXCEPT ![r] = s] /\ UNCHANGED <<now, tokens>>
      BY <2>0, <2>3 DEF Logout
    <3>2. s \in LogoutState /\ s.pc = "find" /\ s.token = c
      BY DEF NoLogout, LogoutState, Pc
    <3> HIDE DEF s
    <3> QED
      BY <1>0, <1>s, <3>1, <3>2, MoveLogoutInv
  <2> QED
    BY <1>1, <2>1, <2>2, <2>3 DEF Arrives
<1>2. ASSUME NEW R \in SUBSET Request, Crash(R) PROVE LogoutInv'
  <2>1. NoLogout \in LogoutState
    BY DEF NoLogout, LogoutState, Pc
  <2>2. /\ logouts' \in [Request -> LogoutState]
        /\ \A r \in Request : logouts'[r] \in {logouts[r], NoLogout}
    BY <1>0, <1>2, <2>1 DEF Crash
  <2>3. UNCHANGED <<now, tokens>>
    BY <1>2 DEF Crash
  <2> QED
    BY <1>0, <1>s, <2>2, <2>3, OthersLogoutInv
<1>3. ASSUME NEW t \in Token, NEW reason \in {"rotation", "admin"},
             RevokeElsewhere(t, reason)
      PROVE  LogoutInv'
  <2>1. tokens' = Revoked(t, reason) /\ UNCHANGED <<now, logouts>>
    BY <1>3 DEF RevokeElsewhere
  <2>2. /\ tokens' \in [Token -> Row]
        /\ \A u \in Token : ActiveRow(tokens'[u], now') => ActiveRow(tokens[u], now)
    BY <2>1, RevokedRows DEF LogoutInv, Reason
  <2> QED
    BY <1>0, <2>1, <2>2, OthersLogoutInv
<1>4. CASE Tick
  <2>1. now' \in Time /\ now' = now + 1 /\ UNCHANGED <<tokens, logouts>>
    BY <1>0, <1>4, LogoutAssumption DEF Tick, Time
  <2>2. \A t \in Token : ActiveRow(tokens'[t], now') => ActiveRow(tokens[t], now)
    BY <1>0, <2>1, LogoutAssumption DEF ActiveRow, Row, Time
  <2> QED
    BY <1>0, <2>1, <2>2, OthersLogoutInv
<1>5. CASE UNCHANGED vars
  BY <1>0, <1>s, <1>5, OthersLogoutInv DEF vars
<1> QED
  BY <1>1, <1>2, <1>3, <1>4, <1>5, LogoutStepInv DEF Next

\* The inductive invariant holds in every reachable state.
THEOREM LogoutInvariant == Spec => []LogoutInv
BY InitLogoutInv, NextLogoutInv, PTL DEF Spec

\* No step writes the record of a revocation a second time.
LEMMA RevocationStep ==
  ASSUME LogoutInv, [Next]_vars, NEW t \in Token, tokens[t].revokedAt # None
  PROVE  /\ tokens'[t].revokedAt = tokens[t].revokedAt
         /\ tokens'[t].reason = tokens[t].reason
<1>1. ASSUME NEW u, NEW reason, tokens' = Revoked(u, reason)
      PROVE  tokens'[t] = tokens[t]
  BY <1>1 DEF Revoked, Revocable, LogoutInv, TypeOK
<1>2. CASE UNCHANGED tokens
  BY <1>2
<1> QED
  BY <1>1, <1>2 DEF Next, Arrives, Logout, LogoutThrows, LogoutStep, FindActive,
     Revoke, DbFails, Finish, Crash, RevokeElsewhere, Tick, vars

LEMMA EndedIsEnough ==
  LogoutInv => TypeOK /\ LogoutEndsSession /\ CookiesAreCleared
<1> SUFFICES ASSUME LogoutInv PROVE LogoutEndsSession
  BY DEF LogoutInv
<1> QED
  BY DEF LogoutInv, Ended, LogoutEndsSession, Active, ActiveRow

-----------------------------------------------------------------------------
(* The process around them *)

\* What was read from the environment, and when.
ReadOnce ==
  /\ phase # "down" => captured.guard = OnPlatform("SUPABASE_JWT_SECRET")
  /\ phase \notin {"down", "imported", "created"} =>
       captured.board = Defined("SUPABASE_JWT_SECRET")

\* A module is destroyed after its importers, one at a time, and only in a
\* stop.
InOrder ==
  /\ \A m \in destroyed : Importers(m) \subseteq destroyed
  /\ hook # None => /\ phase = "destroying" /\ hook \notin destroyed
                    /\ Importers(hook) \subseteq destroyed
  /\ phase \notin {"destroying", "closing"} => destroyed = {}
  /\ phase = "closing" => destroyed = Module

\* Only a worker has jobs, it is there from the init hooks on, and these run
\* in a stop only when the signal was early; if it was not, the worker is
\* closing with the hook of its module, and is no more when that has resolved.
WorkerInOrder ==
  /\ job => worker \in {"runs", "closing"}
  /\ listen # "none" => phase \in {"running", "destroying", "closing"}
  /\ phase \in {"destroying", "closing"} /\ listen = "connecting" => early
  /\ ~ early /\ hook = "queues" => worker # "runs"
  /\ ~ early /\ "queues" \in destroyed => worker \in {"none", "closed"}

\* The inductive invariant.
LInv == LTypeOK /\ ReadOnce /\ InOrder /\ WorkerInOrder

LEMMA InitLInv == LInit => LInv
<1> SUFFICES ASSUME LInit PROVE LInv
  OBVIOUS
<1>1. TypeOK
  BY InitLogoutInv DEF LInit, LogoutInv
<1>2. LTypeOK
  BY <1>1 DEF LInit, LTypeOK, Phase, ListenState, WorkerState, Captured, NothingRead
<1>3. ReadOnce /\ InOrder /\ WorkerInOrder
  BY DEF LInit, ReadOnce, InOrder, WorkerInOrder
<1> QED
  BY <1>2, <1>3 DEF LInv

-----------------------------------------------------------------------------
(* Every step is one of Logout, or a stutter *)

LEMMA LogoutOrStutter == [LNext]_lvars => [Next]_vars
<1> SUFFICES ASSUME [LNext]_lvars PROVE [Next]_vars
  OBVIOUS
<1>1. ASSUME NEW r \in Request, Serve(r) PROVE Next
  BY <1>1 DEF Serve, Query, Reply, Next, LogoutStep
<1>2. ASSUME NEW r \in Request, Accept(r) PROVE Next
  BY <1>2 DEF Accept, Next
<1>3. ASSUME Crash(Request) PROVE Next
  BY <1>3 DEF Next
<1>4. CASE Elsewhere
  BY <1>4 DEF Elsewhere, Next
<1>5. CASE Import \/ StartStep \/ TakeJob \/ JobEnds \/ Signal \/ StopStep
  BY <1>5 DEF Import, StartStep, CreateApp, Configure, Connected, Listen,
     StartFails, TakeJob, JobEnds, Signal, StopStep, CallHook, HookResolves, CloseServer,
     Exit
<1>6. CASE UNCHANGED lvars
  BY <1>6 DEF lvars
<1> QED
  BY <1>1, <1>2, <1>3, <1>4, <1>5, <1>6 DEF LNext, HookRejects, Kill

\* The process refines the logouts it serves.
THEOREM LogoutsInAProcess == LSpec => Spec
<1>1. LInit => Init
  BY DEF LInit
<1> QED
  BY <1>1, LogoutOrStutter, PTL DEF LSpec, Spec

-----------------------------------------------------------------------------
(* The process itself *)

LEMMA ProcessStep ==
  ASSUME LInv, [LNext]_lvars, TypeOK'
  PROVE  LInv'
<1> USE DEF LInv
<1>0. /\ where \in Deployments /\ captured \in Captured /\ phase \in Phase
      /\ listen \in ListenState /\ worker \in WorkerState /\ job \in BOOLEAN
      /\ early \in BOOLEAN /\ destroyed \subseteq Module /\ hook \in Module \cup {None}
  BY DEF LTypeOK
<1>b. \A v \in Variable : OnPlatform(v) \in BOOLEAN /\ Defined(v) \in BOOLEAN
  BY DEF OnPlatform, Defined
<1>s. "SUPABASE_JWT_SECRET" \in Variable /\ "SENTRY_DSN" \in Variable
  BY DEF Variable
<1>1. CASE UNCHANGED process
  <2>1. LTypeOK'
    BY <1>0, <1>1 DEF LTypeOK, process, environment, stop
  <2>2. ReadOnce' /\ InOrder' /\ WorkerInOrder'
    BY <1>1 DEF ReadOnce, InOrder, WorkerInOrder, process, environment, stop,
       OnPlatform, Defined
  <2> QED
    BY <2>1, <2>2
<1>2. CASE Die
  <2>1. LTypeOK'
    BY <1>0, <1>2 DEF Die, LTypeOK, Phase, ListenState, WorkerState, Captured,
       NothingRead
  <2>2. ReadOnce' /\ InOrder' /\ WorkerInOrder'
    BY <1>2 DEF Die, ReadOnce, InOrder, WorkerInOrder
  <2> QED
    BY <2>1, <2>2
<1>3. CASE Import
  <2>1. captured' \in Captured /\ captured'.guard = OnPlatform("SUPABASE_JWT_SECRET")
    BY <1>3, <1>b, <1>s DEF Import, Captured, NothingRead
  <2>2. LTypeOK'
    BY <1>0, <1>3, <2>1 DEF Import, LTypeOK, Phase, stop
  <2>3. ReadOnce'
    BY <1>3, <2>1 DEF Import, ReadOnce, OnPlatform
  <2>4. InOrder' /\ WorkerInOrder'
    BY <1>3 DEF Import, InOrder, WorkerInOrder, stop
  <2> QED
    BY <2>2, <2>3, <2>4
<1>4. ASSUME CreateApp, ~ Die PROVE LInv'
  <2>1. /\ phase = "imported" /\ phase' = "created"
        /\ UNCHANGED <<where, captured, listen, worker, job, early, destroyed, hook>>
    BY <1>4 DEF CreateApp, environment, stop
  <2>2. LTypeOK'
    BY <1>0, <2>1 DEF LTypeOK, Phase
  <2>3. ReadOnce'
    BY <2>1 DEF ReadOnce, OnPlatform
  <2>4. InOrder' /\ WorkerInOrder'
    BY <2>1 DEF InOrder, WorkerInOrder
  <2> QED
    BY <2>2, <2>3, <2>4
<1>5. CASE Configure
  <2>1. /\ captured' \in Captured /\ captured'.guard = captured.guard
        /\ captured'.board = Defined("SUPABASE_JWT_SECRET")
    BY <1>0, <1>5, <1>b, <1>s DEF Configure, Captured
  <2>2. LTypeOK'
    BY <1>0, <1>5, <2>1 DEF Configure, LTypeOK, Phase, ListenState, stop
  <2>3. ReadOnce'
    BY <1>5, <2>1 DEF Configure, ReadOnce, OnPlatform, Defined
  <2>4. InOrder' /\ WorkerInOrder'
    BY <1>5 DEF Configure, InOrder, WorkerInOrder, stop
  <2> QED
    BY <2>2, <2>3, <2>4
<1>6. ASSUME Connected \/ Listen \/ StartFails, ~ Die PROVE LInv'
  <2>1. /\ UNCHANGED <<where, captured, phase, job, early, destroyed, hook>>
        /\ listen' \in {"binding", "up", "failed"} /\ listen # "none"
        /\ \/ listen = "connecting" /\ worker' = "runs"
           \/ worker' = worker
    BY <1>6 DEF Connected, Listen, StartFails, environment, stop
  <2>2. LTypeOK'
    BY <1>0, <2>1 DEF LTypeOK, ListenState, WorkerState
  <2>3. ReadOnce' /\ InOrder'
    BY <2>1 DEF ReadOnce, InOrder, OnPlatform, Defined
  <2>4. WorkerInOrder'
    <3>1. phase \in {"running", "destroying", "closing"}
      BY <2>1 DEF WorkerInOrder
    <3>2. ASSUME listen = "connecting", ~ early
          PROVE  hook = None /\ destroyed = {}
      BY <1>0, <3>1, <3>2 DEF WorkerInOrder, InOrder
    <3>3. hook = None => hook # "queues"
      BY LifecycleAssumption DEF Module
    <3> QED
      BY <2>1, <3>1, <3>2, <3>3 DEF WorkerInOrder
  <2> QED
    BY <2>2, <2>3, <2>4
<1>7. CASE TakeJob \/ JobEnds
  <2>1. /\ UNCHANGED <<where, captured, phase, listen, worker, early, destroyed, hook>>
        /\ job' \in BOOLEAN /\ (job' => worker \in {"runs", "closing"})
    BY <1>7 DEF TakeJob, JobEnds, environment, stop
  <2>2. LTypeOK'
    BY <1>0, <2>1 DEF LTypeOK
  <2>3. ReadOnce' /\ InOrder' /\ WorkerInOrder'
    BY <2>1 DEF ReadOnce, InOrder, WorkerInOrder, OnPlatform, Defined
  <2> QED
    BY <2>2, <2>3
<1>8. CASE Signal
  <2>1. LTypeOK'
    BY <1>0, <1>8 DEF Signal, LTypeOK, Phase, environment
  <2>2. ReadOnce'
    BY <1>8 DEF Signal, ReadOnce, OnPlatform, Defined, environment
  <2>3. InOrder' /\ WorkerInOrder'
    BY <1>0, <1>8, LifecycleAssumption DEF Signal, InOrder, WorkerInOrder, Module,
       environment
  <2> QED
    BY <2>1, <2>2, <2>3
<1>9. ASSUME NEW m \in Module, CallHook(m) PROVE LInv'
  <2>1. LTypeOK'
    BY <1>0, <1>9 DEF CallHook, LTypeOK, WorkerState, environment
  <2>2. ReadOnce'
    BY <1>9 DEF CallHook, ReadOnce, OnPlatform, Defined, environment
  <2>3. InOrder'
    BY <1>9 DEF CallHook, Open, InOrder
  <2>4. WorkerInOrder'
    BY <1>9 DEF CallHook, Open, WorkerInOrder
  <2> QED
    BY <2>1, <2>2, <2>3, <2>4
<1>10. CASE HookResolves
  <2>1. LTypeOK'
    BY <1>0, <1>10 DEF HookResolves, LTypeOK, WorkerState, environment
  <2>2. ReadOnce'
    BY <1>10 DEF HookResolves, ReadOnce, OnPlatform, Defined, environment
  <2>3. InOrder'
    <3>1. Importers(hook) \subseteq destroyed /\ phase = "destroying"
      BY <1>10 DEF HookResolves, InOrder
    <3>2. \A m \in destroyed' : Importers(m) \subseteq destroyed'
      BY <1>10, <3>1 DEF HookResolves, InOrder
    <3> QED
      BY <1>10, <3>1, <3>2 DEF HookResolves, InOrder
  <2>4. WorkerInOrder'
    BY <1>0, <1>10, LifecycleAssumption DEF HookResolves, WorkerInOrder,
       WorkerState, Module, environment
  <2> QED
    BY <2>1, <2>2, <2>3, <2>4
<1>11. CASE CloseServer
  <2>1. LTypeOK'
    BY <1>0, <1>11 DEF CloseServer, LTypeOK, Phase, environment, stop
  <2>2. ReadOnce'
    BY <1>11 DEF CloseServer, ReadOnce, OnPlatform, Defined, environment
  <2>3. hook = None
    BY <1>0, <1>11 DEF CloseServer, InOrder
  <2>4. InOrder' /\ WorkerInOrder'
    BY <1>11, <2>3 DEF CloseServer, InOrder, WorkerInOrder, stop
  <2> QED
    BY <2>1, <2>2, <2>4
<1>12. CASE Elsewhere \/ \E r \in Request : Serve(r) \/ Accept(r)
  BY <1>1, <1>12 DEF Elsewhere, Serve, Query, Reply, Accept
<1> QED
  BY <1>1, <1>2, <1>3, <1>4, <1>5, <1>6, <1>7, <1>8, <1>9, <1>10, <1>11, <1>12
  DEF LNext, StartStep, StopStep, HookRejects, Exit, Kill, lvars, process

LEMMA InvIsEnough == LInv => LTypeOK /\ ChecksAgree /\ StopIsOrderly
<1> SUFFICES ASSUME LInv PROVE ChecksAgree /\ StopIsOrderly
  BY DEF LInv
<1>1. ChecksAgree
  <2> SUFFICES ASSUME Accepting, NEW h \in Header
               PROVE  /\ BoardCheck(h, captured.board) = Admin(h)
                      /\ SupabaseAuthGuard(h, captured.guard) = 200 => Admin(h) # 401
                      /\ OnPlatform("SUPABASE_JWT_SECRET") /\ Admin(h) # 401 =>
                           SupabaseAuthGuard(h, captured.guard) = 200
    BY DEF ChecksAgree
  <2>1. /\ captured.board = Defined("SUPABASE_JWT_SECRET")
        /\ captured.guard = OnPlatform("SUPABASE_JWT_SECRET")
    BY DEF LInv, LTypeOK, ReadOnce, Accepting
  <2>2. OnPlatform("SUPABASE_JWT_SECRET") => Defined("SUPABASE_JWT_SECRET")
    BY DEF OnPlatform, Defined
  <2> QED
    BY <2>1, <2>2 DEF Admin, BoardCheck, JwtAdminGuard, SupabaseAuthGuard,
       Unauthorized
<1>2. ASSUME ~ early PROVE StopIsOrderly
  <2> USE DEF LInv, InOrder
  <2>0. job => "queues" \notin destroyed
    BY <1>2 DEF WorkerInOrder
  <2>1. ASSUME job, NEW m \in destroyed PROVE m = "systemConfig"
    <3>1. m \in Module /\ Importers(m) \subseteq destroyed
      BY <2>1 DEF LTypeOK
    <3>2. m # "observability"
      BY <2>0, <2>1, <3>1 DEF Importers
    <3>3. m # "metrics"
      <4>1. "observability" \notin destroyed
        BY <2>0, <2>1 DEF Importers
      <4> QED
        BY <3>1, <4>1 DEF Importers
    <3>4. m # "prisma"
      BY <2>0, <2>1, <3>1 DEF Importers, Module
    <3> QED
      BY <2>0, <2>1, <3>1, <3>2, <3>3, <3>4 DEF Module
  <2>2. phase = "closing" => ~ job /\ destroyed = Module
    BY <2>0 DEF Module
  <2> QED
    BY <2>1, <2>2 DEF StopIsOrderly
<1> QED
  BY <1>1, <1>2 DEF StopIsOrderly

\* The inductive invariant holds in every reachable state.
THEOREM LifecycleInvariant == LSpec => []LInv
<1>1. LogoutInv => TypeOK
  BY DEF LogoutInv
<1>2. LInv /\ [LNext]_lvars /\ TypeOK' => LInv'
  BY ProcessStep
<1> QED
  BY <1>1, <1>2, InitLInv, LogoutsInAProcess, LogoutInvariant, PTL DEF LSpec

\* Type correctness of the process, its requests and the table of tokens.
THEOREM LifecycleTypeCorrect == LSpec => []LTypeOK
BY LifecycleInvariant, InvIsEnough, PTL

\* The guards and the board decide alike, whatever the deployment, as long as
\* requests are served.
THEOREM TokenChecksAgree == LSpec => []ChecksAgree
BY LifecycleInvariant, InvIsEnough, PTL

\* Unless the signal came before the init hooks had run, no module goes while
\* a job needs it, and the server closes last.
THEOREM TheStopIsOrderly == LSpec => []StopIsOrderly
BY LifecycleInvariant, InvIsEnough, PTL

\* A logout that was answered has ended its session, also in a process that
\* is going down.
THEOREM SessionsEnd == LSpec => []LogoutEndsSession
BY LogoutsInAProcess, LogoutInvariant, EndedIsEnough, PTL

\* A logout is answered with its cookies in place if its own cookie cannot be
\* hashed, and never for any other reason.
THEOREM OnlyUnreadableCookiesStay == LSpec => []CookiesAreCleared
BY LogoutsInAProcess, LogoutInvariant, EndedIsEnough, PTL

\* Who revoked a token, when and why is written once.
THEOREM RevocationsAreFinal == LSpec => RevocationIsFinal
<1>1. LogoutInv /\ [Next]_vars =>
        [\A t \in Token : tokens[t].revokedAt # None =>
           /\ tokens'[t].revokedAt = tokens[t].revokedAt
           /\ tokens'[t].reason = tokens[t].reason]_vars
  BY RevocationStep
<1> QED
  BY <1>1, LogoutsInAProcess, LogoutInvariant, PTL DEF RevocationIsFinal, Spec
=============================================================================
