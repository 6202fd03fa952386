------------------------------- MODULE Logout -------------------------------
(***************************************************************************)
(* AuthService.logout(), AuthRepository and the controller that clears the *)
(* cookies: concurrent logouts with the same refresh token, tokens that    *)
(* expire or are revoked by somebody else between the query that finds     *)
(* them active and the update that revokes them, and a database that fails *)
(* at either.                                                              *)
(*                                                                         *)
(* A name with an underscore is a wrong version of the definition after    *)
(* it, for the runs to catch; nothing uses it here.                        *)
(***************************************************************************)
EXTENDS Naturals

CONSTANTS
  Request,  \* concurrent requests POST /auth/logout
  Token,    \* refresh tokens, by their hash
  None,     \* no cookie, no date
  Unreadable, \* a cookie that cookie-parser turns into something not a string
  MaxTime   \* the last instant of the clock (a bound of the model)

ASSUME LogoutAssumption ==
  /\ MaxTime \in Nat
  /\ None \notin Token \cup 0..MaxTime
  /\ Unreadable \notin Token \cup {None}

VARIABLES
  now,       \* the clock
  tokens,    \* tokens[t]: the row of t in refresh_tokens
  logouts    \* logouts[r]: where request r is

vars == <<now, tokens, logouts>>

Time == 0..MaxTime

Reason == {"none", "logout", "rotation", "admin"}
Row == [stored : BOOLEAN, expiresAt : Time, revokedAt : Time \cup {None},
        reason : Reason]

Pc == {"idle", "find", "revoke", "replied"}

\* failed: the catch block ran; cleared: the response clears refresh_token and
\* XSRF-TOKEN.
LogoutState == [pc : Pc, token : Token \cup {None, Unreadable},
                failed : BOOLEAN, cleared : BOOLEAN]
NoLogout == [pc |-> "idle", token |-> None, failed |-> FALSE, cleared |-> FALSE]

TypeOK ==
  /\ now \in Time
  /\ tokens \in [Token -> Row]
  /\ logouts \in [Request -> LogoutState]

\* Tokens are stored by the code that opens sessions, which is not in src/.
Init ==
  /\ now = 0
  /\ tokens \in [Token -> {[stored |-> b, expiresAt |-> e, revokedAt |-> None,
                            reason |-> "none"] : b \in BOOLEAN, e \in Time}]
  /\ logouts = [r \in Request |-> NoLogout]

-----------------------------------------------------------------------------

\* revokedAt: null, expiresAt > now
Active(t) ==
  /\ tokens[t].stored
  /\ tokens[t].revokedAt = None
  /\ tokens[t].expiresAt > now

\* The rows that updateMany() of revokeRefreshToken() matches.
Revocable_AnyRow(t) == tokens[t].stored
Revocable(t) == tokens[t].stored /\ tokens[t].revokedAt = None

Revoked(t, reason) ==
  IF Revocable(t)
  THEN [tokens EXCEPT ![t].revokedAt = now, ![t].reason = reason]
  ELSE tokens

\* When logout() returns, the controller clears the cookies and answers 204,
\* without awaiting anything more.
ClearCookies(state) == [state EXCEPT !.pc = "replied", !.cleared = TRUE]

\* The request arrives with the cookie of a token, or with none (or nothing
\* in it); then there is nothing to look up.
Logout(r, c) ==
  /\ logouts[r].pc = "idle"
  /\ logouts' = [logouts EXCEPT ![r] =
       IF c = None THEN ClearCookies(NoLogout)
       ELSE [NoLogout EXCEPT !.pc = "find", !.token = c]]
  /\ UNCHANGED <<now, tokens>>

\* "j:" and JSON, of something that is neither falsy nor a string: update()
\* throws a TypeError.  It is called before the try block, so that the answer
\* is a 500 and the controller does not get to the cookies.
LogoutThrows(r) ==
  /\ logouts[r].pc = "idle"
  /\ logouts' = [logouts EXCEPT ![r] =
       [NoLogout EXCEPT !.pc = "replied", !.token = Unreadable]]
  /\ UNCHANGED <<now, tokens>>

Arrives(r) == LogoutThrows(r) \/ \E c \in Token \cup {None} : Logout(r, c)

FindActive(r) ==
  /\ logouts[r].pc = "find"
  /\ logouts' = [logouts EXCEPT ![r] =
       IF Active(@.token) THEN [@ EXCEPT !.pc = "revoke"] ELSE ClearCookies(@)]
  /\ UNCHANGED <<now, tokens>>

Revoke_Skipped(r) ==
  /\ logouts[r].pc = "revoke"
  /\ logouts' = [logouts EXCEPT ![r] = ClearCookies(@)]
  /\ UNCHANGED <<now, tokens>>

Revoke_UnknownReason(r) ==
  /\ logouts[r].pc = "revoke"
  /\ tokens' = Revoked(logouts[r].token, "signout")
  /\ logouts' = [logouts EXCEPT ![r] = ClearCookies(@)]
  /\ UNCHANGED now

Revoke(r) ==
  /\ logouts[r].pc = "revoke"
  /\ tokens' = Revoked(logouts[r].token, "logout")
  /\ logouts' = [logouts EXCEPT ![r] = ClearCookies(@)]
  /\ UNCHANGED now

DbFails_Rethrown(r) ==
  /\ logouts[r].pc \in {"find", "revoke"}
  /\ logouts' = [logouts EXCEPT ![r].pc = "replied", ![r].failed = TRUE]
  /\ UNCHANGED <<now, tokens>>

DbFails_Retries(r) ==
  /\ logouts[r].pc \in {"find", "revoke"}
  /\ logouts' = [logouts EXCEPT ![r].pc = "find"]
  /\ UNCHANGED <<now, tokens>>

\* The catch block: the error is logged and absorbed.  The update may have
\* been made before its reply was lost.
DbFails(r) ==
  /\ logouts[r].pc \in {"find", "revoke"}
  /\ \/ UNCHANGED tokens
     \/ logouts[r].pc = "revoke" /\ tokens' = Revoked(logouts[r].token, "logout")
  /\ logouts' = [logouts EXCEPT ![r] = ClearCookies([@ EXCEPT !.failed = TRUE])]
  /\ UNCHANGED now

Finish(r) ==
  /\ logouts[r].pc = "replied"
  /\ logouts' = [logouts EXCEPT ![r] = NoLogout]
  /\ UNCHANGED <<now, tokens>>

\* The process that serves the requests R dies; the cookies stay with the
\* clients.
Crash(R) ==
  /\ logouts' = [r \in Request |-> IF r \in R THEN NoLogout ELSE logouts[r]]
  /\ UNCHANGED <<now, tokens>>

-----------------------------------------------------------------------------

\* Other holders of the table: a token is stored, rotated, or revoked by an
\* administrator, the reasons the schema names.
RevokeElsewhere(t, reason) ==
  /\ Revocable(t)
  /\ tokens' = Revoked(t, reason)
  /\ UNCHANGED <<now, logouts>>

Tick ==
  /\ now < MaxTime
  /\ now' = now + 1
  /\ UNCHANGED <<tokens, logouts>>

LogoutStep(r) ==
  FindActive(r) \/ Revoke(r) \/ DbFails(r) \/ Finish(r)

Next ==
  \/ \E r \in Request : Arrives(r) \/ LogoutStep(r)
  \/ \E R \in SUBSET Request : Crash(R)
  \/ \E t \in Token, reason \in {"rotation", "admin"} : RevokeElsewhere(t, reason)
  \/ Tick

Spec == Init /\ [][Next]_vars

\* Queries are answered, by rows or by errors.
FairSpec == Spec /\ \A r \in Request : WF_vars(LogoutStep(r))

-----------------------------------------------------------------------------

\* Invariant: when a logout has been answered and no query failed, the token
\* of its cookie is active for nobody, however the other logouts and the
\* revocations of others went between its query and its update.
LogoutEndsSession ==
  \A r \in Request :
    logouts[r].pc = "replied" /\ ~ logouts[r].failed /\ logouts[r].token \in Token
      => ~ Active(logouts[r].token)

\* Invariant: no failure of the database, nor a race for the token, makes a
\* logout answer with the cookies left in place.  A cookie that cannot be
\* hashed does: what auth.service.ts:115-116 promises holds for strings only.
CookiesAreCleared ==
  \A r \in Request : logouts[r].pc = "replied" =>
    (logouts[r].cleared <=> logouts[r].token # Unreadable)

\* Action property: who revoked a token, when and why, is written once.  A
\* logout that found it active before somebody else revoked it does not
\* overwrite the record.
RevocationIsFinal ==
  [][\A t \in Token : tokens[t].revokedAt # None =>
       /\ tokens'[t].revokedAt = tokens[t].revokedAt
       /\ tokens'[t].reason = tokens[t].reason]_vars

\* Liveness: every logout is answered, database or no database.
LogoutIsAnswered ==
  \A r \in Request : logouts[r].pc # "idle" ~> logouts[r].pc = "idle"
=============================================================================
