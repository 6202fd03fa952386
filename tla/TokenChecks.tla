----------------------------- MODULE TokenChecks -----------------------------
(***************************************************************************)
(* The three places that check the bearer token of Supabase:               *)
(* SupabaseAuthGuard, JwtAdminGuard, and the middleware of main.ts before  *)
(* the queue board.  Each is a function of the Authorization header and of *)
(* the JWT secret it works with; where each takes its secret from is the   *)
(* business of Lifecycle, what a rejection is counted as of AuthFailures.  *)
(*                                                                         *)
(* A status is what the check answers: 200 stands for letting the request  *)
(* pass.  A token that is an empty string cannot arrive: Node trims header *)
(* values, and "Bearer" alone does not start with "Bearer ".               *)
(***************************************************************************)
EXTENDS Naturals

\* A header without a bearer token is one header: none, or another scheme.
\* signed: with the project's secret; time: before nbf, valid, or after exp;
\* admin: app_metadata.role.
NoBearer == [bearer |-> FALSE, signed |-> FALSE, time |-> "valid", admin |-> FALSE]
Header == [bearer : {TRUE}, signed : BOOLEAN, time : {"early", "valid", "late"},
           admin : BOOLEAN] \cup {NoBearer}

\* verify() of jsonwebtoken returns the payload, or throws.
Verifies(h) == h.signed /\ h.time = "valid"

\* The early returns that the three checks share: secret says whether the
\* check has one.
Unauthorized(h, secret) == ~ h.bearer \/ ~ secret \/ ~ Verifies(h)

SupabaseAuthGuard(h, secret) == IF Unauthorized(h, secret) THEN 401 ELSE 200

\* Only a token that was there and could be checked counts as invalid, and
\* only in this guard.
RecordsInvalidToken_AnyRefusal(h, secret) == Unauthorized(h, secret)

RecordsInvalidToken(h, secret) == h.bearer /\ secret /\ ~ Verifies(h)

JwtAdminGuard(h, secret) ==
  IF Unauthorized(h, secret) THEN 401 ELSE IF h.admin THEN 200 ELSE 403

BoardCheck_AnyUser(h, secret) == IF Unauthorized(h, secret) THEN 401 ELSE 200

BoardCheck(h, secret) ==
  IF Unauthorized(h, secret) THEN 401 ELSE IF h.admin THEN 200 ELSE 403
=============================================================================
