---------------------------- MODULE AuthFailures ----------------------------
(***************************************************************************)
(* Where the events of SecurityMonitorService come from: AuthService.login *)
(* and SupabaseAuthGuard.  A login is one call of Supabase, without state  *)
(* of this program; what it leaves behind is a timestamp, or none.         *)
(***************************************************************************)
EXTENDS SecurityMonitor, TokenChecks

\* How a login ends.  "noClient": getSupabaseClient() throws, SUPABASE_URL or
\* SUPABASE_ANON_KEY is missing; "refused": wrong credentials; "unreachable":
\* Supabase is down or too slow, which its client returns as an error too;
\* "rejected": the client throws instead.
Outcome == {"signedIn", "refused", "unreachable", "noClient", "rejected"}

\* { error } of signInWithPassword() is set.
ReturnsError(o) == o \in {"refused", "unreachable"}

RecordsFailedLogin_AnyFailure(o) == o # "signedIn"

RecordsFailedLogin(o) == ReturnsError(o)

\* What the two lists are to hold: the logins that failed at Supabase, an
\* outage of Supabase included, and the tokens that a guard which could check
\* them found not to be valid.  A misconfiguration of this program is neither.
FailedLogin(o) == o \notin {"signedIn", "noClient", "rejected"}
InvalidToken(h, secret) ==
  SupabaseAuthGuard(h, secret) = 401 /\ secret /\ h # NoBearer

\* An event happens, or does not; the code records it, or does not.
Note(kind, occurs, records) ==
  /\ occurs => Len(happened[kind]) < MaxEvents
  /\ list' = IF records THEN [list EXCEPT ![kind] = Push(@)] ELSE list
  /\ happened' = IF occurs THEN [happened EXCEPT ![kind] = Append(@, 0)]
                 ELSE happened
  /\ UNCHANGED <<timer, check, destroyed>>

\* The continuation of AuthService.login() behind its one await.
Login(o) == Note("failedLogin", FailedLogin(o), RecordsFailedLogin(o))

\* SupabaseAuthGuard before a handler.  The secret is the one its process has
\* started with: Lifecycle says when there is none.
Authenticate(h, secret) ==
  Note("invalidToken", InvalidToken(h, secret), RecordsInvalidToken(h, secret))

AuthNext ==
  \/ \E o \in Outcome : Login(o)
  \/ \E h \in Header, secret \in BOOLEAN : Authenticate(h, secret)
  \/ CheckStep
  \/ Destroy
  \/ Tick

AuthSpec == Init /\ [][AuthNext]_vars
=============================================================================
