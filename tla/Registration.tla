---------------------------- MODULE Registration ----------------------------
(***************************************************************************)
(* AuthService.register() and the controller around it: concurrent calls   *)
(* that check the table users, sign up in Supabase Auth, hash the password *)
(* and insert the user.  The two stores are not written together, and the  *)
(* checks at the start do not hold when the insert at the end runs.        *)
(*                                                                         *)
(* A name with an underscore is a wrong version of the definition after    *)
(* it, for the runs to catch; nothing uses it here.                        *)
(***************************************************************************)
EXTENDS FiniteSets

CONSTANTS
  Request,   \* concurrent requests POST /auth/register
  Email, Username,
  Obfuscated, \* the random id of a user that Supabase has made up
  None

ASSUME RegistrationAssumption ==
  /\ {None, Obfuscated} \cap (Request \cup Email \cup Username) = {}
  /\ None # Obfuscated

VARIABLES
  users,      \* rows of the table users, soft-deleted ones included
  accounts,   \* emails with an account in Supabase Auth
  confirmed,  \* those whose owner has followed the link of the mail
  reg         \* reg[r]: where request r is

vars == <<users, accounts, confirmed, reg>>

\* A row is linked to the account whose id signUp() returned, to an id that is
\* no account's, or to none.  An account goes by its email here.
Account == Email \cup {Obfuscated, None}
User == [email : Email, username : Username, account : Account,
         deleted : BOOLEAN]

Pc == {"idle", "findEmail", "findUsername", "signUp", "hash", "create", "replied"}
Reply == {"none", "created", "badRequest", "conflict", "serverError"}
ReqState == [pc : Pc, email : Email \cup {None}, username : Username \cup {None},
             account : Account, reply : Reply]
NoReq == [pc |-> "idle", email |-> None, username |-> None,
          account |-> None, reply |-> "none"]

TypeOK ==
  /\ users \in SUBSET User
  /\ accounts \in SUBSET Email
  /\ confirmed \in SUBSET accounts
  /\ reg \in [Request -> ReqState]

Init ==
  /\ users = {}
  /\ accounts = {}
  /\ confirmed = {}
  /\ reg = [r \in Request |-> NoReq]

-----------------------------------------------------------------------------

\* The reply of the service and of the controller, which turns whatever is
\* not an HttpException into a 400.
Answer(r, reply) == reg' = [reg EXCEPT ![r].pc = "replied", ![r].reply = reply]
Continue(r, pc) == reg' = [reg EXCEPT ![r].pc = pc]

\* The DTO has been validated by then.
Register(r, e, u) ==
  /\ reg[r].pc = "idle"
  /\ reg' = [reg EXCEPT ![r] =
       [NoReq EXCEPT !.pc = "findEmail", !.email = e, !.username = u]]
  /\ UNCHANGED <<users, accounts, confirmed>>

\* findByEmail() and findByUsername() do not see deleted users.
EmailTaken(e) == \E row \in users : row.email = e /\ ~ row.deleted
UsernameTaken(u) == \E row \in users : row.username = u /\ ~ row.deleted

FindByEmail(r) ==
  /\ reg[r].pc = "findEmail"
  /\ IF EmailTaken(reg[r].email)
     THEN Answer(r, "conflict") ELSE Continue(r, "findUsername")
  /\ UNCHANGED <<users, accounts, confirmed>>

FindByUsername(r) ==
  /\ reg[r].pc = "findUsername"
  /\ IF UsernameTaken(reg[r].username)
     THEN Answer(r, "conflict") ELSE Continue(r, "signUp")
  /\ UNCHANGED <<users, accounts, confirmed>>

\* A query of the checks, signUp() or argon2.hash() throws.  The controller
\* answers 400.
Throws(r) ==
  /\ reg[r].pc \in {"findEmail", "findUsername", "hash"}
  /\ Answer(r, "badRequest")
  /\ UNCHANGED <<users, accounts, confirmed>>

\* Supabase asks for a confirmation by mail.  It makes an account, or returns
\* the one that still waits for its confirmation; of an email already
\* confirmed it does not tell: it makes up a user with an id of its own.  The
\* reply may lack the user, and the row is then linked to none.
SignUp(r) ==
  /\ reg[r].pc = "signUp"
  /\ accounts' = accounts \cup {reg[r].email}
  /\ \E a \in {None, IF reg[r].email \in confirmed THEN Obfuscated ELSE reg[r].email} :
       reg' = [reg EXCEPT ![r].pc = "hash", ![r].account = a]
  /\ UNCHANGED <<users, confirmed>>

SignUpFails_Ignored(r) ==
  /\ reg[r].pc = "signUp"
  /\ Continue(r, "hash")
  /\ UNCHANGED <<users, accounts, confirmed>>

\* Supabase refuses, as it does for any email with an account where it asks
\* for no confirmation, or its reply is lost when the account is there.
SignUpFails(r) ==
  /\ reg[r].pc = "signUp"
  /\ accounts' \in {accounts, accounts \cup {reg[r].email}}
  /\ Answer(r, "badRequest")
  /\ UNCHANGED <<users, confirmed>>

Hash(r) ==
  /\ reg[r].pc = "hash"
  /\ Continue(r, "create")
  /\ UNCHANGED <<users, accounts, confirmed>>

\* The unique indexes of the table span the soft-deleted rows.  Two users
\* that Supabase makes up never have the same id.
Clash_ActiveOnly(row, s) ==
  ~ row.deleted /\ (row.email = s.email \/ row.username = s.username)

Clash(row, s) ==
  \/ row.email = s.email
  \/ row.username = s.username
  \/ s.account \in Email /\ row.account = s.account

NewUser_LinkedByEmail(s) == [email |-> s.email, username |-> s.username,
                             account |-> s.email, deleted |-> FALSE]

NewUser(s) == [email |-> s.email, username |-> s.username,
               account |-> s.account, deleted |-> FALSE]

Insert_Unchecked(r) == users' = users \cup {NewUser(reg[r])}

\* The INSERT of one row, checked against the indexes.
Insert(r) ==
  /\ \A row \in users : ~ Clash(row, reg[r])
  /\ users' = users \cup {NewUser(reg[r])}

Create(r) ==
  /\ reg[r].pc = "create"
  /\ Insert(r)
  /\ Answer(r, "created")
  /\ UNCHANGED <<accounts, confirmed>>

\* P2002
CreateConflicts(r) ==
  /\ reg[r].pc = "create"
  /\ \E row \in users : Clash(row, reg[r])
  /\ Answer(r, "conflict")
  /\ UNCHANGED <<users, accounts, confirmed>>

CreateFails_AsConflict(r) ==
  /\ reg[r].pc = "create"
  /\ UNCHANGED users
  /\ Answer(r, "conflict")
  /\ UNCHANGED <<accounts, confirmed>>

\* Any other error, with or without the row inserted.
CreateFails(r) ==
  /\ reg[r].pc = "create"
  /\ Insert(r) \/ UNCHANGED users
  /\ Answer(r, "serverError")
  /\ UNCHANGED <<accounts, confirmed>>

Finish(r) ==
  /\ reg[r].pc = "replied"
  /\ reg' = [reg EXCEPT ![r] = NoReq]
  /\ UNCHANGED <<users, accounts, confirmed>>

\* The process that serves r dies: nobody undoes what r has done.
Crash(r) ==
  /\ reg[r].pc \notin {"idle", "replied"}
  /\ reg' = [reg EXCEPT ![r] = NoReq]
  /\ UNCHANGED <<users, accounts, confirmed>>

\* Nothing in src/ deletes a user; the column deletedAt is there for it.
SoftDelete(row) ==
  /\ ~ row.deleted
  /\ users' = (users \ {row}) \cup {[row EXCEPT !.deleted = TRUE]}
  /\ UNCHANGED <<accounts, confirmed, reg>>

\* The owner of the email follows the link of the mail.
Confirm(e) ==
  /\ e \in accounts \ confirmed
  /\ confirmed' = confirmed \cup {e}
  /\ UNCHANGED <<users, accounts, reg>>

Step(r) ==
  \/ FindByEmail(r) \/ FindByUsername(r) \/ Throws(r)
  \/ SignUp(r) \/ SignUpFails(r) \/ Hash(r)
  \/ Create(r) \/ CreateConflicts(r) \/ CreateFails(r) \/ Finish(r)

Next ==
  \/ \E r \in Request, e \in Email, u \in Username : Register(r, e, u)
  \/ \E r \in Request : Step(r) \/ Crash(r)
  \/ \E row \in users : SoftDelete(row)
  \/ \E e \in Email : Confirm(e)

Spec == Init /\ [][Next]_vars

-----------------------------------------------------------------------------

Told(r, reply) == reg[r].pc = "replied" /\ reg[r].reply = reply

\* Invariant: of requests that race for an email or a username, which all
\* pass the checks, at most one is told it has it, and its row is there.
OneWinner ==
  \A r \in Request : Told(r, "created") =>
    /\ \E row \in users : /\ row.email = reg[r].email
                          /\ row.username = reg[r].username
                          /\ row.account = reg[r].account
    /\ \A q \in Request \ {r} : Told(q, "created") =>
         /\ reg[q].email # reg[r].email
         /\ reg[q].username # reg[r].username

\* Invariant: for the email of a user in the table there is an account to log
\* in with; the row is linked to it or to nobody's account, never to that of
\* another email, and no two users share an email, a username or an account.
UsersHaveAccounts ==
  \A row \in users :
    /\ row.email \in accounts
    /\ row.account \in {row.email, Obfuscated, None}
    /\ \A other \in users \ {row} :
         other.email # row.email /\ other.username # row.username

\* Invariant: 409 means what auth.controller.ts:41-43 says, also when it comes
\* from the insert: a user, perhaps a deleted one, has the email or the name.
ConflictIsReal ==
  \A r \in Request : Told(r, "conflict") =>
    \E row \in users :
      row.email = reg[r].email \/ row.username = reg[r].username

\* A confirmed account that no row is linked to, nor about to be: the insert
\* of its row met a late conflict, an error or a crash, or lacked the id.
Orphan(e) ==
  /\ e \in confirmed
  /\ \A row \in users : row.account # e
  /\ \A r \in Request : reg[r].pc \in {"hash", "create"} => reg[r].account # e

\* Action property: once its owner has confirmed it, an account left behind is
\* left behind for ever.  A later registration of the email can succeed, but
\* its row is linked to an id that is no account's: signing up again repairs
\* the failure of the second store only before the confirmation.
OrphansStayOrphans == [][\A e \in Email : Orphan(e) => Orphan(e)']_vars
=============================================================================
