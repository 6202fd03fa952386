------------------------- MODULE RegistrationProofs -------------------------
(***************************************************************************)
(* Theorems about Registration for every set of requests, emails and       *)
(* usernames.                                                              *)
(***************************************************************************)
EXTENDS Registration, TLAPS

\* What a request carries: the names it asked for, and, once it has signed
\* up, an id that is not of another email's account.
Carries ==
  \A r \in Request :
    /\ reg[r].pc # "idle" =>
         reg[r].email \in Email /\ reg[r].username \in Username
    /\ reg[r].pc \in {"hash", "create"} =>
         /\ reg[r].email \in accounts
         /\ reg[r].account \in {reg[r].email, Obfuscated, None}

\* The inductive invariant.
RInv == TypeOK /\ Carries /\ UsersHaveAccounts /\ OneWinner /\ ConflictIsReal

LEMMA InitRInv == Init => RInv
<1> SUFFICES ASSUME Init PROVE RInv
  OBVIOUS
<1>1. NoReq \in ReqState
  BY DEF NoReq, ReqState, Account, Pc, Reply
<1>2. TypeOK
  BY <1>1 DEF Init, TypeOK
<1>3. Carries /\ UsersHaveAccounts /\ OneWinner /\ ConflictIsReal
  BY DEF Init, Carries, UsersHaveAccounts, OneWinner, ConflictIsReal, Told, NoReq
<1> QED
  BY <1>2, <1>3 DEF RInv

-----------------------------------------------------------------------------
(* What steps have in common *)

\* A request that moves without writing either store.
LEMMA AnswerRInv ==
  ASSUME RInv, NEW r \in Request, NEW reply \in Reply,
         reg[r].pc # "idle", Answer(r, reply), UNCHANGED users,
         accounts \subseteq accounts', accounts' \in SUBSET Email,
         UNCHANGED confirmed, reply # "created",
         reply = "conflict" => \E row \in users :
           row.email = reg[r].email \/ row.username = reg[r].username
  PROVE  RInv'
<1> USE DEF RInv, Answer
<1>1. reg[r] \in ReqState
  BY DEF TypeOK
<1>2. [reg[r] EXCEPT !.pc = "replied", !.reply = reply] \in ReqState
  BY <1>1 DEF ReqState, Pc
<1>3. TypeOK'
  BY <1>2 DEF TypeOK
<1>4. /\ reg'[r].pc = "replied" /\ reg'[r].reply = reply
      /\ reg'[r].email = reg[r].email /\ reg'[r].username = reg[r].username
      /\ \A q \in Request \ {r} : reg'[q] = reg[q]
  BY <1>1 DEF TypeOK, ReqState
<1>5. Carries'
  BY <1>4 DEF Carries
<1>6. UsersHaveAccounts'
  BY DEF UsersHaveAccounts
<1> HIDE DEF Answer
<1>7. OneWinner'
  <2>1. \A q \in Request : Told(q, "created")' =>
          q # r /\ Told(q, "created") /\ reg'[q] = reg[q]
    BY <1>4 DEF Told
  <2> QED
    BY <2>1 DEF OneWinner, Told
<1>8. ConflictIsReal'
  <2> SUFFICES ASSUME NEW q \in Request, Told(q, "conflict")'
               PROVE  \E row \in users :
                 row.email = reg'[q].email \/ row.username = reg'[q].username
    BY DEF ConflictIsReal
  <2>1. CASE q = r
    BY <1>4, <2>1 DEF Told
  <2>2. CASE q # r
    BY <1>4, <2>2 DEF Told, ConflictIsReal
  <2> QED
    BY <2>1, <2>2
<1> QED
  BY <1>3, <1>5, <1>6, <1>7, <1>8

\* A request that goes on, or is forgotten.
LEMMA ContinueRInv ==
  ASSUME RInv, NEW r \in Request, NEW s \in ReqState,
         reg' = [reg EXCEPT ![r] = s], s.pc # "replied",
         s.pc # "idle" => s.email \in Email /\ s.username \in Username,
         s.pc \in {"hash", "create"} =>
           s.email \in accounts' /\ s.account \in {s.email, Obfuscated, None},
         UNCHANGED <<users, confirmed>>,
         accounts \subseteq accounts', accounts' \in SUBSET Email
  PROVE  RInv'
<1> USE DEF RInv
<1>1. TypeOK'
  BY DEF TypeOK
<1>2. reg'[r] = s /\ \A q \in Request \ {r} : reg'[q] = reg[q]
  BY DEF TypeOK
<1>3. Carries'
  BY <1>2 DEF Carries
<1>4. UsersHaveAccounts'
  BY DEF UsersHaveAccounts
<1>5. OneWinner'
  BY <1>2 DEF OneWinner, Told
<1>6. ConflictIsReal'
  BY <1>2 DEF ConflictIsReal, Told
<1> QED
  BY <1>1, <1>3, <1>4, <1>5, <1>6

LEMMA ForgetRInv ==
  ASSUME RInv, NEW r \in Request, reg' = [reg EXCEPT ![r] = NoReq],
         UNCHANGED <<users, accounts, confirmed>>
  PROVE  RInv'
<1>1. NoReq \in ReqState /\ NoReq.pc = "idle"
  BY DEF NoReq, ReqState, Account, Pc, Reply
<1>2. accounts \in SUBSET Email
  BY DEF RInv, TypeOK
<1> QED
  BY <1>1, <1>2, ContinueRInv

\* The row of r is inserted: every other row differs in email and username.
LEMMA InsertRows ==
  ASSUME RInv, NEW r \in Request, reg[r].pc = "create", Insert(r),
         UNCHANGED <<accounts, confirmed>>
  PROVE  /\ users' \in SUBSET User
         /\ UsersHaveAccounts'
         /\ users \subseteq users'
         /\ NewUser(reg[r]) \in users'
         /\ \A row \in users : /\ row.email # reg[r].email
                               /\ row.username # reg[r].username
<1> DEFINE new == NewUser(reg[r])
<1> USE DEF RInv, Insert
<1>1. /\ reg[r].email \in Email /\ reg[r].username \in Username
      /\ reg[r].email \in accounts
      /\ reg[r].account \in {reg[r].email, Obfuscated, None}
  BY DEF Carries
<1>2. /\ new \in User /\ new.email = reg[r].email
      /\ new.username = reg[r].username /\ new.account = reg[r].account
  BY <1>1 DEF NewUser, User, Account
<1>3. \A row \in users : /\ row.email # reg[r].email
                         /\ row.username # reg[r].username
  BY DEF Clash
<1>4. UsersHaveAccounts'
  BY <1>1, <1>2, <1>3 DEF UsersHaveAccounts
<1> QED
  BY <1>2, <1>3, <1>4 DEF TypeOK

LEMMA CreateRInv ==
  ASSUME RInv, NEW r \in Request, Create(r)
  PROVE  RInv'
<1> USE DEF RInv, Create, Answer
<1>0. reg[r].pc = "create"
  OBVIOUS
<1>1. reg[r] \in ReqState
  BY DEF TypeOK
<1>2. [reg[r] EXCEPT !.pc = "replied", !.reply = "created"] \in ReqState
  BY <1>1 DEF ReqState, Pc, Reply
<1>3. /\ users' \in SUBSET User /\ UsersHaveAccounts' /\ users \subseteq users'
      /\ NewUser(reg[r]) \in users'
      /\ \A row \in users : /\ row.email # reg[r].email
                            /\ row.username # reg[r].username
  BY InsertRows
<1>4. /\ reg'[r].pc = "replied" /\ reg'[r].reply = "created"
      /\ reg'[r].email = reg[r].email /\ reg'[r].username = reg[r].username
      /\ reg'[r].account = reg[r].account
      /\ \A q \in Request \ {r} : reg'[q] = reg[q]
      /\ accounts' = accounts /\ confirmed' = confirmed
  BY <1>1 DEF TypeOK, ReqState
<1>5. TypeOK'
  BY <1>2, <1>3 DEF TypeOK
<1> HIDE DEF Create, Answer
<1>6. Carries'
  <2>1. /\ reg[r].email \in Email /\ reg[r].username \in Username
    BY <1>0 DEF Carries
  <2> QED
    BY <1>4, <2>1 DEF Carries
<1>7. OneWinner'
  <2>1. \E row \in users' : /\ row.email = reg'[r].email
                            /\ row.username = reg'[r].username
                            /\ row.account = reg'[r].account
    BY <1>3, <1>4 DEF NewUser
  <2>2. \A q \in Request \ {r} : Told(q, "created")' => Told(q, "created")
    BY <1>4 DEF Told
  <2>3. \A q \in Request \ {r} : Told(q, "created") =>
          reg[q].email # reg[r].email /\ reg[q].username # reg[r].username
    BY <1>3 DEF OneWinner
  <2> SUFFICES ASSUME NEW q \in Request, Told(q, "created")'
               PROVE  /\ \E row \in users' : /\ row.email = reg'[q].email
                                            /\ row.username = reg'[q].username
                                            /\ row.account = reg'[q].account
                      /\ \A o \in Request \ {q} : Told(o, "created")' =>
                           /\ reg'[o].email # reg'[q].email
                           /\ reg'[o].username # reg'[q].username
    BY DEF OneWinner
  <2>4. CASE q = r
    BY <1>4, <2>1, <2>2, <2>3, <2>4
  <2>5. CASE q # r
    <3>1. Told(q, "created") /\ reg'[q] = reg[q]
      BY <1>4, <2>2, <2>5
    <3>2. \E row \in users : /\ row.email = reg'[q].email
                            /\ row.username = reg'[q].username
                            /\ row.account = reg'[q].account
      BY <3>1 DEF OneWinner
    <3>3. \A o \in Request \ {q} : o # r /\ Told(o, "created")' =>
            /\ reg'[o].email # reg'[q].email
            /\ reg'[o].username # reg'[q].username
      BY <1>4, <2>2, <3>1 DEF OneWinner
    <3> QED
      BY <1>3, <1>4, <2>3, <3>1, <3>2, <3>3
  <2> QED
    BY <2>4, <2>5
<1>8. ConflictIsReal'
  <2>1. \A q \in Request : Told(q, "conflict")' =>
          Told(q, "conflict") /\ reg'[q] = reg[q]
    BY <1>4 DEF Told
  <2> QED
    BY <1>3, <2>1 DEF ConflictIsReal
<1> QED
  BY <1>3, <1>5, <1>6, <1>7, <1>8

LEMMA CreateFailsRInv ==
  ASSUME RInv, NEW r \in Request, CreateFails(r)
  PROVE  RInv'
<1> USE DEF CreateFails
<1>1. CASE UNCHANGED users
  BY <1>1, AnswerRInv DEF Reply, RInv, TypeOK
<1>2. CASE Insert(r)
  <2> USE <1>2 DEF RInv, Answer
  <2>1. reg[r] \in ReqState
    BY DEF TypeOK
  <2>2. [reg[r] EXCEPT !.pc = "replied", !.reply = "serverError"] \in ReqState
    BY <2>1 DEF ReqState, Pc, Reply
  <2>3. users' \in SUBSET User /\ UsersHaveAccounts' /\ users \subseteq users'
    BY InsertRows
  <2>4. /\ reg'[r].pc = "replied" /\ reg'[r].reply = "serverError"
        /\ reg'[r].email = reg[r].email /\ reg'[r].username = reg[r].username
        /\ \A q \in Request \ {r} : reg'[q] = reg[q]
        /\ accounts' = accounts /\ confirmed' = confirmed /\ reg[r].pc = "create"
    BY <2>1 DEF TypeOK, ReqState
  <2>5. TypeOK'
    BY <2>2, <2>3 DEF TypeOK
  <2> HIDE <1>2 DEF CreateFails, Answer
  <2>6. Carries'
    <3>1. reg[r].email \in Email /\ reg[r].username \in Username
      BY <2>4 DEF Carries
    <3> QED
      BY <2>4, <3>1 DEF Carries
  <2>7. \A q \in Request : \A reply \in {"created", "conflict"} :
          Told(q, reply)' => Told(q, reply) /\ reg'[q] = reg[q]
    BY <2>4 DEF Told
  <2>8. OneWinner'
    BY <2>3, <2>7 DEF OneWinner
  <2>9. ConflictIsReal'
    BY <2>3, <2>7 DEF ConflictIsReal
  <2> QED
    BY <2>3, <2>5, <2>6, <2>8, <2>9
<1> QED
  BY <1>1, <1>2

\* A deleted row keeps its email, its username and its account.
LEMMA SoftDeleteRInv ==
  ASSUME RInv, NEW row \in users, SoftDelete(row)
  PROVE  RInv'
<1> DEFINE gone == [row EXCEPT !.deleted = TRUE]
<1> USE DEF RInv, SoftDelete
<1>1. /\ gone \in User /\ gone.email = row.email
      /\ gone.username = row.username /\ gone.account = row.account
  BY DEF TypeOK, User
<1>2. TypeOK'
  BY <1>1 DEF TypeOK
<1>3. Carries'
  BY DEF Carries
<1>4. \A other \in users' : \E old \in users :
        /\ old.email = other.email /\ old.username = other.username
        /\ old.account = other.account
        /\ IF other = gone THEN old = row ELSE old = other /\ old # row
  BY <1>1
<1>5. UsersHaveAccounts'
  <2>1. \A a, b \in users : a # b => a.email # b.email /\ a.username # b.username
    BY DEF UsersHaveAccounts
  <2>2. \A a, b \in users' : a # b => a.email # b.email /\ a.username # b.username
    <3> SUFFICES ASSUME NEW a \in users', NEW b \in users', a # b
                 PROVE  a.email # b.email /\ a.username # b.username
      OBVIOUS
    <3>1. PICK x \in users : /\ x.email = a.email /\ x.username = a.username
                             /\ IF a = gone THEN x = row ELSE x = a /\ x # row
      BY <1>4
    <3>2. PICK y \in users : /\ y.email = b.email /\ y.username = b.username
                             /\ IF b = gone THEN y = row ELSE y = b /\ y # row
      BY <1>4
    <3> HIDE DEF gone, SoftDelete, RInv
    <3>3. x # y
      BY <3>1, <3>2
    <3> QED
      BY <2>1, <3>1, <3>2, <3>3
  <2>3. \A a \in users' : a.email \in accounts /\ a.account \in {a.email, Obfuscated, None}
    BY <1>1, <1>4 DEF UsersHaveAccounts
  <2> QED
    BY <2>2, <2>3 DEF UsersHaveAccounts
<1>6. \A old \in users : \E other \in users' :
        /\ old.email = other.email /\ old.username = other.username
        /\ old.account = other.account
  BY <1>1
<1>7. OneWinner'
  BY <1>6 DEF OneWinner, Told
<1>8. ConflictIsReal'
  BY <1>6 DEF ConflictIsReal, Told
<1> QED
  BY <1>2, <1>3, <1>5, <1>7, <1>8

-----------------------------------------------------------------------------

LEMMA StepRInv ==
  ASSUME RInv, NEW r \in Request, Step(r)
  PROVE  RInv'
<1> USE DEF RInv
<1>0. reg[r] \in ReqState /\ accounts \in SUBSET Email
  BY DEF TypeOK
<1>1. CASE FindByEmail(r)
  <2>1. CASE EmailTaken(reg[r].email)
    BY <1>0, <1>1, <2>1, AnswerRInv DEF FindByEmail, EmailTaken, Reply
  <2>2. CASE ~ EmailTaken(reg[r].email)
    <3> DEFINE s == [reg[r] EXCEPT !.pc = "findUsername"]
    <3>1. s \in ReqState /\ s.pc = "findUsername" /\ s.email = reg[r].email
          /\ s.username = reg[r].username
      BY <1>0 DEF ReqState, Pc
    <3>2. reg' = [reg EXCEPT ![r] = s]
      BY <1>1, <2>2 DEF FindByEmail, Continue
    <3> HIDE DEF s
    <3> QED
      BY <1>0, <1>1, <3>1, <3>2, ContinueRInv DEF FindByEmail, Carries
  <2> QED
    BY <2>1, <2>2
<1>2. CASE FindByUsername(r)
  <2>1. CASE UsernameTaken(reg[r].username)
    BY <1>0, <1>2, <2>1, AnswerRInv DEF FindByUsername, UsernameTaken, Reply
  <2>2. CASE ~ UsernameTaken(reg[r].username)
    <3> DEFINE s == [reg[r] EXCEPT !.pc = "signUp"]
    <3>1. s \in ReqState /\ s.pc = "signUp" /\ s.email = reg[r].email
          /\ s.username = reg[r].username
      BY <1>0 DEF ReqState, Pc
    <3>2. reg' = [reg EXCEPT ![r] = s]
      BY <1>2, <2>2 DEF FindByUsername, Continue
    <3> HIDE DEF s
    <3> QED
      BY <1>0, <1>2, <3>1, <3>2, ContinueRInv DEF FindByUsername, Carries
  <2> QED
    BY <2>1, <2>2
<1>3. CASE Throws(r)
  BY <1>0, <1>3, AnswerRInv DEF Throws, Reply
<1>4. CASE SignUp(r)
  <2>0. reg[r].email \in Email /\ reg[r].username \in Username
    BY <1>4 DEF SignUp, Carries
  <2>1. PICK a \in {reg[r].email, Obfuscated, None} :
          reg' = [reg EXCEPT ![r].pc = "hash", ![r].account = a]
    BY <1>4 DEF SignUp
  <2> DEFINE s == [reg[r] EXCEPT !.pc = "hash", !.account = a]
  <2>2. /\ s \in ReqState /\ s.pc = "hash" /\ s.email = reg[r].email
        /\ s.username = reg[r].username /\ s.account = a
    BY <1>0, <2>0, <2>1 DEF ReqState, Account, Pc
  <2>3. reg' = [reg EXCEPT ![r] = s]
    BY <2>1
  <2> HIDE DEF s
  <2> QED
    BY <1>0, <1>4, <2>0, <2>1, <2>2, <2>3, ContinueRInv DEF SignUp
<1>5. CASE SignUpFails(r)
  <2>1. reg[r].email \in Email
    BY <1>5 DEF SignUpFails, Carries
  <2> QED
    BY <1>0, <1>5, <2>1, AnswerRInv DEF SignUpFails, Reply
<1>6. CASE Hash(r)
  <2> DEFINE s == [reg[r] EXCEPT !.pc = "create"]
  <2>1. /\ s \in ReqState /\ s.pc = "create" /\ s.email = reg[r].email
        /\ s.username = reg[r].username /\ s.account = reg[r].account
    BY <1>0 DEF ReqState, Pc
  <2>2. reg' = [reg EXCEPT ![r] = s]
    BY <1>6 DEF Hash, Continue
  <2> HIDE DEF s
  <2> QED
    BY <1>0, <1>6, <2>1, <2>2, ContinueRInv DEF Hash, Carries
<1>7. CASE Create(r)
  BY <1>7, CreateRInv
<1>8. CASE CreateConflicts(r)
  <2>1. PICK row \in users : Clash(row, reg[r])
    BY <1>8 DEF CreateConflicts
  <2>2. reg[r].account \in {reg[r].email, Obfuscated, None}
    BY <1>8 DEF CreateConflicts, Carries
  <2>3. row.account \in {row.email, Obfuscated, None}
    BY <2>1 DEF UsersHaveAccounts
  <2>4. row.email = reg[r].email \/ row.username = reg[r].username
    BY <2>1, <2>2, <2>3, RegistrationAssumption DEF Clash
  <2> QED
    BY <1>0, <1>8, <2>1, <2>4, AnswerRInv DEF CreateConflicts, Reply
<1>9. CASE CreateFails(r)
  BY <1>9, CreateFailsRInv
<1>10. CASE Finish(r)
  BY <1>0, <1>10, ForgetRInv DEF Finish
<1> QED
  BY <1>1, <1>2, <1>3, <1>4, <1>5, <1>6, <1>7, <1>8, <1>9, <1>10 DEF Step

LEMMA NextRInv == RInv /\ [Next]_vars => RInv'
<1> SUFFICES ASSUME RInv, [Next]_vars PROVE RInv'
  OBVIOUS
<1>0. accounts \in SUBSET Email
  BY DEF RInv, TypeOK
<1>1. ASSUME NEW r \in Request, NEW e \in Email, NEW u \in Username,
             Register(r, e, u)
      PROVE  RInv'
  <2> DEFINE s == [NoReq EXCEPT !.pc = "findEmail", !.email = e, !.username = u]
  <2>1. s \in ReqState /\ s.pc = "findEmail" /\ s.email = e /\ s.username = u
    BY DEF NoReq, ReqState, Account, Pc, Reply
  <2> HIDE DEF s
  <2>2. reg' = [reg EXCEPT ![r] = s]
    BY <1>1 DEF Register, s
  <2> QED
    BY <1>0, <1>1, <2>1, <2>2, ContinueRInv DEF Register
<1>2. ASSUME NEW r \in Request, Crash(r) PROVE RInv'
  BY <1>0, <1>2, ForgetRInv DEF Crash
<1>3. ASSUME NEW e \in Email, Confirm(e) PROVE RInv'
  BY <1>3 DEF Confirm, RInv, TypeOK, Carries, UsersHaveAccounts, OneWinner,
     ConflictIsReal, Told
<1>4. CASE UNCHANGED vars
  BY <1>4 DEF vars, RInv, TypeOK, Carries, UsersHaveAccounts, OneWinner,
     ConflictIsReal, Told
<1> QED
  BY <1>1, <1>2, <1>3, <1>4, StepRInv, SoftDeleteRInv DEF Next

\* The inductive invariant holds in every reachable state.
THEOREM RegistrationInvariant == Spec => []RInv
BY InitRInv, NextRInv, PTL DEF Spec

\* Type correctness of the table, the accounts and the requests.
THEOREM RegistrationTypeCorrect == Spec => []TypeOK
<1>1. RInv => TypeOK
  BY DEF RInv
<1> QED
  BY <1>1, RegistrationInvariant, PTL

\* At most one request is told that it has an email or a username.
THEOREM OneRegistrationWins == Spec => []OneWinner
<1>1. RInv => OneWinner
  BY DEF RInv
<1> QED
  BY <1>1, RegistrationInvariant, PTL

\* Every user of the table has the account of its email, and shares its names
\* with nobody.
THEOREM EveryUserHasAnAccount == Spec => []UsersHaveAccounts
<1>1. RInv => UsersHaveAccounts
  BY DEF RInv
<1> QED
  BY <1>1, RegistrationInvariant, PTL

\* A 409 has a user behind it.
THEOREM ConflictsAreReal == Spec => []ConflictIsReal
<1>1. RInv => ConflictIsReal
  BY DEF RInv
<1> QED
  BY <1>1, RegistrationInvariant, PTL

\* No step links a row with an account that is confirmed when no request
\* holds its id: signUp() no longer gives it away.
LEMMA OrphanStep ==
  ASSUME RInv, [Next]_vars, NEW e \in Email, Orphan(e)
  PROVE  Orphan(e)'
<1> USE DEF RInv
<1>0. \A r \in Request : reg[r] \in ReqState
  BY DEF TypeOK
<1>1. confirmed \subseteq confirmed'
  BY DEF Next, Step, Register, FindByEmail, FindByUsername, Throws, SignUp,
     SignUpFails, Hash, Create, CreateConflicts, CreateFails, Finish, Crash,
     SoftDelete, Confirm, vars
<1>2. \A row \in users' : row.account # e
  <2>1. ASSUME NEW r \in Request, reg[r].pc = "create", Insert(r)
        PROVE  \A row \in users' : row.account # e
    BY <2>1 DEF Insert, NewUser, Orphan
  <2>2. ASSUME NEW row \in users, SoftDelete(row)
        PROVE  \A other \in users' : other.account # e
    BY <2>2 DEF SoftDelete, Orphan, TypeOK, User
  <2>3. CASE UNCHANGED users
    BY <2>3 DEF Orphan
  <2> QED
    BY <2>1, <2>2, <2>3 DEF Next, Step, Register, FindByEmail, FindByUsername,
       Throws, SignUp, SignUpFails, Hash, Create, CreateConflicts, CreateFails,
       Finish, Crash, Confirm, vars
<1>3. ASSUME NEW q \in Request, reg'[q].pc \in {"hash", "create"}
      PROVE  reg'[q].account # e
  <2>1. CASE reg'[q] = reg[q]
    BY <1>3, <2>1 DEF Orphan
  <2>2. ASSUME NEW r \in Request, NEW f \in Email, NEW u \in Username,
               Register(r, f, u)
        PROVE  reg'[q].account # e
    BY <1>3, <2>1, <2>2 DEF Register, TypeOK, NoReq
  <2>3. CASE SignUp(q)
    <3>1. reg[q].email \in Email
      BY <2>3 DEF SignUp, Carries
    <3>2. reg'[q].account \in
            {None, IF reg[q].email \in confirmed THEN Obfuscated ELSE reg[q].email}
      BY <1>0, <2>3 DEF SignUp, TypeOK, ReqState
    <3> QED
      BY <3>1, <3>2, RegistrationAssumption DEF Orphan
  <2>4. CASE Hash(q)
    BY <1>0, <2>4 DEF Hash, Continue, Orphan, TypeOK, ReqState
  <2>5. ASSUME NEW r \in Request, NEW reply, Answer(r, reply)
        PROVE  reg'[q].account # e
    BY <1>0, <1>3, <2>1, <2>5 DEF Answer, TypeOK, ReqState
  <2>6. ASSUME NEW r \in Request, NEW pc \in {"findUsername", "signUp"},
               Continue(r, pc)
        PROVE  reg'[q].account # e
    BY <1>0, <1>3, <2>1, <2>6 DEF Continue, TypeOK, ReqState
  <2>7. ASSUME NEW r \in Request, reg' = [reg EXCEPT ![r] = NoReq]
        PROVE  reg'[q].account # e
    BY <1>3, <2>1, <2>7 DEF TypeOK, NoReq
  <2>8. ASSUME NEW r \in Request, r # q, SignUp(r) \/ Hash(r)
        PROVE  reg'[q].account # e
    BY <2>1, <2>8 DEF SignUp, Hash, Continue, TypeOK
  <2> QED
    BY <2>1, <2>2, <2>3, <2>4, <2>5, <2>6, <2>7, <2>8 DEF Next, Step,
       FindByEmail, FindByUsername, Throws, SignUpFails, Create,
       CreateConflicts, CreateFails, Finish, Crash, SoftDelete, Confirm, vars
<1> QED
  BY <1>1, <1>2, <1>3 DEF Orphan

\* An account that was confirmed while no row was linked to it, nor about to
\* be, is linked to no row ever after.
THEOREM ConfirmedOrphansStay == Spec => OrphansStayOrphans
<1>1. RInv /\ [Next]_vars => [\A e \in Email : Orphan(e) => Orphan(e)']_vars
  BY OrphanStep
<1> QED
  BY <1>1, RegistrationInvariant, PTL DEF Spec, OrphansStayOrphans
=============================================================================
