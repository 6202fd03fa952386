------------------------------ MODULE FlagStore ------------------------------
(***************************************************************************)
(* What the feature-flag loader promises its callers, without caches: a    *)
(* store of rows whose reads may be stale, but by a bounded time only.     *)
(*                                                                         *)
(* db[k] is the row of key k (None when there is none) and age[k][r] says  *)
(* how many ticks ago k last held r, saturating at MaxAge.  answer[c] is   *)
(* what call c of SystemConfigService.get() has just been given.           *)
(***************************************************************************)
EXTENDS Naturals

CONSTANTS
  Key,         \* configuration keys
  Value,       \* JSON values a row may hold
  Call,        \* concurrent calls of get()
  None,        \* no row / no answer (null, undefined)
  StaleBound   \* how stale an answer may be, in ticks

ASSUME FlagStoreAssumption ==
  /\ None \notin Value
  /\ StaleBound \in Nat

VARIABLES db, age, answer

storeVars == <<db, age, answer>>

Row == Value \cup {None}

\* Ages above the bound are not told apart.
MaxAge == StaleBound + 1

Answer == [key : Key, row : Row, failed : BOOLEAN]

StoreTypeOK ==
  /\ db \in [Key -> Row]
  /\ age \in [Key -> [Row -> 0..MaxAge]]
  /\ answer \in [Call -> Answer \cup {None}]

StoreInit ==
  /\ db \in [Key -> Row]
  /\ age = [k \in Key |-> [r \in Row |-> IF r = db[k] THEN 0 ELSE MaxAge]]
  /\ answer = [c \in Call |-> None]

-----------------------------------------------------------------------------

\* Somebody changes the row of k: Prisma Studio, a migration, the seed.
StoreWrite(k, r) ==
  /\ db' = [db EXCEPT ![k] = r]
  /\ age' = [age EXCEPT ![k][r] = 0]
  /\ UNCHANGED answer

StoreTick ==
  /\ age' = [k \in Key |-> [r \in Row |->
       IF r = db[k] THEN 0
       ELSE IF age[k][r] < MaxAge THEN age[k][r] + 1 ELSE MaxAge]]
  /\ UNCHANGED <<db, answer>>

\* A call is answered with a row held at most StaleBound ticks ago.
StoreAnswer(c, k, r) ==
  /\ answer[c] = None
  /\ age[k][r] <= StaleBound
  /\ answer' = [answer EXCEPT ![c] = [key |-> k, row |-> r, failed |-> FALSE]]
  /\ UNCHANGED <<db, age>>

\* The database could not be read: the caller gets its default value.
StoreDefault(c, k) ==
  /\ answer[c] = None
  /\ answer' = [answer EXCEPT ![c] = [key |-> k, row |-> None, failed |-> TRUE]]
  /\ UNCHANGED <<db, age>>

\* The callers in S have used their answers (or died with them).
StoreRelease(S) ==
  /\ answer' = [c \in Call |-> IF c \in S THEN None ELSE answer[c]]
  /\ UNCHANGED <<db, age>>

StoreNext ==
  \/ \E k \in Key, r \in Row : StoreWrite(k, r)
  \/ StoreTick
  \/ \E c \in Call, k \in Key, r \in Row : StoreAnswer(c, k, r)
  \/ \E c \in Call, k \in Key : StoreDefault(c, k)
  \/ \E S \in SUBSET Call : StoreRelease(S)

StoreSpec == StoreInit /\ [][StoreNext]_storeVars
=============================================================================
