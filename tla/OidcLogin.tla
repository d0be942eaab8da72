----------------------------- MODULE OidcLogin -----------------------------
(***************************************************************************)
(* Single sign-on (backend/internal/auth/oidc): a login stores a one-time  *)
(* record under a fresh state, the identity provider sends the browser     *)
(* back with the state and a code, and the callback takes the record,      *)
(* redeems the code and finds or creates the user.                         *)
(*                                                                         *)
(* Each callback is a goroutine, and each call to Redis, the provider or   *)
(* the database is a step of it.  A browser may send the same callback     *)
(* again.  The checks of nonce, verifier and claims, which always succeed  *)
(* for a code that the provider has issued for the record, are left out.   *)
(***************************************************************************)
EXTENDS Naturals, FiniteSets

CONSTANTS
  State,           \* values of the state parameter
  Callback,        \* goroutines that serve callbacks
  Account,         \* accounts at identity providers (provider and subject)
  Email,           \* Email[a]: the address that account a resolves to
  User,            \* ids of user rows, in the order Create hands them out
  None,
  MaxFailures      \* bound: calls to the database that fail

Addresses == {Email[a] : a \in Account}

OidcAssumption ==
  /\ None \notin User \cup Account \cup State /\ None \notin Addresses
  /\ IsFiniteSet(Callback)
  /\ User \subseteq Nat \ {0}
  /\ MaxFailures \in Nat

VARIABLES
  store,           \* states whose record is in Redis
  login,           \* login[s]: the account that signs in under state s
  redeemed,        \* states whose code the provider has redeemed
  pc,              \* where a callback stands
  state,           \* state[c]: the state parameter of c
  user,            \* user[c]: the user row that c has found or created
  users,           \* the table of users: addresses by id
  identities,      \* the table of identities: users by account
  failures,        \* calls to the database that have failed
  takers,          \* history: callbacks that got the record of a state
  entered,         \* history: users that logins of an account ended for
  sessions         \* history: sessions that the login of a state ended in

redisVars == <<store, takers>>
providerVars == <<login, redeemed>>
tableVars == <<users, identities>>
historyVars == <<entered, sessions>>
vars == <<redisVars, providerVars, pc, state, user, tableVars, failures, historyVars>>

Places == {"idle", "get", "del", "exchange", "identity", "email", "create", "link", "done"}

TypeOK ==
  /\ store \subseteq State
  /\ login \in [State -> Account \cup {None}]
  /\ redeemed \subseteq State
  /\ pc \in [Callback -> Places]
  /\ state \in [Callback -> State \cup {None}]
  /\ user \in [Callback -> User \cup {None}]
  /\ users \in [User -> Addresses \cup {None}]
  /\ identities \in [Account -> User \cup {None}]
  /\ failures \in 0 .. MaxFailures
  /\ takers \in [State -> SUBSET Callback]
  /\ entered \in [Account -> SUBSET User]
  /\ sessions \in [State -> 0 .. Cardinality(Callback)]

Init ==
  /\ store = {} /\ redeemed = {} /\ failures = 0
  /\ login = [s \in State |-> None]
  /\ pc = [c \in Callback |-> "idle"]
  /\ state = [c \in Callback |-> None]
  /\ user = [c \in Callback |-> None]
  /\ users = [u \in User |-> None]
  /\ identities = [a \in Account |-> None]
  /\ takers = [s \in State |-> {}]
  /\ entered = [a \in Account |-> {}]
  /\ sessions = [s \in State |-> 0]

Goto(c, place) == pc' = [pc EXCEPT ![c] = place]
AccountOf(c) == login[state[c]]

-----------------------------------------------------------------------------
(* A state is fresh: 32 random bytes.  A value is used again here only when *)
(* nothing of its last login is left.                                       *)
HandleLogin(s, a) ==
  /\ s \notin store
  /\ \A c \in Callback : state[c] # s
  /\ store' = store \cup {s}
  /\ takers' = [takers EXCEPT ![s] = {}]
  /\ login' = [login EXCEPT ![s] = a]
  /\ redeemed' = redeemed \ {s}
  /\ sessions' = [sessions EXCEPT ![s] = 0]
  /\ UNCHANGED <<pc, state, user, tableVars, failures, entered>>

(* stateTTL passes. *)
Expire(s) ==
  /\ s \in store
  /\ store' = store \ {s}
  /\ UNCHANGED <<takers, providerVars, pc, state, user, tableVars, failures, historyVars>>

HandleCallback(c, s) ==
  /\ pc[c] = "idle" /\ login[s] # None
  /\ Goto(c, "get")
  /\ state' = [state EXCEPT ![c] = s]
  /\ UNCHANGED <<redisVars, providerVars, user, tableVars, failures, historyVars>>

(* Take, first half: the record, or ErrStateNotFound. *)
TakeGet(c) ==
  /\ pc[c] = "get"
  /\ IF state[c] \in store
     THEN Goto(c, "del") /\ takers' = [takers EXCEPT ![state[c]] = @ \cup {c}]
     ELSE Goto(c, "done") /\ UNCHANGED takers
  /\ UNCHANGED <<store, providerVars, state, user, tableVars, failures, historyVars>>

(* Take, second half: a delete whose error is ignored. *)
TakeDel(c) ==
  /\ pc[c] = "del"
  /\ store' \in {store \ {state[c]}, store}
  /\ Goto(c, "exchange")
  /\ UNCHANGED <<takers, providerVars, state, user, tableVars, failures, historyVars>>

(* The provider redeems a code once. *)
Redeemed(s) == s \in redeemed

Exchange(c) ==
  /\ pc[c] = "exchange"
  /\ Goto(c, IF Redeemed(state[c]) THEN "done" ELSE "identity")
  /\ redeemed' = redeemed \cup {state[c]}
  /\ UNCHANGED <<redisVars, login, state, user, tableVars, failures, historyVars>>

-----------------------------------------------------------------------------
(* provisionUser. *)

Enter(c, u) ==
  /\ Goto(c, "done")
  /\ entered' = [entered EXCEPT ![AccountOf(c)] = @ \cup {u}]
  /\ sessions' = [sessions EXCEPT ![state[c]] = @ + 1]

(* An account that is linked acts for its user. *)
LookupIdentity(c) ==
  /\ pc[c] = "identity"
  /\ LET u == identities[AccountOf(c)] IN
       IF u # None THEN Enter(c, u) ELSE Goto(c, "email") /\ UNCHANGED historyVars
  /\ UNCHANGED <<redisVars, providerVars, state, user, tableVars, failures>>

WithAddress(a) == {u \in User : users[u] = Email[a]}

LookupEmailNever(c) ==                           \* mutant of LookupEmail
  /\ pc[c] = "email"
  /\ Goto(c, "create") /\ UNCHANGED user
  /\ UNCHANGED <<redisVars, providerVars, state, tableVars, failures, historyVars>>

LookupEmail(c) ==
  /\ pc[c] = "email"
  /\ IF WithAddress(AccountOf(c)) = {}
     THEN Goto(c, "create") /\ UNCHANGED user
     ELSE /\ Goto(c, "link")
          /\ \E u \in WithAddress(AccountOf(c)) : user' = [user EXCEPT ![c] = u]
  /\ UNCHANGED <<redisVars, providerVars, state, tableVars, failures, historyVars>>

FreeIds == {u \in User : users[u] = None}

AddressIsFreeAlways(a) == TRUE                   \* mutant of AddressIsFree

(* The unique index on the address. *)
AddressIsFree(a) == WithAddress(a) = {}

CreateUser(c) ==
  /\ pc[c] = "create"
  /\ IF AddressIsFree(AccountOf(c))
     THEN \E u \in FreeIds :
            /\ \A v \in FreeIds : u <= v
            /\ users' = [users EXCEPT ![u] = Email[AccountOf(c)]]
            /\ user' = [user EXCEPT ![c] = u]
            /\ Goto(c, "link")
     ELSE Goto(c, "done") /\ UNCHANGED <<users, user>>
  /\ UNCHANGED <<redisVars, providerVars, state, identities, failures, historyVars>>

(* The unique index on provider and subject. *)
CreateIdentity(c) ==
  /\ pc[c] = "link"
  /\ IF identities[AccountOf(c)] = None
     THEN /\ identities' = [identities EXCEPT ![AccountOf(c)] = user[c]]
          /\ Enter(c, user[c])
     ELSE Goto(c, "done") /\ UNCHANGED <<identities, historyVars>>
  /\ UNCHANGED <<redisVars, providerVars, state, user, users, failures>>

(* Any of the four queries may fail: the browser is sent back with an error. *)
DatabaseFails(c) ==
  /\ pc[c] \in {"identity", "email", "create", "link"}
  /\ failures < MaxFailures
  /\ failures' = failures + 1
  /\ Goto(c, "done")
  /\ UNCHANGED <<redisVars, providerVars, state, user, tableVars, historyVars>>

Return(c) ==
  /\ pc[c] = "done"
  /\ Goto(c, "idle")
  /\ state' = [state EXCEPT ![c] = None]
  /\ user' = [user EXCEPT ![c] = None]
  /\ UNCHANGED <<redisVars, providerVars, tableVars, failures, historyVars>>

Run(c) ==
  \/ TakeGet(c) \/ TakeDel(c) \/ Exchange(c)
  \/ LookupIdentity(c) \/ LookupEmail(c) \/ CreateUser(c) \/ CreateIdentity(c)
  \/ Return(c)

Next ==
  \/ \E s \in State : Expire(s) \/ \E a \in Account : HandleLogin(s, a)
  \/ \E c \in Callback :
       (\E s \in State : HandleCallback(c, s)) \/ Run(c) \/ DatabaseFails(c)

Spec == Init /\ [][Next]_vars

(* Goroutines run; people, browsers and providers need not. *)
FairSpec == Spec /\ \A c \in Callback : WF_vars(Run(c))

-----------------------------------------------------------------------------
(***************************************************************************)
(* A person is one user: whichever first logins race and wherever they     *)
(* fail, an account always acts for the same user, and accounts with the   *)
(* same address, of whatever provider, for the same one (provisionUser,    *)
(* handlers.go:207-210).                                                   *)
(***************************************************************************)
OneUserPerPerson ==
  \A a, b \in Account :
    Email[a] = Email[b] => Cardinality(entered[a] \cup entered[b]) <= 1

(***************************************************************************)
(* One login ends in at most one session, even where the record of its     *)
(* state is taken twice: the provider's code is the second lock.           *)
(***************************************************************************)
OneSessionPerLogin == \A s \in State : sessions[s] <= 1

(***************************************************************************)
(* What a failed or overtaken first login leaves behind never locks the    *)
(* account out: who keeps coming back from the provider gets in.           *)
(***************************************************************************)
Returning(a) ==
  []<>(\E c \in Callback : pc[c] = "identity" /\ AccountOf(c) = a)

ReturningGetsIn == \A a \in Account : Returning(a) => <>(entered[a] # {})

(***************************************************************************)
(* state.go:45: "Take returns the record and atomically deletes it         *)
(* (single-use, prevents replay)."                                         *)
(***************************************************************************)
TakenOnce == \A s \in State : Cardinality(takers[s]) <= 1
=============================================================================
