-------------------------- MODULE ConsoleSession --------------------------
(***************************************************************************)
(* The admin console's session in one browser tab: the token in the        *)
(* browser's storage, the screen App.tsx chooses, the tenant list every    *)
(* screen depends on, and the requests whose answers may still arrive      *)
(* after the session they were sent for has ended.                         *)
(*                                                                         *)
(* A request carries the token that is stored when it is sent, and any     *)
(* answer 401 ends the session of the moment, whatever token the request   *)
(* carried.  A request that React Query gave up is not aborted: its answer *)
(* still passes through the interceptor.                                   *)
(***************************************************************************)
EXTENDS Naturals, FiniteSets

CONSTANTS Users,        \* people who can sign in
          Tokens,       \* admin tokens the gateway may issue
          Owner,        \* Owner[t]: the user token t is issued to
          Tenants,      \* tenants
          Retries,      \* how often React Query repeats a failed request
          NoToken, NoUser

ASSUME SessionAssumption ==
  /\ Owner \in [Tokens -> Users]
  /\ Retries \in Nat
  /\ NoToken \notin Tokens
  /\ NoUser \notin Users

ASSUME UrlAssumption == "app" \notin Tokens /\ "failed" \notin Tokens

VARIABLES
  standing,   \* standing[t]: what the gateway thinks of token t
  member,     \* member[u]: the tenants of user u
  url,        \* "app", "failed" (a callback with an error) or a callback's token
  loaded,     \* the page has been loaded and runs
  token,      \* the stored token
  authed,     \* App's isAuthenticated
  list,       \* the query of the tenant list
  login,      \* the user whose sign-in is unanswered
  creating,   \* the token of the unanswered creation of an organization
  others,     \* the tokens of all other unanswered requests
  clean,      \* history: no request of another session was unanswered at sign-in
  landings,   \* history: tokens handed over in a callback URL
  consumed    \* history: tokens taken from a callback URL

vars == <<standing, member, url, loaded, token, authed, list, login, creating,
          others, clean, landings, consumed>>

Standings == {"unissued", "accepted", "refused", "expired"}
ListState == [status : {"pending", "success", "error"},
              fetch  : {"idle", "waiting", "sent"},
              sentAs : Tokens \cup {NoToken},   \* token of the request under way
              fails  : 0..Retries,
              owner  : Users \cup {NoUser},     \* whose list is shown, if any
              data   : SUBSET Tenants]

TypeOK ==
  /\ standing \in [Tokens -> Standings]
  /\ member \in [Users -> SUBSET Tenants]
  /\ url \in {"app", "failed"} \cup Tokens
  /\ loaded \in BOOLEAN
  /\ token \in Tokens \cup {NoToken}
  /\ authed \in BOOLEAN
  /\ list \in ListState
  /\ login \in Users \cup {NoUser}
  /\ creating \in Tokens \cup {NoToken}
  /\ others \subseteq Tokens \cup {NoToken}
  /\ clean \in BOOLEAN
  /\ landings \in Nat
  /\ consumed \in Nat

----------------------------------------------------------------------------
(* The query of the tenant list, as React Query runs it.                   *)

Loaded(l) == l.owner # NoUser          \* the query holds data

NewFetch(l, t) == [status |-> IF Loaded(l) THEN l.status ELSE "pending",
                   fetch |-> "sent", sentAs |-> t, fails |-> 0,
                   owner |-> l.owner, data |-> l.data]

Failed(l) ==
  LET again == l.fails < Retries
  IN  [status |-> IF again THEN l.status ELSE "error",
       fetch  |-> IF again THEN "waiting" ELSE "idle", sentAs |-> l.sentAs,
       fails  |-> IF again THEN l.fails + 1 ELSE 0,
       owner  |-> l.owner, data |-> l.data]

\* A fetch under way is only abandoned when the query already holds data.
Abandoned(l)  == l.fetch = "idle" \/ Loaded(l)
Invalidate(l, t) == IF Abandoned(l) THEN NewFetch(l, t) ELSE l
LeftBehind(l) == IF Abandoned(l) /\ l.fetch = "sent" THEN {l.sentAs} ELSE {}

Empty == [status |-> "pending", fetch |-> "idle", sentAs |-> NoToken,
          fails |-> 0, owner |-> NoUser, data |-> {}]

----------------------------------------------------------------------------
Accepts(t) == t # NoToken /\ standing[t] = "accepted"

\* isTokenValid reads the expiry only: it cannot know that the gateway was
\* restarted with another signing key.
IsTokenValid(t) == t # NoToken /\ standing[t] \in {"accepted", "refused"}

\* The screen App renders.
Screen == CASE ~loaded -> "none"
            [] loaded /\ ~authed -> "login"
            [] loaded /\ authed /\ list.status = "pending" /\ list.fetch # "idle"
                 -> "loading"
            [] loaded /\ authed /\ ~(list.status = "pending" /\ list.fetch # "idle")
                 -> IF list.data = {} THEN "onboarding" ELSE "console"

TokenDropped == token' = NoToken /\ UNCHANGED authed   \* mutant: no event

SessionEnds == token' = NoToken /\ authed' = FALSE

\* The response interceptor: status is the answer's status, the rest of the
\* state is the caller's.
InterceptedAnyError(status) ==       \* mutant: every error ends the session
  IF status # 200 THEN SessionEnds ELSE UNCHANGED <<token, authed>>

Intercepted(status) == IF status = 401 THEN SessionEnds ELSE UNCHANGED <<token, authed>>

\* What a request sent with token t may be answered: a request can always fail
\* for another reason (status 0 stands for every other error).
Answers(t) == {0} \cup (IF Accepts(t) THEN {200} ELSE {401})

Unanswered == others \cup (IF list.fetch = "sent" THEN {list.sentAs} ELSE {})
                     \cup (IF creating # NoToken THEN {creating} ELSE {})

----------------------------------------------------------------------------
(* The page                                                                *)

\* Loading the page ends everything that ran in it, takes a token or an error
\* from a callback URL, and scrubs the URL.

ConsumeAuthCallback ==
  /\ url' = "app"
  /\ IF url \in Tokens
     THEN token' = url /\ consumed' = consumed + 1
     ELSE UNCHANGED <<token, consumed>>

Load ==
  /\ ConsumeAuthCallback
  /\ loaded' = TRUE
  /\ authed' = (url \in Tokens \/ IsTokenValid(token'))
  /\ list' = NewFetch(Empty, token')
  /\ login' = NoUser /\ creating' = NoToken /\ others' = {}
  /\ clean' = TRUE
  /\ UNCHANGED <<standing, member, landings>>

\* An SSO sign-in leaves the page and comes back to the callback URL.
ContinueWithProvider(result) ==
  /\ Screen = "login"
  /\ \/ /\ result \in Tokens
        /\ standing[result] = "unissued"
        /\ standing' = [standing EXCEPT ![result] = "accepted"]
        /\ landings' = landings + 1
     \/ /\ result = "failed"
        /\ UNCHANGED <<standing, landings>>
  /\ url' = result
  /\ loaded' = FALSE
  /\ list' = Empty /\ login' = NoUser /\ creating' = NoToken /\ others' = {}
  /\ UNCHANGED <<member, token, authed, clean, consumed>>

SubmitLogin(u) ==
  /\ Screen = "login"
  /\ login = NoUser
  /\ login' = u
  /\ UNCHANGED <<standing, member, url, loaded, token, authed, list, creating,
                 others, clean, landings, consumed>>

LoginWithoutRefresh(t) ==            \* mutant: the queries are not invalidated
  /\ login = Owner[t]
  /\ standing[t] = "unissued"
  /\ standing' = [standing EXCEPT ![t] = "accepted"]
  /\ token' = t
  /\ authed' = TRUE
  /\ clean' = (Unanswered = {})
  /\ login' = NoUser
  /\ UNCHANGED <<member, url, loaded, list, creating, others, landings, consumed>>

\* The token is stored before the queries are invalidated, so the new fetch
\* carries it.
LoginAccepted(t) ==
  /\ login = Owner[t]
  /\ standing[t] = "unissued"
  /\ standing' = [standing EXCEPT ![t] = "accepted"]
  /\ token' = t
  /\ authed' = TRUE
  /\ list' = Invalidate(list, t)
  /\ others' = others \cup LeftBehind(list)
  /\ clean' = (Unanswered = {})
  /\ login' = NoUser
  /\ UNCHANGED <<member, url, loaded, creating, landings, consumed>>

LoginRefused(status) ==
  /\ login # NoUser
  /\ Intercepted(status)
  /\ login' = NoUser
  /\ UNCHANGED <<standing, member, url, loaded, list, creating, others, clean,
                 landings, consumed>>

SignOut ==
  /\ Screen = "console"
  /\ SessionEnds
  /\ UNCHANGED <<standing, member, url, loaded, list, login, creating, others,
                 clean, landings, consumed>>

----------------------------------------------------------------------------
(* Requests and their answers                                              *)

TenantsAnswered(status) ==
  /\ list.fetch = "sent"
  /\ status \in Answers(list.sentAs)
  /\ Intercepted(status)
  /\ list' = IF status = 200
             THEN [status |-> "success", fetch |-> "idle", sentAs |-> list.sentAs,
                   fails |-> 0, owner |-> Owner[list.sentAs],
                   data |-> member[Owner[list.sentAs]]]
             ELSE Failed(list)
  /\ UNCHANGED <<standing, member, url, loaded, login, creating, others, clean,
                 landings, consumed>>

Retry ==
  /\ list.fetch = "waiting"
  /\ list' = [list EXCEPT !.fetch = "sent", !.sentAs = token]
  /\ UNCHANGED <<standing, member, url, loaded, token, authed, login, creating,
                 others, clean, landings, consumed>>

Focus ==
  /\ loaded
  /\ list.fetch = "idle"
  /\ list' = NewFetch(list, token)
  /\ UNCHANGED <<standing, member, url, loaded, token, authed, login, creating,
                 others, clean, landings, consumed>>

PageRequest ==
  /\ Screen = "console"
  /\ others' = others \cup {token}
  /\ UNCHANGED <<standing, member, url, loaded, token, authed, list, login,
                 creating, clean, landings, consumed>>

OtherAnswered(t, status) ==
  /\ t \in others
  /\ status \in Answers(t)
  /\ Intercepted(status)
  /\ others' = others \ {t}
  /\ UNCHANGED <<standing, member, url, loaded, list, login, creating, clean,
                 landings, consumed>>

CreateOrganization ==
  /\ Screen = "onboarding"
  /\ creating = NoToken
  /\ creating' = token
  /\ UNCHANGED <<standing, member, url, loaded, token, authed, list, login,
                 others, clean, landings, consumed>>

\* On success every query is invalidated; the form stays until the new list
\* shows the organization, as App passes no onComplete.
OrganizationAnswered(status, n) ==
  /\ creating # NoToken
  /\ status \in Answers(creating)
  /\ Intercepted(status)
  /\ IF status = 200
     THEN /\ \A u \in Users : n \notin member[u]
          /\ member' = [member EXCEPT ![Owner[creating]] = @ \cup {n}]
          /\ list' = Invalidate(list, token)
          /\ others' = others \cup LeftBehind(list)
     ELSE UNCHANGED <<member, list, others>>
  /\ creating' = NoToken
  /\ UNCHANGED <<standing, url, loaded, login, clean, landings, consumed>>

----------------------------------------------------------------------------
(* The gateway                                                             *)

Expire(t) ==
  /\ standing[t] \in {"accepted", "refused"}
  /\ standing' = [standing EXCEPT ![t] = "expired"]
  /\ UNCHANGED <<member, url, loaded, token, authed, list, login, creating,
                 others, clean, landings, consumed>>

\* Without JWT_SECRET the gateway signs with a key it draws when it starts.
RestartGateway ==
  /\ standing' = [t \in Tokens |->
                    IF standing[t] = "accepted" THEN "refused" ELSE standing[t]]
  /\ UNCHANGED <<member, url, loaded, token, authed, list, login, creating,
                 others, clean, landings, consumed>>

----------------------------------------------------------------------------
Init ==
  /\ standing = [t \in Tokens |-> "unissued"]
  /\ member \in [Users -> SUBSET Tenants]
  /\ url = "app" /\ loaded = FALSE
  /\ token = NoToken /\ authed = FALSE
  /\ list = Empty
  /\ login = NoUser /\ creating = NoToken /\ others = {}
  /\ clean = TRUE
  /\ landings = 0 /\ consumed = 0

Answered ==
  \/ \E s \in {0, 200, 401} : TenantsAnswered(s)
  \/ \E t \in Tokens : LoginAccepted(t)
  \/ \E s \in {0, 401} : LoginRefused(s)
  \/ \E t \in Tokens \cup {NoToken}, s \in {0, 200, 401} : OtherAnswered(t, s)
  \/ \E s \in {0, 200, 401}, n \in Tenants : OrganizationAnswered(s, n)

Next ==
  \/ Load
  \/ \E r \in Tokens \cup {"failed"} : ContinueWithProvider(r)
  \/ \E u \in Users : SubmitLogin(u)
  \/ SignOut
  \/ Retry
  \/ Focus
  \/ PageRequest
  \/ CreateOrganization
  \/ Answered
  \/ \E t \in Tokens : Expire(t)
  \/ RestartGateway

\* The tenant list's request is answered, by the gateway or by the proxy's read
\* timeout, and a repetition that waits is sent.
Fairness == /\ WF_vars(\E s \in {0, 200, 401} : TenantsAnswered(s))
            /\ WF_vars(Retry)

Spec == Init /\ [][Next]_vars
LiveSpec == Spec /\ Fairness

----------------------------------------------------------------------------
(* What a session is promised.                                             *)

\* The console is never shown without a stored token: whatever ends the session
\* changes the storage and the screen together, and an answer that comes late
\* cannot take one without the other (auth-storage.ts, App.tsx).
SessionMatchesToken == authed => token \in Tokens

\* A session that begins when no request of an earlier one is unanswered lasts
\* until the user signs out, leaves the page, or the gateway stops accepting its
\* token: failed requests, retries and abandoned fetches never end it
\* (client.ts:18-26).
UndisturbedSessionLasts ==
  [][ (authed /\ clean /\ Accepts(token) /\ ~authed') => SignOut ]_vars

\* A tenant list that is shown, unchallenged by a fetch or an error, belongs to
\* the user who is signed in, although the query outlives the session that
\* loaded it (auth.ts:24-26).
ListBelongsToSession ==
  (authed /\ clean /\ list.status = "success" /\ list.fetch = "idle")
    => list.owner = Owner[token]

\* A token that came in a callback URL starts one session: no later load of the
\* page finds it again (oidc.ts:53-54).
CallbackNotReplayed == consumed <= landings

\* The loading screen is left, whatever the requests are answered, unless the
\* user keeps loading the page again (App.tsx:90-96).
LoadingEnds == []<><<Load>>_vars \/ ((Screen = "loading") ~> (Screen # "loading"))

\* The onboarding screen says "You're not part of an organization yet": the
\* gateway has answered so (Onboarding.tsx).
OnboardingIsTrue == (Screen = "onboarding") => (list.status # "error" \/ Loaded(list))
=============================================================================
