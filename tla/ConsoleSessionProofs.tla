----------------------- MODULE ConsoleSessionProofs -----------------------
(***************************************************************************)
(* What a console session keeps for any users, tokens, tenants and number  *)
(* of retries, and what the console keeps around its pages: the frame, the *)
(* Traces page, the tree of a trace's spans, and the theme.                *)
(***************************************************************************)
EXTENDS MCConsoleSession, FiniteSetTheorems, SequenceTheorems, WellFoundedInduction, TLAPS

\* The strengthening: in a session that began undisturbed every request that may
\* still be answered carries the session's token.
SignedInNotSigningIn == authed => login = NoUser
RequestsCarryToken ==
  (authed /\ clean) => /\ list.fetch = "sent" => list.sentAs = token
                       /\ others \subseteq {token}
                       /\ creating \in {token, NoToken}

IInv == TypeOK /\ SessionMatchesToken /\ SignedInNotSigningIn
          /\ RequestsCarryToken /\ ListBelongsToSession

\* What the query cache does to an entry keeps the entry's type.
LEMMA FetchTyping ==
  ASSUME NEW l \in ListState, NEW t \in Tokens \cup {NoToken}
  PROVE  /\ NewFetch(l, t) \in ListState
         /\ NewFetch(l, t).fetch = "sent" /\ NewFetch(l, t).sentAs = t
         /\ Invalidate(l, t) \in ListState
         /\ Failed(l) \in ListState
         /\ LeftBehind(l) \subseteq Tokens \cup {NoToken}
<1> USE SessionAssumption DEF ListState
<1>1. /\ NewFetch(l, t) \in ListState
      /\ NewFetch(l, t).fetch = "sent" /\ NewFetch(l, t).sentAs = t
  BY DEF NewFetch, Loaded
<1>2. Invalidate(l, t) \in ListState
  BY <1>1 DEF Invalidate
<1>3. Failed(l) \in ListState
  BY DEF Failed
<1>4. LeftBehind(l) \subseteq Tokens \cup {NoToken}
  BY DEF LeftBehind
<1> QED
  BY <1>1, <1>2, <1>3, <1>4

\* A cleared query cache holds nothing and has sent nothing.
LEMMA EmptyTyping == Empty \in ListState /\ Empty.fetch = "idle" /\ Empty.status = "pending"
BY SessionAssumption DEF Empty, ListState

\* The invariant holds when the browser first opens the console.
LEMMA InitIInv == Init => IInv
<1> SUFFICES ASSUME Init PROVE IInv
  OBVIOUS
<1>1. TypeOK
  <2>1. member \in [Users -> SUBSET Tenants]
    BY DEF Init
  <2>2. list \in ListState
    BY EmptyTyping DEF Init
  <2> QED
    BY <2>1, <2>2 DEF Init, TypeOK, Standings
<1>2. ~authed
  BY DEF Init
<1> QED
  BY <1>1, <1>2 DEF IInv, SessionMatchesToken, SignedInNotSigningIn,
     RequestsCarryToken, ListBelongsToSession

\* What an answer may do to the session.
LEMMA AnswerEffect ==
  ASSUME TypeOK, SessionMatchesToken, NEW status, Intercepted(status)
  PROVE  /\ token' \in Tokens \cup {NoToken} /\ authed' \in BOOLEAN
         /\ authed' => authed /\ token' = token
         /\ authed' => token' \in Tokens
         /\ status # 401 => (authed' = authed /\ token' = token)
<1>1. CASE status = 401
  BY <1>1 DEF Intercepted, SessionEnds, TypeOK
<1>2. CASE status # 401
  <2>1. token' = token /\ authed' = authed
    BY <1>2 DEF Intercepted
  <2> QED
    BY <2>1, <1>2 DEF TypeOK, SessionMatchesToken
<1> QED
  BY <1>1, <1>2

\* A request answered 401 signs out and keeps the types (client.ts:18-26).
LEMMA RefusalTyping ==
  ASSUME TypeOK, token' \in Tokens \cup {NoToken}, authed' \in BOOLEAN, login' = NoUser,
         UNCHANGED <<standing, member, url, loaded, list, creating, others, clean,
                     landings, consumed>>
  PROVE  TypeOK'
BY DEF TypeOK

\* Loading a page, with or without a callback in its URL, keeps the invariant.
LEMMA LoadStep == IInv /\ Load => IInv'
<1> SUFFICES ASSUME IInv, Load PROVE IInv'
  OBVIOUS
<1> USE SessionAssumption DEF IInv, TypeOK
<1>1. /\ token' \in Tokens \cup {NoToken} /\ url' = "app" /\ consumed' \in Nat
      /\ url \in Tokens => token' \in Tokens
  BY DEF Load, ConsumeAuthCallback
<1>2. authed' \in BOOLEAN /\ (authed' => token' \in Tokens)
  BY <1>1 DEF Load, IsTokenValid
<1>3. /\ list' \in ListState /\ list'.fetch = "sent" /\ list'.sentAs = token'
  BY <1>1, EmptyTyping, FetchTyping DEF Load
<1>4. TypeOK'
  BY <1>1, <1>2, <1>3 DEF Load
<1>5. SignedInNotSigningIn' /\ SessionMatchesToken' /\ RequestsCarryToken'
  BY <1>2, <1>3 DEF Load, SignedInNotSigningIn, SessionMatchesToken, RequestsCarryToken
<1>6. ListBelongsToSession'
  BY <1>3 DEF ListBelongsToSession
<1> QED
  BY <1>4, <1>5, <1>6

\* Signing in, being refused and signing out keep the invariant (auth.ts).
LEMMA SignInStep ==
  ASSUME IInv,
         \/ \E r \in Tokens \cup {"failed"} : ContinueWithProvider(r)
         \/ \E u \in Users : SubmitLogin(u)
         \/ \E t \in Tokens : LoginAccepted(t)
         \/ \E s \in {0, 401} : LoginRefused(s)
         \/ SignOut
  PROVE  IInv'
<1> USE SessionAssumption
    DEF IInv, TypeOK, Standings, SessionMatchesToken, SignedInNotSigningIn,
        RequestsCarryToken, ListBelongsToSession
<1>1. ASSUME NEW r \in Tokens \cup {"failed"}, ContinueWithProvider(r) PROVE IInv'
  <2>1. ~authed
    BY <1>1 DEF ContinueWithProvider, Screen
  <2>2. standing' \in [Tokens -> Standings] /\ landings' \in Nat
    BY <1>1 DEF ContinueWithProvider
  <2> QED
    BY <1>1, <2>1, <2>2, EmptyTyping DEF ContinueWithProvider
<1>2. ASSUME NEW u \in Users, SubmitLogin(u) PROVE IInv'
  <2>1. ~authed
    BY <1>2 DEF SubmitLogin, Screen
  <2> QED
    BY <1>2, <2>1 DEF SubmitLogin
<1>3. ASSUME NEW t \in Tokens, LoginAccepted(t) PROVE IInv'
  <2>1. list' \in ListState /\ LeftBehind(list) \subseteq Tokens \cup {NoToken}
    BY <1>3, FetchTyping DEF LoginAccepted
  <2>2. standing' \in [Tokens -> Standings]
    BY <1>3 DEF LoginAccepted
  <2>3. TypeOK'
    BY <1>3, <2>1, <2>2 DEF LoginAccepted
  <2>4. SessionMatchesToken' /\ SignedInNotSigningIn'
    BY <1>3 DEF LoginAccepted
  <2>5. clean' => list.fetch # "sent" /\ creating = NoToken /\ others = {}
    BY <1>3 DEF LoginAccepted, Unanswered
  <2>6. CASE Abandoned(list)
    <3>1. list'.fetch = "sent" /\ list'.sentAs = token'
      BY <1>3, <2>6, FetchTyping DEF LoginAccepted, Invalidate
    <3>2. clean' => LeftBehind(list) = {}
      BY <2>5 DEF LeftBehind
    <3> QED
      BY <1>3, <2>3, <2>4, <2>5, <3>1, <3>2 DEF LoginAccepted
  <2>7. CASE ~Abandoned(list)
    <3>1. list' = list /\ list.fetch # "idle" /\ LeftBehind(list) = {}
      BY <1>3, <2>7 DEF LoginAccepted, Invalidate, Abandoned, LeftBehind
    <3> QED
      BY <1>3, <2>3, <2>4, <2>5, <3>1 DEF LoginAccepted
  <2> QED
    BY <2>6, <2>7
<1>4. ASSUME NEW s \in {0, 401}, LoginRefused(s) PROVE IInv'
  <2>1. ~authed
    BY <1>4 DEF LoginRefused
  <2>2. token' \in Tokens \cup {NoToken} /\ authed' = FALSE
    BY <1>4, <2>1, AnswerEffect DEF LoginRefused
  <2>3. /\ UNCHANGED <<standing, member, url, loaded, list, creating, others, clean,
                        landings, consumed>>
        /\ login' = NoUser
    BY <1>4 DEF LoginRefused
  <2>4. TypeOK'
    BY <2>2, <2>3, RefusalTyping
  <2> QED
    BY <2>2, <2>4
<1>5. ASSUME SignOut PROVE IInv'
  BY <1>5 DEF SignOut, SessionEnds
<1> QED
  BY <1>1, <1>2, <1>3, <1>4, <1>5

\* Answers, retries and refetches of the list of tenants keep the invariant.
LEMMA QueryStep ==
  ASSUME IInv, (\E s \in {0, 200, 401} : TenantsAnswered(s)) \/ Retry \/ Focus
  PROVE  IInv'
<1> USE SessionAssumption
    DEF IInv, TypeOK, SessionMatchesToken, SignedInNotSigningIn,
        RequestsCarryToken, ListBelongsToSession
<1>1. ASSUME NEW s \in {0, 200, 401}, TenantsAnswered(s) PROVE IInv'
  <2>1. /\ token' \in Tokens \cup {NoToken} /\ authed' \in BOOLEAN
        /\ authed' => authed /\ token' = token /\ token' \in Tokens
    BY <1>1, AnswerEffect DEF TenantsAnswered
  <2>2. CASE s = 200
    <3>1. list.sentAs \in Tokens
      BY <1>1, <2>2 DEF TenantsAnswered, Answers, Accepts, ListState
    <3>2. list' = [status |-> "success", fetch |-> "idle", sentAs |-> list.sentAs,
                   fails |-> 0, owner |-> Owner[list.sentAs],
                   data |-> member[Owner[list.sentAs]]]
      BY <1>1, <2>2 DEF TenantsAnswered
    <3>3. /\ list' \in ListState
          /\ list'.owner = Owner[list.sentAs] /\ list'.fetch = "idle"
      BY <3>1, <3>2 DEF ListState
    <3>5. TypeOK'
      BY <1>1, <2>1, <3>3 DEF TenantsAnswered
    <3>6. RequestsCarryToken' /\ SignedInNotSigningIn' /\ SessionMatchesToken'
      BY <1>1, <2>1, <3>3 DEF TenantsAnswered
    <3>7. ListBelongsToSession'
      BY <1>1, <2>1, <3>3 DEF TenantsAnswered
    <3> QED
      BY <3>5, <3>6, <3>7
  <2>3. CASE s # 200
    <3>1. list' = Failed(list) /\ list' \in ListState
      BY <1>1, <2>3, FetchTyping DEF TenantsAnswered
    <3>2. list'.fetch # "sent" /\ (list'.fetch = "idle" => list'.status = "error")
      BY <3>1 DEF Failed, ListState
    <3>3. TypeOK'
      BY <1>1, <2>1, <3>1 DEF TenantsAnswered
    <3> QED
      BY <1>1, <2>1, <3>2, <3>3 DEF TenantsAnswered
  <2> QED
    BY <2>2, <2>3
<1>2. ASSUME Retry PROVE IInv'
  <2>1. /\ list' \in ListState /\ list'.fetch = "sent" /\ list'.sentAs = token
    BY <1>2 DEF Retry, ListState
  <2> QED
    BY <1>2, <2>1 DEF Retry
<1>3. ASSUME Focus PROVE IInv'
  <2>1. /\ list' \in ListState /\ list'.fetch = "sent" /\ list'.sentAs = token
    BY <1>3, FetchTyping DEF Focus
  <2> QED
    BY <1>3, <2>1 DEF Focus
<1> QED
  BY <1>1, <1>2, <1>3

\* The pages' other requests and their answers keep the invariant.
LEMMA RequestStep ==
  ASSUME IInv,
         \/ PageRequest \/ CreateOrganization
         \/ \E t \in Tokens \cup {NoToken}, s \in {0, 200, 401} : OtherAnswered(t, s)
         \/ \E s \in {0, 200, 401}, n \in Tenants : OrganizationAnswered(s, n)
  PROVE  IInv'
<1> USE SessionAssumption
    DEF IInv, TypeOK, SessionMatchesToken, SignedInNotSigningIn,
        RequestsCarryToken, ListBelongsToSession
<1>1. ASSUME PageRequest PROVE IInv'
  BY <1>1 DEF PageRequest
<1>2. ASSUME CreateOrganization PROVE IInv'
  BY <1>2 DEF CreateOrganization
<1>3. ASSUME NEW t \in Tokens \cup {NoToken}, NEW s \in {0, 200, 401}, OtherAnswered(t, s)
      PROVE  IInv'
  <2>1. /\ token' \in Tokens \cup {NoToken} /\ authed' \in BOOLEAN
        /\ authed' => authed /\ token' = token /\ token' \in Tokens
    BY <1>3, AnswerEffect DEF OtherAnswered
  <2>2. TypeOK'
    BY <1>3, <2>1 DEF OtherAnswered
  <2> QED
    BY <1>3, <2>1, <2>2 DEF OtherAnswered
<1>4. ASSUME NEW s \in {0, 200, 401}, NEW n \in Tenants, OrganizationAnswered(s, n)
      PROVE  IInv'
  <2>1. /\ token' \in Tokens \cup {NoToken} /\ authed' \in BOOLEAN
        /\ authed' => authed /\ token' = token /\ token' \in Tokens
    BY <1>4, AnswerEffect DEF OrganizationAnswered
  <2>2. CASE s # 200
    <3>1. UNCHANGED <<member, list, others>> /\ creating' = NoToken
      BY <1>4, <2>2 DEF OrganizationAnswered
    <3>2. TypeOK'
      BY <1>4, <2>1, <3>1 DEF OrganizationAnswered
    <3> QED
      BY <1>4, <2>1, <3>1, <3>2 DEF OrganizationAnswered
  <2>3. CASE s = 200
    <3>1. creating \in Tokens /\ token' = token /\ authed' = authed
      BY <1>4, <2>3, AnswerEffect DEF OrganizationAnswered, Answers, Accepts
    <3>2. member' \in [Users -> SUBSET Tenants]
      BY <1>4, <2>3, <3>1 DEF OrganizationAnswered
    <3>3. /\ list' = Invalidate(list, token) /\ list' \in ListState
          /\ others' = others \cup LeftBehind(list)
          /\ LeftBehind(list) \subseteq Tokens \cup {NoToken}
      BY <1>4, <2>3, FetchTyping DEF OrganizationAnswered
    <3>4. TypeOK'
      BY <1>4, <2>1, <3>2, <3>3 DEF OrganizationAnswered
    <3>5. (authed /\ clean) => LeftBehind(list) \subseteq {token}
      BY DEF LeftBehind
    <3>6. CASE Abandoned(list)
      <4>1. list'.fetch = "sent" /\ list'.sentAs = token
        BY <3>3, <3>6, FetchTyping DEF Invalidate
      <4> QED
        BY <1>4, <3>1, <3>3, <3>4, <3>5, <4>1 DEF OrganizationAnswered
    <3>7. CASE ~Abandoned(list)
      <4>1. list' = list
        BY <3>3, <3>7 DEF Invalidate
      <4> QED
        BY <1>4, <3>1, <3>3, <3>4, <3>5, <4>1 DEF OrganizationAnswered
    <3> QED
      BY <3>6, <3>7
  <2> QED
    BY <2>2, <2>3
<1> QED
  BY <1>1, <1>2, <1>3, <1>4

\* A token that expires and a gateway that restarts keep the invariant.
LEMMA GatewayStep ==
  ASSUME IInv, (\E t \in Tokens : Expire(t)) \/ RestartGateway
  PROVE  IInv'
<1>1. UNCHANGED <<member, url, loaded, token, authed, list, login, creating,
                  others, clean, landings, consumed>>
  BY DEF Expire, RestartGateway
<1>2. standing' \in [Tokens -> Standings]
  BY DEF Expire, RestartGateway, IInv, TypeOK, Standings
<1> QED
  BY <1>1, <1>2 DEF IInv, TypeOK, SessionMatchesToken, SignedInNotSigningIn,
     RequestsCarryToken, ListBelongsToSession

\* Every step of the console keeps the invariant.
LEMMA NextStep == IInv /\ [Next]_vars => IInv'
<1> SUFFICES ASSUME IInv, [Next]_vars PROVE IInv'
  OBVIOUS
<1>1. CASE UNCHANGED vars
  BY <1>1 DEF vars, IInv, TypeOK, SessionMatchesToken, SignedInNotSigningIn,
     RequestsCarryToken, ListBelongsToSession
<1>2. CASE Next
  BY <1>2, LoadStep, SignInStep, QueryStep, RequestStep, GatewayStep DEF Next, Answered
<1> QED
  BY <1>1, <1>2

\* The session, the stored token and the query cache stay consistent (auth.ts, client.ts).
THEOREM SessionInvariant == Spec => []IInv
BY InitIInv, NextStep, PTL DEF Spec

\* The session, the query and the requests keep their types (App.tsx, api/).
THEOREM SessionTypeCorrect == Spec => []TypeOK
<1>1. IInv => TypeOK
  BY DEF IInv
<1> QED
  BY SessionInvariant, <1>1, PTL

\* The console is never shown without a stored token (auth-storage.ts:16-19).
THEOREM SessionHasToken == Spec => []SessionMatchesToken
<1>1. IInv => SessionMatchesToken
  BY DEF IInv
<1> QED
  BY SessionInvariant, <1>1, PTL

\* A list shown in an undisturbed session is its user's (auth.ts:22-26).
THEOREM ListIsTheUsers == Spec => []ListBelongsToSession
<1>1. IInv => ListBelongsToSession
  BY DEF IInv
<1> QED
  BY SessionInvariant, <1>1, PTL

\* Only the user and the gateway end an undisturbed session (client.ts:18-26).
THEOREM SessionLasts == Spec => UndisturbedSessionLasts
<1> DEFINE Lasts == (authed /\ clean /\ Accepts(token) /\ ~authed') => SignOut
<1>1. IInv /\ [Next]_vars => [Lasts]_vars
  <2> SUFFICES ASSUME IInv, Next, authed, clean, Accepts(token), ~authed' PROVE SignOut
    BY DEF vars
  <2> USE DEF IInv, TypeOK, RequestsCarryToken, SignedInNotSigningIn
  <2>1. \A s : Intercepted(s) => s = 401
    BY DEF Intercepted
  <2>2. 401 \notin Answers(token)
    BY DEF Answers
  <2>3. ASSUME Load PROVE FALSE
    BY <2>3 DEF Load, ConsumeAuthCallback, IsTokenValid, Accepts
  <2>4. ASSUME NEW r \in Tokens \cup {"failed"}, ContinueWithProvider(r) PROVE FALSE
    BY <2>4 DEF ContinueWithProvider
  <2>5. ASSUME NEW s \in {0, 200, 401}, TenantsAnswered(s) PROVE FALSE
    BY <2>5, <2>1, <2>2 DEF TenantsAnswered
  <2>6. ASSUME NEW s \in {0, 401}, LoginRefused(s) PROVE FALSE
    BY <2>6 DEF LoginRefused
  <2>7. ASSUME NEW t \in Tokens \cup {NoToken}, NEW s \in {0, 200, 401}, OtherAnswered(t, s)
        PROVE FALSE
    BY <2>7, <2>1, <2>2 DEF OtherAnswered
  <2>8. ASSUME NEW s \in {0, 200, 401}, NEW n \in Tenants, OrganizationAnswered(s, n)
        PROVE FALSE
    BY <2>8, <2>1, <2>2 DEF OrganizationAnswered
  <2>9. ASSUME NEW u \in Users, SubmitLogin(u) PROVE FALSE
    BY <2>9 DEF SubmitLogin
  <2>10. ASSUME NEW t \in Tokens, LoginAccepted(t) \/ Expire(t) PROVE FALSE
    BY <2>10 DEF LoginAccepted, Expire
  <2>11. ASSUME Retry \/ Focus \/ PageRequest \/ CreateOrganization \/ RestartGateway
         PROVE  FALSE
    BY <2>11 DEF Retry, Focus, PageRequest, CreateOrganization, RestartGateway
  <2>12. ~Answered
    BY <2>5, <2>6, <2>7, <2>8, <2>10 DEF Answered
  <2> QED
    BY <2>3, <2>4, <2>9, <2>10, <2>11, <2>12 DEF Next
<1> QED
  BY SessionInvariant, <1>1, PTL DEF Spec, UndisturbedSessionLasts

\* A callback URL is scrubbed as its token is taken, so a page that runs has
\* none left, and each token handed over is waiting or was taken (oidc.ts:53-54).
Waiting == IF url \in Tokens THEN 1 ELSE 0
CInv == /\ landings \in Nat /\ consumed \in Nat
        /\ loaded => url = "app"
        /\ consumed + Waiting <= landings

\* A load takes a callback out of the URL and never one twice (App.tsx).
LEMMA CallbackStep ==
  ASSUME CInv, Load \/ (\E r \in Tokens \cup {"failed"} : ContinueWithProvider(r))
  PROVE  CInv'
<1> USE UrlAssumption DEF CInv, Waiting
<1>1. CASE Load
  <2>1. url' = "app" /\ loaded' = TRUE /\ landings' = landings
    BY <1>1 DEF Load, ConsumeAuthCallback
  <2>2. consumed' = consumed + Waiting
    BY <1>1 DEF Load, ConsumeAuthCallback
  <2> QED
    BY <2>1, <2>2
<1>2. ASSUME NEW r \in Tokens \cup {"failed"}, ContinueWithProvider(r) PROVE CInv'
  <2>1. url = "app" /\ url' = r /\ loaded' = FALSE /\ consumed' = consumed
    BY <1>2 DEF ContinueWithProvider, Screen
  <2>2. landings' = IF r \in Tokens THEN landings + 1 ELSE landings
    BY <1>2 DEF ContinueWithProvider
  <2> QED
    BY <2>1, <2>2
<1> QED
  BY <1>1, <1>2

\* A token that came in a callback URL starts one session (oidc.ts:53-54).
THEOREM CallbacksAreTakenOnce == Spec => []CallbackNotReplayed
<1> USE UrlAssumption DEF CInv, Waiting
<1>1. Init => CInv
  BY DEF Init
<1>2. CInv /\ [Next]_vars => CInv'
  <2> SUFFICES ASSUME CInv, [Next]_vars PROVE CInv'
    OBVIOUS
  <2>1. CASE UNCHANGED <<url, loaded, landings, consumed>>
    BY <2>1
  <2>2. Load \/ (\E r \in Tokens \cup {"failed"} : ContinueWithProvider(r))
          \/ UNCHANGED <<url, loaded, landings, consumed>>
    BY DEF Next, Answered, SubmitLogin, SignOut, Retry, Focus, PageRequest,
       CreateOrganization, Expire, RestartGateway, TenantsAnswered, LoginAccepted,
       LoginRefused, OtherAnswered, OrganizationAnswered, vars
  <2> QED
    BY <2>1, <2>2, CallbackStep
<1>3. CInv => CallbackNotReplayed
  BY DEF CallbackNotReplayed
<1> QED
  BY <1>1, <1>2, <1>3, PTL DEF Spec

-----------------------------------------------------------------------------
(***************************************************************************)
(* The frame.  A cached list of agents is of its tenant, the first of a    *)
(* list of tenants is on it, and an agent that was chosen in this scope is *)
(* of this scope, whether or not the console is shown.                     *)
(***************************************************************************)
AgentsOfTheirTenant ==
  \A t \in Organizations : agents[t] # None => \A a \in agents[t] : TenantOf[a] = t

FirstIsListed == known.rows # {} => known.first \in known.rows

ChosenInScope == selectedAgent # "all" /\ ~moved => TenantOf[selectedAgent] = Nav!Scope

NavInv ==
  Nav!TypeOK /\ AgentsOfTheirTenant /\ FirstIsListed /\ ChosenInScope /\ Nav!ConfirmationIsOwn

\* A list of tenants, and its first element if it has one.
LEMMA ListOfTyping ==
  ASSUME NEW s \in SUBSET Organizations, NEW t \in Organizations, t \in s \/ s = {}
  PROVE  /\ Nav!ListOf(s, t) \in Nav!List
         /\ Nav!ListOf(s, t).rows = s
         /\ s # {} => Nav!ListOf(s, t).first \in s
<1>1. CASE s = {}
  <2>1. Nav!ListOf(s, t) = [rows |-> s, first |-> None]
    BY <1>1 DEF Nav!ListOf
  <2> QED
    BY <1>1, <2>1 DEF Nav!List
<1>2. CASE s # {}
  <2>1. Nav!ListOf(s, t) = [rows |-> s, first |-> t]
    BY <1>2 DEF Nav!ListOf
  <2> QED
    BY <1>2, <2>1 DEF Nav!List
<1> QED
  BY <1>1, <1>2

\* Every agent is in scope at first.
LEMMA NavInit == Nav!Init => NavInv
<1> SUFFICES ASSUME Nav!Init PROVE NavInv
  OBVIOUS
<1>1. PICK t \in Organizations : known = Nav!ListOf(Organizations, t)
  BY DEF Nav!Init
<1>2. known \in Nav!List /\ FirstIsListed
  BY <1>1, ListOfTyping DEF FirstIsListed
<1>3. agents = [u \in Organizations |-> None]
      /\ agents \in [Organizations -> (SUBSET Agents) \cup {None}]
  BY DEF Nav!Init
<1>4. Nav!TypeOK
  BY <1>2, <1>3 DEF Nav!Init, Nav!TypeOK, Nav!Pages
<1> QED
  BY <1>2, <1>3, <1>4 DEF Nav!Init, NavInv, AgentsOfTheirTenant, ChosenInScope,
                          Nav!ConfirmationIsOwn

\* A console that is shown has a tenant in scope.
LEMMA ScopeTyping ==
  ASSUME known \in Nav!List, FirstIsListed, known.rows # {}
  PROVE  Nav!Scope \in Organizations
BY DEF Nav!Scope, Nav!ScopeOf, Nav!List, FirstIsListed

\* Every step of the frame, the Tenants page and the gateway keeps the invariant.
LEMMA NavStep == NavInv /\ [Nav!Next]_Nav!vars => NavInv'
<1> SUFFICES ASSUME NavInv, [Nav!Next]_Nav!vars
             PROVE  NavInv'
  OBVIOUS
<1> USE NavAssumption DEF Nav!NavAssumption, NavInv, Nav!gateway, Nav!account, Nav!dialog, Nav!cache
<1>0. /\ Nav!TypeOK
      /\ Nav!Console => Nav!Scope \in Organizations
  BY ScopeTyping DEF Nav!TypeOK, Nav!Console
<1>1. ASSUME UNCHANGED <<known, activeTenantId>>
      PROVE  Nav!Scope' = Nav!Scope /\ (FirstIsListed' <=> FirstIsListed)
  BY <1>1 DEF Nav!Scope, FirstIsListed
<1>2. ASSUME NEW p \in Nav!Pages, Nav!Shows(p), deleteConfirm \in Organizations \cup {None}
      PROVE  /\ page' \in Nav!Pages /\ Nav!ConfirmationIsOwn'
             /\ deleteConfirm' \in Organizations \cup {None}
             /\ awaited' \in Organizations \cup {None}
  BY <1>0, <1>2 DEF Nav!Shows, Nav!TypeOK, Nav!ConfirmationIsOwn
<1>3. ASSUME NEW p \in Nav!Pages, Nav!Navigate(p)
      PROVE  NavInv'
  BY <1>0, <1>1, <1>2, <1>3
    DEF Nav!Navigate, Nav!TypeOK, AgentsOfTheirTenant, ChosenInScope
<1>4. ASSUME NEW a \in Agents \cup {"all"}, Nav!OnAgentChange(a) \/ Nav!OnViewTraces(a)
      PROVE  NavInv'
  <2>1. /\ selectedAgent' = a /\ Nav!Console /\ a \in Nav!Offered \cup {"all"}
        /\ UNCHANGED <<tenants, sent, known, signedIn, isSuperAdmin, activeTenantId, agents, fetching>>
        /\ moved' = FALSE
        /\ Nav!Shows("traces") \/ UNCHANGED <<page, deleteConfirm, awaited>>
    BY <1>4 DEF Nav!OnAgentChange, Nav!OnViewTraces, Nav!Usable
  <2>2. /\ page' \in Nav!Pages /\ Nav!ConfirmationIsOwn'
        /\ deleteConfirm' \in Organizations \cup {None} /\ awaited' \in Organizations \cup {None}
    BY <1>0, <1>2, <2>1 DEF Nav!TypeOK, Nav!Pages, Nav!ConfirmationIsOwn
  <2>3. a # "all" => TenantOf[a] = Nav!Scope
    BY <1>0, <2>1 DEF Nav!Offered, Nav!AgentsKey, AgentsOfTheirTenant
  <2>4. Nav!TypeOK'
    BY <1>0, <2>1, <2>2 DEF Nav!TypeOK
  <2> QED
    BY <1>1, <2>1, <2>2, <2>3, <2>4 DEF AgentsOfTheirTenant, ChosenInScope
<1>5. ASSUME NEW t \in Organizations, Nav!OnTenantSelect(t)
      PROVE  NavInv'
  <2>1. /\ page' \in Nav!Pages /\ Nav!ConfirmationIsOwn'
        /\ deleteConfirm' \in Organizations \cup {None} /\ awaited' \in Organizations \cup {None}
    BY <1>0, <1>2, <1>5 DEF Nav!OnTenantSelect, Nav!TypeOK, Nav!Pages
  <2>2. Nav!Scope' = Nav!ScopeOf(t, known)
    BY <1>5 DEF Nav!OnTenantSelect, Nav!Scope
  <2>3. Nav!TypeOK'
    BY <1>0, <1>5, <2>1 DEF Nav!OnTenantSelect, Nav!TypeOK
  <2> QED
    BY <1>5, <2>1, <2>2, <2>3 DEF Nav!OnTenantSelect, AgentsOfTheirTenant, ChosenInScope, FirstIsListed
<1>6. ASSUME NEW t \in Organizations, Nav!AskDelete(t) \/ Nav!Deletes(t) \/ Nav!Elsewhere(t)
      PROVE  NavInv'
  BY <1>0, <1>1, <1>6 DEF Nav!AskDelete, Nav!TrashEnabled, Nav!Deletes, Nav!Elsewhere, Nav!TypeOK,
     AgentsOfTheirTenant, ChosenInScope, Nav!ConfirmationIsOwn
<1>7. CASE Nav!CancelDelete \/ Nav!HandleDelete \/ Nav!Deleted \/ Nav!DeleteFails
  BY <1>0, <1>1, <1>7 DEF Nav!CancelDelete, Nav!HandleDelete, Nav!Modal, Nav!Deleted,
     Nav!DeleteFails, Nav!TypeOK, AgentsOfTheirTenant, ChosenInScope, Nav!ConfirmationIsOwn
<1>8. CASE Nav!SignOut \/ Nav!SignIn \/ UNCHANGED Nav!vars
  BY <1>0, <1>1, <1>8 DEF Nav!SignOut, Nav!SignIn, Nav!vars, Nav!TypeOK, AgentsOfTheirTenant,
     ChosenInScope, Nav!ConfirmationIsOwn
<1>9. CASE Nav!FetchAgents
  BY <1>0, <1>1, <1>9 DEF Nav!FetchAgents, Nav!TypeOK, AgentsOfTheirTenant, ChosenInScope,
     Nav!ConfirmationIsOwn
<1>10. ASSUME NEW t \in Organizations, Nav!AgentsAnswered(t)
       PROVE  NavInv'
  <2>1. PICK s \in SUBSET {a \in Agents : TenantOf[a] = t} : agents' = [agents EXCEPT ![t] = s]
    BY <1>10 DEF Nav!AgentsAnswered, Nav!AgentsKey
  <2>2. Nav!TypeOK' /\ AgentsOfTheirTenant'
    BY <1>0, <1>10, <2>1 DEF Nav!AgentsAnswered, Nav!TypeOK, AgentsOfTheirTenant
  <2> QED
    BY <1>1, <1>10, <2>2 DEF Nav!AgentsAnswered, ChosenInScope, Nav!ConfirmationIsOwn
<1>11. ASSUME NEW t \in Organizations, Nav!ListShown(t)
       PROVE  NavInv'
  <2>1. /\ known' = Nav!ListOf(tenants, t)
        /\ t \in tenants \/ tenants = {}
        /\ UNCHANGED <<tenants, sent, signedIn, isSuperAdmin, page, activeTenantId, selectedAgent,
                       agents, fetching>>
    BY <1>11 DEF Nav!ListShown
  <2>2. known' \in Nav!List /\ FirstIsListed'
    <3>1. tenants \in SUBSET Organizations
      BY <1>0 DEF Nav!TypeOK
    <3>2. /\ Nav!ListOf(tenants, t) \in Nav!List
          /\ Nav!ListOf(tenants, t).rows = tenants
          /\ tenants # {} => Nav!ListOf(tenants, t).first \in tenants
      BY <2>1, <3>1, ListOfTyping
    <3>3. known' = Nav!ListOf(tenants, t)
      BY <2>1
    <3>4. known' \in Nav!List /\ known'.rows = tenants /\ (tenants # {} => known'.first \in tenants)
      BY <3>2, <3>3, Zenon
    <3> QED
      BY <3>4 DEF FirstIsListed
  <2>3. moved' = (moved \/ Nav!Scope' # Nav!Scope)
    BY <1>11 DEF Nav!ListShown, Nav!Scope
  <2>4. ChosenInScope'
    BY <2>1, <2>3 DEF ChosenInScope
  <2>5. Nav!TypeOK' /\ Nav!ConfirmationIsOwn'
    BY <1>0, <1>11, <2>1, <2>2, <2>3 DEF Nav!ListShown, Nav!TypeOK, Nav!ConfirmationIsOwn
  <2> QED
    BY <2>1, <2>2, <2>4, <2>5 DEF AgentsOfTheirTenant
<1> QED
  BY <1>3, <1>4, <1>5, <1>6, <1>7, <1>8, <1>9, <1>10, <1>11 DEF Nav!Next

-----------------------------------------------------------------------------
(***************************************************************************)
(* The Traces page.  What is cached for a scope or for a trace is of that  *)
(* scope or trace, and the chosen span is of the trace of the sheet.       *)
(***************************************************************************)
RowsAreOfScope ==
  \A s \in Scopes : rows[s] # None => \A t \in rows[s] : s \in ScopesOf[t]

SpansAreOfTrace ==
  /\ \A t \in Traces : spans[t] # None => spans[t] \subseteq SpansOf[t]
  /\ selectedSpan # None => selected # None /\ selectedSpan \in SpansOf[selected]

ViewInv == View!TypeOK /\ RowsAreOfScope /\ SpansAreOfTrace

\* Nothing is cached at first.
LEMMA ViewInit == View!Init => ViewInv
<1> SUFFICES ASSUME View!Init PROVE ViewInv
  OBVIOUS
<1>1. rows \in [Scopes -> (SUBSET Traces) \cup {None}] /\ \A s \in Scopes : rows[s] = None
  BY DEF View!Init
<1>2. spans = [t \in Traces |-> None]
  BY DEF View!Init
<1>3. spans \in [Traces -> (SUBSET View!AllSpans) \cup {None}] /\ \A t \in Traces : spans[t] = None
  BY <1>2
<1>4. View!TypeOK
  BY <1>1, <1>3 DEF View!Init, View!TypeOK
<1> QED
  BY <1>1, <1>3, <1>4 DEF View!Init, ViewInv, RowsAreOfScope, SpansAreOfTrace

\* Every step of the page and the gateway keeps the invariant.
LEMMA ViewStep == ViewInv /\ [View!Next]_View!vars => ViewInv'
<1> SUFFICES ASSUME ViewInv, [View!Next]_View!vars
             PROVE  ViewInv'
  OBVIOUS
<1> USE ViewAssumption
    DEF View!TraceViewAssumption, ViewInv, View!query, View!filters, View!sheet, View!TracesKey,
        View!SpansKey
<1>1. CASE \/ UNCHANGED View!vars \/ View!Fetch
           \/ \E t \in Traces : View!Record(t)
           \/ \E s \in Scopes : View!ChooseScope(s) \/ View!Fails(s)
  BY <1>1 DEF View!vars, View!Record, View!ChooseScope, View!Fetch, View!Fails, View!TypeOK,
     RowsAreOfScope, SpansAreOfTrace
<1>2. ASSUME NEW s \in Scopes, View!Answered(s)
      PROVE  ViewInv'
  <2> DEFINE found == {t \in recorded : s \in ScopesOf[t]}
  <2>1. /\ rows' = [rows EXCEPT ![s] = found]
        /\ found \in SUBSET Traces /\ \A t \in found : s \in ScopesOf[t]
    BY <1>2 DEF View!Answered, View!TypeOK
  <2> HIDE DEF found
  <2>2. RowsAreOfScope' /\ rows' \in [Scopes -> (SUBSET Traces) \cup {None}]
    BY <2>1 DEF RowsAreOfScope, View!TypeOK
  <2> QED
    BY <1>2, <2>2 DEF View!Answered, View!TypeOK, SpansAreOfTrace
<1>3. ASSUME \/ View!SetStatusFilter("ALL")
             \/ \E s \in View!Statuses : View!SetStatusFilter(s) \/ View!ClickStatus(s)
             \/ \E m \in View!ModelIds \cup {"ALL"} : View!SetModelFilter(m)
      PROVE  ViewInv'
  BY <1>3 DEF View!SetStatusFilter, View!ClickStatus, View!SetModelFilter, View!TypeOK,
     RowsAreOfScope, SpansAreOfTrace
<1>4. ASSUME NEW t \in Traces, View!OpenTrace(t)
      PROVE  ViewInv'
  BY <1>4 DEF View!OpenTrace, View!SheetOpen, View!TypeOK, RowsAreOfScope, SpansAreOfTrace
<1>5. CASE View!CloseSheet \/ View!FetchSpans
  BY <1>5 DEF View!CloseSheet, View!FetchSpans, View!SheetOpen, View!TypeOK, RowsAreOfScope,
     SpansAreOfTrace
<1>6. ASSUME NEW t \in Traces, View!SpansAnswered(t)
      PROVE  ViewInv'
  <2>1. PICK s \in SUBSET SpansOf[t] : spans' = [spans EXCEPT ![t] = s]
    BY <1>6 DEF View!SpansAnswered
  <2>2. s \in SUBSET View!AllSpans
    BY DEF View!AllSpans
  <2> QED
    BY <1>6, <2>1, <2>2 DEF View!SpansAnswered, View!TypeOK, RowsAreOfScope, SpansAreOfTrace
<1>7. ASSUME NEW x \in View!AllSpans, View!SelectSpan(x)
      PROVE  ViewInv'
  <2>1. selected \in Traces /\ selected # None /\ x \in SpansOf[selected]
    BY <1>7 DEF View!SelectSpan, View!SpansShown, View!SheetOpen, SpansAreOfTrace, View!TypeOK
  <2> QED
    BY <1>7, <2>1 DEF View!SelectSpan, View!TypeOK, RowsAreOfScope, SpansAreOfTrace
<1> QED
  BY <1>1, <1>2, <1>3, <1>4, <1>5, <1>6, <1>7 DEF View!Next

(* The agent, the traces and the spans on the page are of the scope, and a *)
(* confirmation is closed by its own answer, for any tenants and traces.   *)
THEOREM ShownIsAlwaysOfScope == MCSpec => []ShownIsOfScope
<1>1. MCInit => NavInv /\ ViewInv
  BY NavInit, ViewInit DEF MCInit
<1>2. NavInv /\ ViewInv /\ [MCNext]_<<moving, vars, navVars, traceVars, treeVars, themeVars>>
        => NavInv' /\ ViewInv'
  <2>1. [MCNext]_<<moving, vars, navVars, traceVars, treeVars, themeVars>>
           => [Nav!Next]_Nav!vars /\ [View!Next]_View!vars
    BY DEF MCNext, navVars, traceVars, Nav!vars, Nav!gateway, Nav!account, Nav!cache, Nav!dialog,
           View!vars, View!query, View!filters, View!sheet
  <2> QED
    BY <2>1, NavStep, ViewStep
<1>3. NavInv /\ ViewInv => ShownIsOfScope
  <2>1. NavInv => Nav!TypeOK /\ Nav!AgentChosenInScope /\ Nav!ConfirmationIsOwn
    BY DEF NavInv, ChosenInScope, Nav!AgentChosenInScope
  <2>2. ViewInv => View!TypeOK /\ View!RowsOfScope
    BY DEF ViewInv, RowsAreOfScope, View!RowsOfScope, View!Table, View!TracesKey, View!TypeOK
  <2>3. ViewInv => View!SpansOfSelected
    BY DEF ViewInv, SpansAreOfTrace, View!SpansOfSelected, View!TraceDetail, View!SpansShown,
           View!SpanAttributes, View!SheetOpen, View!SpansKey, View!TypeOK
  <2> QED
    BY <2>1, <2>2, <2>3 DEF ShownIsOfScope
<1> QED
  BY <1>1, <1>2, <1>3, PTL DEF MCSpec

-----------------------------------------------------------------------------
(***************************************************************************)
(* The theme.  The browser stores the choice made last, and a tab that has *)
(* drawn a theme wears one class, that of the theme.                       *)
(***************************************************************************)
ThemeInv ==
  /\ Themes!TypeOK /\ stored = chosen
  /\ \A t \in Tabs : drawn[t] # None =>
       \E c \in Themes!Classes : root[t] = {c} /\ (drawn[t] # "system" => c = drawn[t])

\* Nothing is chosen and no tab is open at first.
LEMMA ThemeInit == Themes!Init => ThemeInv
BY DEF Themes!Init, ThemeInv, Themes!TypeOK

\* Every step of the tabs and of the system keeps the invariant.
LEMMA ThemeStep == ThemeInv /\ [Themes!Next]_Themes!vars => ThemeInv'
<1> SUFFICES ASSUME ThemeInv, [Themes!Next]_Themes!vars
             PROVE  ThemeInv'
  OBVIOUS
<1> USE ThemeAssumption DEF Themes!ThemeAssumption, ThemeInv, Themes!TypeOK, Themes!tab,
                            Themes!Theme, Themes!Classes
<1>1. ASSUME NEW t \in Tabs, Themes!Load(t)
      PROVE  ThemeInv'
  BY <1>1 DEF Themes!Load, Themes!Stored, Themes!defaultTheme
<1>2. ASSUME NEW t \in Tabs, Themes!Effect(t)
      PROVE  ThemeInv'
  <2>1. Themes!Worn(t) \in Themes!Classes /\ (theme[t] # "system" => Themes!Worn(t) = theme[t])
    BY <1>2 DEF Themes!Effect, Themes!Worn
  <2>2. root' = [root EXCEPT ![t] = {Themes!Worn(t)}]
    <3>1. Themes!Left(t) = {}
      BY DEF Themes!Left
    <3> QED
      BY <1>2, <3>1 DEF Themes!Effect
  <2> QED
    BY <1>2, <2>1, <2>2 DEF Themes!Effect
<1>3. ASSUME NEW t \in Tabs, NEW c \in Themes!Theme, Themes!setTheme(t, c)
      PROVE  ThemeInv'
  BY <1>3 DEF Themes!setTheme, Themes!Store
<1>4. CASE Themes!Prefer \/ UNCHANGED Themes!vars
  BY <1>4 DEF Themes!Prefer, Themes!vars
<1> QED
  BY <1>1, <1>2, <1>3, <1>4 DEF Themes!Next

\* The library's count of a set is the same in every module.
LEMMA SameCount == \A S : Themes!Cardinality(S) = Cardinality(S)
BY DEF Themes!Cardinality, Cardinality, Themes!IsFiniteSet, IsFiniteSet

(* Every tab wears the theme its buttons say, and one that loads takes the *)
(* choice made last, for any tabs.                                         *)
THEOREM ThemeIsAsChosen == MCSpec => ThemeIsChosen
<1> DEFINE Loads == \A t \in Tabs :
             theme'[t] # None /\ drawn'[t] = None /\ (drawn[t] # None \/ theme[t] = None) =>
               theme'[t] = IF chosen = None THEN "dark" ELSE chosen
<1>1. MCInit => ThemeInv
  BY ThemeInit DEF MCInit
<1>2. [MCNext]_<<moving, vars, navVars, traceVars, treeVars, themeVars>>
        => [Themes!Next]_Themes!vars
  BY DEF MCNext, themeVars, Themes!vars, Themes!tab
<1>3. ThemeInv /\ [MCNext]_<<moving, vars, navVars, traceVars, treeVars, themeVars>> => ThemeInv'
  BY <1>2, ThemeStep
<1>4. ThemeInv => Themes!TypeOK /\ Themes!RaisedIsWorn
  <2> SUFFICES ASSUME ThemeInv, NEW t \in Tabs, theme[t] # None, drawn[t] = theme[t]
               PROVE  /\ Themes!Cardinality(root[t]) = 1
                      /\ Themes!Raised(t) # {"system"} => root[t] = Themes!Raised(t)
    BY DEF ThemeInv, Themes!RaisedIsWorn
  <2>1. PICK c \in Themes!Classes : root[t] = {c} /\ (theme[t] # "system" => c = theme[t])
    BY DEF ThemeInv
  <2>2. Cardinality({c}) = 1
    BY FS_Singleton, Zenon
  <2>3. Themes!Raised(t) = {theme[t]}
    BY DEF ThemeInv, Themes!TypeOK, Themes!Raised
  <2> QED
    BY <2>1, <2>2, <2>3, SameCount
<1>5. ThemeInv /\ [Themes!Next]_Themes!vars => [Loads]_Themes!vars
  <2> SUFFICES ASSUME ThemeInv, Themes!Next PROVE Loads
    OBVIOUS
  <2> USE ThemeAssumption DEF Themes!ThemeAssumption, ThemeInv, Themes!TypeOK, Themes!tab
  <2>1. ASSUME NEW t \in Tabs, Themes!Load(t) PROVE Loads
    BY <2>1 DEF Themes!Load, Themes!Stored, Themes!defaultTheme
  <2>2. ASSUME NEW t \in Tabs, Themes!Effect(t) PROVE Loads
    BY <2>2 DEF Themes!Effect
  <2>3. ASSUME NEW t \in Tabs, NEW c \in Themes!Theme, Themes!setTheme(t, c) PROVE Loads
    BY <2>3 DEF Themes!setTheme
  <2>4. CASE Themes!Prefer
    BY <2>4 DEF Themes!Prefer
  <2> QED
    BY <2>1, <2>2, <2>3, <2>4 DEF Themes!Next
<1> QED
  BY <1>1, <1>2, <1>3, <1>4, <1>5, PTL
     DEF MCSpec, ThemeIsChosen, Themes!LoadTakesLastChoice

-----------------------------------------------------------------------------
(***************************************************************************)
(* The tree of a trace's spans.  First sets: a finite set that is totally  *)
(* ordered can be written down in order, and the ancestors of a span are   *)
(* its parent and the ancestors of that.                                   *)
(***************************************************************************)
\* The library's operators are the same in every module.
LEMMA TreeNames ==
  /\ \A S : Tree!Cardinality(S) = Cardinality(S)
  /\ \A S, T : Tree!Injection(S, T) = Injection(S, T)
BY DEF Tree!Cardinality, Cardinality, Tree!IsFiniteSet, IsFiniteSet,
   Tree!Injection, Injection, Tree!IsInjective, IsInjective

\* A set of numbers has a least one, as the naturals are well-founded.
LEMMA LeastNumber ==
  ASSUME NEW S \in SUBSET Nat, S # {}
  PROVE  \E n \in S : \A m \in S : n <= m
<1> DEFINE R == OpToRel(<, Nat)
<1>1. IsWellFoundedOn(R, Nat)
  BY NatLessThanWellFounded
<1>2. \A x, y \in Nat : <<y, x>> \in R <=> y < x
  BY DEF OpToRel
<1> HIDE DEF R
<1>3. PICK x \in S : \A y \in S : ~ (<<y, x>> \in R)
  BY <1>1, WFMin
<1>4. \A y \in S : ~ (y < x)
  BY <1>2, <1>3
<1>5. \A y \in S : x <= y
  BY <1>4
<1> QED
  BY <1>5

\* The place of an element is one more than there are before it.
LEMMA OrderedCanBeListed ==
  ASSUME NEW S, IsFiniteSet(S), NEW R,
         \A i, j \in S : <<i, j>> \in R \/ <<j, i>> \in R \/ i = j,
         \A i \in S : <<i, i>> \notin R,
         \A i, j, k \in S : <<i, j>> \in R /\ <<j, k>> \in R => <<i, k>> \in R
  PROVE  \E s \in Injection(1 .. Cardinality(S), S) :
           \A k, l \in 1 .. Cardinality(S) : k < l => <<s[k], s[l]>> \in R
<1> DEFINE n == Cardinality(S)
           Below(j) == {i \in S : <<i, j>> \in R}
           rank == [j \in S |-> Cardinality(Below(j)) + 1]
<1>1. n \in Nat
  BY FS_CardinalityType
<1>2. \A j \in S : Below(j) \in SUBSET S
  OBVIOUS
<1>3. \A i, j \in S : <<i, j>> \in R =>
        Below(i) \in SUBSET Below(j) /\ i \in Below(j) /\ i \notin Below(i)
  OBVIOUS
<1>4. \A j \in S : j \in S /\ j \notin Below(j)
  OBVIOUS
<1> HIDE DEF Below
<1>5. \A j \in S : IsFiniteSet(Below(j)) /\ Cardinality(Below(j)) \in Nat
  BY <1>2, FS_Subset, FS_CardinalityType
<1>6. \A j \in S : Cardinality(Below(j)) < n
  <2> SUFFICES ASSUME NEW j \in S PROVE Cardinality(Below(j)) < n
    OBVIOUS
  <2>1. Cardinality(Below(j)) <= Cardinality(S)
        /\ (Cardinality(S) = Cardinality(Below(j)) => S = Below(j))
    BY <1>2, FS_Subset
  <2>2. S # Below(j)
    BY <1>4
  <2> QED
    BY <1>1, <1>5, <2>1, <2>2
<1>7. \A i, j \in S : <<i, j>> \in R => Cardinality(Below(i)) < Cardinality(Below(j))
  <2> SUFFICES ASSUME NEW i \in S, NEW j \in S, <<i, j>> \in R
               PROVE  Cardinality(Below(i)) < Cardinality(Below(j))
    OBVIOUS
  <2>1. Below(i) \in SUBSET Below(j) /\ Below(i) # Below(j)
    BY <1>3
  <2>2. IsFiniteSet(Below(j))
    BY <1>5
  <2>3. Cardinality(Below(i)) <= Cardinality(Below(j))
        /\ (Cardinality(Below(j)) = Cardinality(Below(i)) => Below(j) = Below(i))
    BY <2>1, <2>2, FS_Subset
  <2> QED
    BY <1>5, <2>1, <2>3
<1>8. \A j \in S : rank[j] = Cardinality(Below(j)) + 1 /\ rank[j] \in 1 .. n
  BY <1>1, <1>5, <1>6
<1>9. \A i, j \in S : <<i, j>> \in R => rank[i] < rank[j]
  BY <1>5, <1>7, <1>8
<1>10. rank \in [S -> 1 .. n]
  BY <1>8
<1> HIDE DEF rank
<1>11. \A i, j \in S : rank[i] = rank[j] => i = j
  <2> SUFFICES ASSUME NEW i \in S, NEW j \in S, rank[i] = rank[j] PROVE i = j
    OBVIOUS
  <2>1. rank[i] \in Nat /\ rank[j] \in Nat
    BY <1>1, <1>8
  <2>2. ~(<<i, j>> \in R) /\ ~(<<j, i>> \in R)
    BY <1>9, <2>1
  <2> QED
    BY <2>2
<1>12. rank \in Injection(S, 1 .. n)
  BY <1>10, <1>11 DEF Injection, IsInjective
<1>13. IsFiniteSet(1 .. n) /\ Cardinality(1 .. n) = n
  BY <1>1, FS_Interval
<1> HIDE DEF n
<1>14. rank \in Surjection(S, 1 .. n)
  <2>1. Cardinality(S) = Cardinality(1 .. n)
    BY <1>13 DEF n
  <2> QED
    BY <1>12, <1>13, <2>1, FS_Injection
<1>15. \A k \in 1 .. n : \E j \in S : rank[j] = k
  BY <1>14 DEF Surjection
<1> DEFINE s == [k \in 1 .. n |-> CHOOSE j \in S : rank[j] = k]
<1>16. \A k \in 1 .. n : s[k] \in S /\ rank[s[k]] = k
  BY <1>15
<1>17. s \in [1 .. n -> S]
  BY <1>16
<1> HIDE DEF s
<1>18. s \in Injection(1 .. n, S)
  <2>1. \A k, l \in 1 .. n : s[k] = s[l] => k = l
    BY <1>16
  <2> QED
    BY <1>17, <2>1 DEF Injection, IsInjective
<1>19. \A k, l \in 1 .. n : k < l => <<s[k], s[l]>> \in R
  <2> SUFFICES ASSUME NEW k \in 1 .. n, NEW l \in 1 .. n, k < l PROVE <<s[k], s[l]>> \in R
    OBVIOUS
  <2>1. s[k] \in S /\ s[l] \in S /\ rank[s[k]] = k /\ rank[s[l]] = l
    BY <1>16
  <2>2. s[k] # s[l]
    BY <2>1
  <2>3. ~(<<s[l], s[k]>> \in R)
    BY <1>1, <1>9, <2>1
  <2> QED
    BY <2>1, <2>2, <2>3
<1> QED
  BY <1>18, <1>19 DEF n

\* What the reference says of the parents and the ancestors of a span.
ParentOf(i) == Tree!SpanWith(i).parent
StartOf(i)  == Tree!SpanWith(i).start

LEMMA UpIs ==
  /\ \A S : Tree!Up(S) \in SUBSET Tree!SpanIds
  /\ \A i : Tree!Up({i}) = IF ParentOf(i) \in Tree!SpanIds THEN {ParentOf(i)} ELSE {}
  /\ \A S, T : Tree!Up(S \cup T) = Tree!Up(S) \cup Tree!Up(T)
  /\ \A S, T : S \subseteq T => Tree!Up(S) \subseteq Tree!Up(T)
  /\ Tree!Up({}) = {}
BY DEF Tree!Up, ParentOf

\* The ancestors are the least set with the parents of the span and of their own.
LEMMA AncestorsAreLeast ==
  ASSUME NEW i
  PROVE  /\ Tree!Ancestors(i) \in SUBSET Tree!SpanIds
         /\ Tree!Up({i}) \subseteq Tree!Ancestors(i)
         /\ Tree!Up(Tree!Ancestors(i)) \subseteq Tree!Ancestors(i)
         /\ \A S \in SUBSET Tree!SpanIds :
              Tree!Up({i}) \subseteq S /\ Tree!Up(S) \subseteq S => Tree!Ancestors(i) \subseteq S
<1> DEFINE A == Tree!Ancestors(i)
           I == Tree!SpanIds
<1>1. A = {j \in I : \A S \in SUBSET I : Tree!Up({i} \cup S) \subseteq S => j \in S}
  BY DEF Tree!Ancestors
<1>2. A \in SUBSET I
  BY <1>1
<1>3. \A S \in SUBSET I : Tree!Up({i} \cup S) \subseteq S => A \subseteq S
  BY <1>1
<1>4. \A S : Tree!Up({i} \cup S) = Tree!Up({i}) \cup Tree!Up(S)
  BY UpIs
<1>5. ASSUME NEW j \in Tree!Up({i}) \cup Tree!Up(A) PROVE j \in A
  <2>1. j \in I
    BY <1>5, UpIs
  <2>2. ASSUME NEW S \in SUBSET I, Tree!Up({i} \cup S) \subseteq S PROVE j \in S
    <3>1. A \subseteq S
      BY <1>3, <2>2
    <3>2. Tree!Up(A) \subseteq Tree!Up(S)
      BY <3>1, UpIs
    <3> QED
      BY <1>4, <1>5, <2>2, <3>2
  <2> QED
    BY <1>1, <2>1, <2>2
<1> HIDE DEF A, I
<1>6. Tree!Up({i}) \subseteq A /\ Tree!Up(A) \subseteq A
  BY <1>5
<1>7. \A S \in SUBSET I : Tree!Up({i}) \subseteq S /\ Tree!Up(S) \subseteq S => A \subseteq S
  BY <1>3, <1>4
<1> QED
  BY <1>2, <1>6, <1>7 DEF A, I

\* A root has none, and another span its parent and those of its parent.
LEMMA AncestorsOf ==
  ASSUME NEW i
  PROVE  /\ ParentOf(i) \notin Tree!SpanIds => Tree!Ancestors(i) = {}
         /\ ParentOf(i) \in Tree!SpanIds =>
              Tree!Ancestors(i) = {ParentOf(i)} \cup Tree!Ancestors(ParentOf(i))
<1>1. CASE ParentOf(i) \notin Tree!SpanIds
  <2>1. Tree!Up({i}) = {} /\ Tree!Up({}) = {}
    BY <1>1, UpIs
  <2>2. Tree!Ancestors(i) \subseteq {}
    BY <2>1, AncestorsAreLeast
  <2> QED
    BY <1>1, <2>2
<1>2. CASE ParentOf(i) \in Tree!SpanIds
  <2> DEFINE p == ParentOf(i)
             A == Tree!Ancestors(i)
             B == Tree!Ancestors(p)
             I == Tree!SpanIds
  <2>1. Tree!Up({i}) = {p}
    BY <1>2, UpIs
  <2>2. /\ A \in SUBSET I /\ {p} \subseteq A /\ Tree!Up(A) \subseteq A
        /\ \A S \in SUBSET I : {p} \subseteq S /\ Tree!Up(S) \subseteq S => A \subseteq S
    BY <2>1, AncestorsAreLeast
  <2>3. /\ B \in SUBSET I /\ Tree!Up({p}) \subseteq B /\ Tree!Up(B) \subseteq B
        /\ \A S \in SUBSET I : Tree!Up({p}) \subseteq S /\ Tree!Up(S) \subseteq S => B \subseteq S
    BY AncestorsAreLeast
  <2>4. p \in I
    BY <1>2
  <2> HIDE DEF p, A, B, I
  <2>5. Tree!Up({p} \cup B) = Tree!Up({p}) \cup Tree!Up(B)
    BY UpIs
  <2>6. {p} \cup B \in SUBSET I /\ Tree!Up({p} \cup B) \subseteq {p} \cup B
    BY <2>3, <2>4, <2>5
  <2>7. A \subseteq {p} \cup B
    BY <2>2, <2>6
  <2>8. Tree!Up({p}) \subseteq Tree!Up(A)
    BY <2>2, UpIs
  <2>9. B \subseteq A
    BY <2>2, <2>3, <2>8
  <2>10. A = {p} \cup B
    BY <2>2, <2>7, <2>9
  <2> QED
    BY <1>2, <2>10 DEF A, p, B, I
<1> QED
  BY <1>1, <1>2

\* Parents within a finite set go round: some span of it is its own ancestor.
LEMMA ClosedHasCycle ==
  ASSUME NEW T \in SUBSET Tree!SpanIds, IsFiniteSet(T), T # {},
         \A j \in T : ParentOf(j) \in T
  PROVE  \E j \in T : j \in Tree!Ancestors(j)
<1> DEFINE Closed(C) == C # {} /\ \A j \in C : ParentOf(j) \in C
           Sizes == {n \in Nat : \E C \in SUBSET T : Closed(C) /\ Cardinality(C) = n}
<1>1. \A C \in SUBSET T : IsFiniteSet(C) /\ Cardinality(C) \in Nat
  BY FS_Subset, FS_CardinalityType
<1>2. Closed(T) /\ T \in SUBSET T
  OBVIOUS
<1> HIDE DEF Closed
<1>3. Sizes \in SUBSET Nat /\ Sizes # {}
  <2>1. Cardinality(T) \in Sizes
    BY <1>1, <1>2
  <2> QED
    BY <2>1
<1>4. PICK n \in Sizes : \A m \in Sizes : n <= m
  BY <1>3, LeastNumber
<1>5. PICK C \in SUBSET T : Closed(C) /\ Cardinality(C) = n
  BY <1>4
<1>6. C # {} /\ \A j \in C : ParentOf(j) \in C
  BY <1>5 DEF Closed
<1>7. PICK j \in C : TRUE
  BY <1>6
<1> DEFINE A == Tree!Ancestors(j)
           I == Tree!SpanIds
<1>8. /\ A \in SUBSET I /\ Tree!Up({j}) \subseteq A /\ Tree!Up(A) \subseteq A
      /\ \A S \in SUBSET I : Tree!Up({j}) \subseteq S /\ Tree!Up(S) \subseteq S => A \subseteq S
  BY AncestorsAreLeast
<1>9. C \in SUBSET I /\ ParentOf(j) \in C /\ ParentOf(j) \in I
  BY <1>6, <1>7
<1>10. \A k \in C : Tree!Up({k}) = {ParentOf(k)}
  BY <1>6, <1>9, UpIs
<1>11. Tree!Up(C) \subseteq C
  BY <1>6 DEF Tree!Up, ParentOf
<1> HIDE DEF A, I
<1>12. A \in SUBSET C
  BY <1>7, <1>8, <1>9, <1>10, <1>11
<1>13. Closed(A)
  <2>1. A # {}
    BY <1>7, <1>8, <1>10
  <2>2. ASSUME NEW k \in A PROVE ParentOf(k) \in A
    <3>1. k \in C /\ Tree!Up({k}) = {ParentOf(k)}
      BY <1>10, <1>12
    <3>2. Tree!Up({k}) \subseteq Tree!Up(A)
      BY UpIs
    <3> QED
      BY <1>8, <3>1, <3>2
  <2> QED
    BY <2>1, <2>2 DEF Closed
<1>14. Cardinality(A) \in Sizes
  BY <1>1, <1>5, <1>12, <1>13
<1>15. n <= Cardinality(A) /\ Cardinality(A) \in Nat /\ n \in Nat
  BY <1>3, <1>4, <1>14
<1>16. IsFiniteSet(C)
  BY <1>1
<1>17. Cardinality(A) <= Cardinality(C) /\ (Cardinality(C) = Cardinality(A) => C = A)
  BY <1>12, <1>16, FS_Subset
<1>18. A = C
  BY <1>5, <1>15, <1>17
<1> QED
  BY <1>7, <1>18 DEF A

(***************************************************************************)
(* The first loop.  The map has one node for each id that was seen, and it *)
(* is of the last span with that id.                                       *)
(***************************************************************************)
MapInv ==
  /\ Tree!TypeOK /\ next <= Len(answer) + 1
  /\ \A k, l \in DOMAIN nodeMap : nodeMap[k].id = nodeMap[l].id => k = l
  /\ Tree!NodeIds = {answer[k].id : k \in 1 .. (next - 1)}
  /\ \A m \in DOMAIN nodeMap : \E k \in 1 .. (next - 1) :
       /\ answer[k] = nodeMap[m]
       /\ \A l \in 1 .. (next - 1) : answer[l].id = answer[k].id => l <= k
  /\ linked => next = Len(answer) + 1
  /\ ~linked => stack = <<>> /\ ordered = <<>>

\* Where a node is.
LEMMA PosIs ==
  ASSUME NEW i \in Tree!NodeIds
  PROVE  Tree!Pos(i) \in DOMAIN nodeMap /\ nodeMap[Tree!Pos(i)].id = i
BY DEF Tree!NodeIds, Tree!Pos

\* Setting a node keeps one node for an id, that of the last span.
LEMMA SettingKeepsMap ==
  ASSUME MapInv, Tree!SetNode
  PROVE  MapInv'
<1> USE TreeAssumption DEF Tree!SpanTreeAssumption
<1>1. /\ answer \in Seq(Tree!Spans) /\ Len(answer) \in Nat /\ Len(answer) <= MaxSpans
      /\ next \in Nat /\ next >= 1 /\ next <= Len(answer) /\ next' = next + 1
      /\ nodeMap \in Seq(Tree!Spans)
      /\ UNCHANGED <<answer, linked, roots, stack, ordered>>
  BY DEF MapInv, Tree!TypeOK, Tree!SetNode
<1> DEFINE s == answer[next]
<1>2. s \in Tree!Spans /\ nodeMap' = Tree!Put(s)
  BY <1>1 DEF Tree!SetNode
<1>3. \A k, l \in DOMAIN nodeMap : nodeMap[k].id = nodeMap[l].id => k = l
  BY DEF MapInv
<1>4. 1 .. (next' - 1) = (1 .. (next - 1)) \cup {next}
  BY <1>1
<1>5. {answer'[k].id : k \in 1 .. (next' - 1)} = Tree!NodeIds \cup {s.id}
  BY <1>1, <1>4 DEF MapInv
<1>6. ~linked
  BY <1>1 DEF MapInv
<1> DEFINE n == Len(nodeMap)
<1>7. n \in Nat /\ DOMAIN nodeMap = 1 .. n
  BY <1>1
<1> HIDE DEF n
<1>8. PICK p : /\ p \in DOMAIN nodeMap' /\ nodeMap'[p] = s /\ nodeMap' \in Seq(Tree!Spans)
               /\ \A m \in DOMAIN nodeMap' : m # p =>
                    m \in DOMAIN nodeMap /\ nodeMap'[m] = nodeMap[m] /\ nodeMap[m].id # s.id
               /\ Tree!NodeIds' = Tree!NodeIds \cup {s.id}
  <2>1. CASE s.id \in Tree!NodeIds
    <3> DEFINE q == Tree!Pos(s.id)
    <3>1. q \in DOMAIN nodeMap /\ nodeMap[q].id = s.id
      BY <2>1, PosIs
    <3>2. nodeMap' = [nodeMap EXCEPT ![q] = s]
      BY <1>2, <2>1 DEF Tree!Put
    <3> HIDE DEF q, s
    <3>3. /\ DOMAIN nodeMap' = DOMAIN nodeMap /\ nodeMap'[q] = s
          /\ \A m \in DOMAIN nodeMap : m # q => nodeMap'[m] = nodeMap[m]
      BY <3>1, <3>2
    <3>4. nodeMap' \in Seq(Tree!Spans)
      BY <1>1, <1>2, <3>1, <3>2, ExceptSeq, <1>7 DEF n
    <3>5. \A m \in DOMAIN nodeMap : m # q => nodeMap[m].id # s.id
      BY <1>3, <3>1
    <3>6. Tree!NodeIds' = Tree!NodeIds \cup {s.id}
      <4>1. Tree!NodeIds' = {nodeMap'[k].id : k \in DOMAIN nodeMap}
        BY <3>3 DEF Tree!NodeIds
      <4>2. \A k \in DOMAIN nodeMap : nodeMap'[k].id = nodeMap[k].id
        BY <3>1, <3>3
      <4>3. Tree!NodeIds' = Tree!NodeIds
        BY <4>1, <4>2 DEF Tree!NodeIds
      <4> QED
        BY <2>1, <4>3
    <3> QED
      BY <3>1, <3>3, <3>4, <3>5, <3>6
  <2>2. CASE s.id \notin Tree!NodeIds
    <3>1. nodeMap' = Append(nodeMap, s)
      BY <1>2, <2>2 DEF Tree!Put
    <3> HIDE DEF s
    <3>2. /\ nodeMap' \in Seq(Tree!Spans) /\ DOMAIN nodeMap' = 1 .. (n + 1)
          /\ nodeMap'[n + 1] = s /\ \A m \in 1 .. n : nodeMap'[m] = nodeMap[m]
      BY <1>1, <1>2, <1>7, <3>1 DEF n
    <3>3. /\ n + 1 \in 1 .. (n + 1)
          /\ \A m \in 1 .. (n + 1) : m # n + 1 => m \in 1 .. n
          /\ 1 .. (n + 1) = (1 .. n) \cup {n + 1}
      BY <1>7
    <3>4. \A m \in 1 .. n : nodeMap[m].id # s.id
      BY <1>7, <2>2 DEF Tree!NodeIds
    <3>5. Tree!NodeIds' = Tree!NodeIds \cup {s.id}
      <4>1. Tree!NodeIds' = {nodeMap'[k].id : k \in (1 .. n) \cup {n + 1}}
        BY <3>2, <3>3 DEF Tree!NodeIds
      <4>2. Tree!NodeIds = {nodeMap[k].id : k \in 1 .. n}
        BY <1>7 DEF Tree!NodeIds
      <4> QED
        BY <3>2, <4>1, <4>2
    <3> QED
      BY <1>7, <3>2, <3>3, <3>4, <3>5
  <2> QED
    BY <2>1, <2>2
<1>9. \A k, l \in DOMAIN nodeMap' : nodeMap'[k].id = nodeMap'[l].id => k = l
  BY <1>3, <1>8
<1>10. \A m \in DOMAIN nodeMap' : \E k \in 1 .. next :
         answer[k] = nodeMap'[m] /\ \A l \in 1 .. next : answer[l].id = answer[k].id => l <= k
  <2> TAKE m \in DOMAIN nodeMap'
  <2>1. CASE m = p
    <3>1. next \in 1 .. next /\ \A l \in 1 .. next : l <= next
      BY <1>1
    <3> QED
      BY <1>8, <2>1, <3>1
  <2>2. CASE m # p
    <3>1. m \in DOMAIN nodeMap /\ nodeMap'[m] = nodeMap[m] /\ nodeMap[m].id # s.id
      BY <1>8, <2>2
    <3>2. PICK k \in 1 .. (next - 1) :
            /\ answer[k] = nodeMap[m]
            /\ \A l \in 1 .. (next - 1) : answer[l].id = answer[k].id => l <= k
      BY <3>1 DEF MapInv
    <3>3. k \in 1 .. next /\ \A l \in 1 .. next : l = next \/ l \in 1 .. (next - 1)
      BY <1>1
    <3>4. \A l \in 1 .. next : answer[l].id = answer[k].id => l <= k
      BY <3>1, <3>2, <3>3
    <3> QED
      BY <3>1, <3>2, <3>3, <3>4
  <2> QED
    BY <2>1, <2>2
<1>11. next' - 1 = next /\ next' \in 1 .. (MaxSpans + 1) /\ next' <= Len(answer) + 1
  BY <1>1
<1>12. Tree!TypeOK'
  BY <1>1, <1>8, <1>11 DEF MapInv, Tree!TypeOK
<1>13. ~linked' /\ stack' = <<>> /\ ordered' = <<>>
  BY <1>1, <1>6 DEF MapInv
<1>14. Tree!NodeIds' = {answer'[k].id : k \in 1 .. (next' - 1)}
  BY <1>5, <1>8
<1>15. \A m \in DOMAIN nodeMap' : \E k \in 1 .. (next' - 1) :
         /\ answer'[k] = nodeMap'[m]
         /\ \A l \in 1 .. (next' - 1) : answer'[l].id = answer'[k].id => l <= k
  BY <1>1, <1>10, <1>11
<1> QED
  BY <1>1, <1>9, <1>11, <1>12, <1>13, <1>14, <1>15 DEF MapInv

\* After the loop the map is the reference: a node for every id, of its last span.
LEMMA NodesAreSpans ==
  ASSUME MapInv, next > Len(answer)
  PROVE  /\ Tree!NodeIds = Tree!SpanIds /\ Tree!SpanIds \in SUBSET Tree!Ids
         /\ IsFiniteSet(Tree!SpanIds)
         /\ \A i \in Tree!SpanIds : /\ Tree!Node(i) = Tree!SpanWith(i)
                                    /\ ParentOf(i) \in Nat /\ StartOf(i) \in Nat
<1> USE TreeAssumption DEF Tree!SpanTreeAssumption
<1>1. /\ answer \in Seq(Tree!Spans) /\ Len(answer) \in Nat /\ next = Len(answer) + 1
      /\ nodeMap \in Seq(Tree!Spans)
  BY DEF MapInv, Tree!TypeOK
<1>2. next - 1 = Len(answer) /\ DOMAIN answer = 1 .. Len(answer)
  BY <1>1
<1>3. Tree!NodeIds = Tree!SpanIds
  BY <1>2 DEF MapInv, Tree!SpanIds
<1>4. Tree!SpanIds \in SUBSET Tree!Ids
  <2>1. \A k \in DOMAIN answer : answer[k] \in Tree!Spans
    BY <1>1
  <2> QED
    BY <2>1 DEF Tree!SpanIds, Tree!Spans
<1>5. IsFiniteSet(Tree!SpanIds)
  <2>1. IsFiniteSet(Tree!Ids)
    BY FS_Interval DEF Tree!Ids
  <2> QED
    BY <1>4, <2>1, FS_Subset
<1>6. ASSUME NEW i \in Tree!SpanIds
      PROVE  /\ Tree!Node(i) = Tree!SpanWith(i)
             /\ ParentOf(i) \in Nat /\ StartOf(i) \in Nat
  <2> DEFINE p == Tree!Pos(i)
             ks == {k \in DOMAIN answer : answer[k].id = i}
  <2>1. p \in DOMAIN nodeMap /\ nodeMap[p].id = i
    BY <1>3, PosIs
  <2>2. PICK k \in 1 .. (next - 1) :
          /\ answer[k] = nodeMap[p]
          /\ \A l \in 1 .. (next - 1) : answer[l].id = answer[k].id => l <= k
    BY <2>1 DEF MapInv
  <2>3. k \in ks /\ \A l \in ks : l <= k
    BY <1>2, <2>1, <2>2
  <2>4. ks \in SUBSET Nat
    BY <1>1, <1>2
  <2> HIDE DEF ks, p
  <2>5. \A l \in ks : (\A j \in ks : j <= l) => l = k
    BY <2>3, <2>4
  <2>6. (CHOOSE l \in ks : \A j \in ks : j <= l) = k
    BY <2>3, <2>5
  <2>7. Tree!SpanWith(i) = answer[k]
    BY <2>6 DEF Tree!SpanWith, ks
  <2>8. Tree!Node(i) = nodeMap[p]
    BY DEF Tree!Node, p
  <2>9. nodeMap[p] \in Tree!Spans
    BY <1>1, <2>1
  <2>10. nodeMap[p].parent \in Nat /\ nodeMap[p].start \in Nat
    BY <2>9 DEF Tree!Spans
  <2> QED
    BY <2>2, <2>7, <2>8, <2>10 DEF ParentOf, StartOf
<1> QED
  BY <1>3, <1>4, <1>5, <1>6

\* Siblings are listed, all of them, each once and by start.
LEMMA ListedByStart ==
  ASSUME MapInv, next > Len(answer), NEW S \in SUBSET Tree!SpanIds
  PROVE  \E n \in Nat :
           /\ Tree!ByStart(S) \in [1 .. n -> S]
           /\ \A k, l \in 1 .. n : Tree!ByStart(S)[k] = Tree!ByStart(S)[l] => k = l
           /\ \A i \in S : \E k \in 1 .. n : Tree!ByStart(S)[k] = i
           /\ \A k, l \in 1 .. n :
                k < l => StartOf(Tree!ByStart(S)[k]) <= StartOf(Tree!ByStart(S)[l])
<1> DEFINE n == Cardinality(S)
           b == Tree!ByStart(S)
           R == {p \in S \X S : Tree!Precedes(p[1], p[2])}
<1>1. /\ Tree!NodeIds = Tree!SpanIds /\ IsFiniteSet(Tree!SpanIds)
      /\ \A i \in Tree!SpanIds : Tree!Node(i) = Tree!SpanWith(i) /\ StartOf(i) \in Nat
  BY NodesAreSpans
<1>2. IsFiniteSet(S) /\ n \in Nat
  BY <1>1, FS_Subset, FS_CardinalityType
<1>3. \A i \in S : /\ Tree!Node(i).start = StartOf(i) /\ StartOf(i) \in Nat
                   /\ Tree!Pos(i) \in Nat /\ nodeMap[Tree!Pos(i)].id = i
  <2>1. DOMAIN nodeMap \in SUBSET Nat
    BY DEF MapInv, Tree!TypeOK
  <2>2. \A i \in S : i \in Tree!NodeIds /\ i \in Tree!SpanIds
    BY <1>1
  <2> QED
    BY <1>1, <2>1, <2>2, PosIs DEF StartOf
<1>4. \A i, j \in S : <<i, j>> \in R <=>
        StartOf(i) < StartOf(j) \/ (StartOf(i) = StartOf(j) /\ Tree!Pos(i) < Tree!Pos(j))
  BY <1>3 DEF Tree!Precedes
<1>5. \A i, j \in S : Tree!Pos(i) = Tree!Pos(j) => i = j
  BY <1>3
<1>6. b = CHOOSE s \in Injection(1 .. n, S) :
            \A k, l \in DOMAIN s : k < l => Tree!Precedes(s[k], s[l])
  BY TreeNames DEF Tree!ByStart
<1>7. \A i, j \in S : <<i, j>> \in R => Tree!Precedes(i, j)
  OBVIOUS
<1> HIDE DEF R
<1>8. \A i, j \in S : <<i, j>> \in R \/ <<j, i>> \in R \/ i = j
  <2> TAKE i, j \in S
  <2>1. StartOf(i) \in Nat /\ StartOf(j) \in Nat /\ Tree!Pos(i) \in Nat /\ Tree!Pos(j) \in Nat
    BY <1>3
  <2>2. StartOf(i) < StartOf(j) \/ StartOf(j) < StartOf(i) \/ StartOf(i) = StartOf(j)
    BY <2>1
  <2>3. Tree!Pos(i) < Tree!Pos(j) \/ Tree!Pos(j) < Tree!Pos(i) \/ Tree!Pos(i) = Tree!Pos(j)
    BY <2>1
  <2>4. /\ <<i, j>> \in R <=>
             StartOf(i) < StartOf(j) \/ (StartOf(i) = StartOf(j) /\ Tree!Pos(i) < Tree!Pos(j))
        /\ <<j, i>> \in R <=>
             StartOf(j) < StartOf(i) \/ (StartOf(j) = StartOf(i) /\ Tree!Pos(j) < Tree!Pos(i))
    BY <1>4
  <2> QED
    BY <1>5, <2>2, <2>3, <2>4
<1>9. \A i \in S : <<i, i>> \notin R
  BY <1>3, <1>4
<1>10. \A i, j, k \in S : <<i, j>> \in R /\ <<j, k>> \in R => <<i, k>> \in R
  BY <1>3, <1>4
<1>11. PICK s \in Injection(1 .. n, S) : \A k, l \in 1 .. n : k < l => <<s[k], s[l]>> \in R
  BY <1>2, <1>8, <1>9, <1>10, OrderedCanBeListed
<1>12. s \in [1 .. n -> S] /\ DOMAIN s = 1 .. n
  BY <1>11 DEF Injection
<1>13. \A k, l \in DOMAIN s : k < l => Tree!Precedes(s[k], s[l])
  BY <1>7, <1>11, <1>12
<1> HIDE DEF b
<1>14. b \in Injection(1 .. n, S) /\ \A k, l \in DOMAIN b : k < l => Tree!Precedes(b[k], b[l])
  BY <1>6, <1>11, <1>13
<1>15. b \in [1 .. n -> S] /\ \A k, l \in 1 .. n : b[k] = b[l] => k = l
  BY <1>14 DEF Injection, IsInjective
<1>16. IsFiniteSet(1 .. n) /\ Cardinality(1 .. n) = n
  BY <1>2, FS_Interval
<1>17. b \in Surjection(1 .. n, S)
  <2> HIDE DEF n
  <2>1. Cardinality(1 .. n) = Cardinality(S)
    BY <1>16 DEF n
  <2> QED
    BY <1>2, <1>14, <2>1, FS_Injection
<1>18. \A i \in S : \E k \in 1 .. n : b[k] = i
  BY <1>17 DEF Surjection
<1>19. \A k, l \in 1 .. n : k < l => StartOf(b[k]) <= StartOf(b[l])
  <2> SUFFICES ASSUME NEW k \in 1 .. n, NEW l \in 1 .. n, k < l
               PROVE  StartOf(b[k]) <= StartOf(b[l])
    OBVIOUS
  <2>1. b[k] \in S /\ b[l] \in S /\ Tree!Precedes(b[k], b[l])
    BY <1>14, <1>15
  <2> QED
    BY <1>3, <2>1 DEF Tree!Precedes
<1> QED
  BY <1>2, <1>15, <1>18, <1>19 DEF b

(***************************************************************************)
(* The walk.  Of the rows so far, followed by the places that are still to *)
(* be visited, m are rows: no span is there twice; each is indented once   *)
(* per ancestor and comes after all of them; between its parent, which is  *)
(* a row, and itself are its parent's relatives only; roots and the        *)
(* children of rows are there; and siblings are in order.                  *)
(***************************************************************************)
OnceEach(c) == \A k, l \in DOMAIN c : c[k].id = c[l].id => k = l

Indented(c) ==
  \A k \in DOMAIN c :
    /\ c[k].id \in Tree!SpanIds
    /\ c[k].depth = Cardinality(Tree!Ancestors(c[k].id))
    /\ \A j \in Tree!Ancestors(c[k].id) : \E l \in DOMAIN c : l < k /\ c[l].id = j

UnderParent(c, m) ==
  \A k \in DOMAIN c : ParentOf(c[k].id) \in Tree!SpanIds =>
    \E r \in 1 .. m :
      /\ r < k /\ c[r].id = ParentOf(c[k].id)
      /\ \A l \in DOMAIN c : r < l /\ l <= k => ParentOf(c[k].id) \in Tree!Ancestors(c[l].id)

Reached(c, m) ==
  \A i \in Tree!SpanIds :
    (ParentOf(i) \notin Tree!SpanIds \/ \E r \in 1 .. m : c[r].id = ParentOf(i))
      => \E k \in DOMAIN c : c[k].id = i

InOrder(c) ==
  \A k, l \in DOMAIN c :
    k < l /\ Tree!Up({c[k].id}) = Tree!Up({c[l].id}) => StartOf(c[k].id) <= StartOf(c[l].id)

Walk(c, m) == OnceEach(c) /\ Indented(c) /\ UnderParent(c, m) /\ Reached(c, m) /\ InOrder(c)

\* That places are indented, with their range by its name.
LEMMA IndentedOver ==
  ASSUME NEW c, NEW n, DOMAIN c = 1 .. n,
         \A k \in 1 .. n :
           /\ c[k].id \in Tree!SpanIds
           /\ c[k].depth = Cardinality(Tree!Ancestors(c[k].id))
           /\ \A j \in Tree!Ancestors(c[k].id) : \E l \in 1 .. n : l < k /\ c[l].id = j
  PROVE  Indented(c)
<1>1. \A k \in DOMAIN c :
        /\ c[k].id \in Tree!SpanIds
        /\ c[k].depth = Cardinality(Tree!Ancestors(c[k].id))
        /\ \A j \in Tree!Ancestors(c[k].id) : \E l \in DOMAIN c : l < k /\ c[l].id = j
  <2> TAKE k \in DOMAIN c
  <2>1. k \in 1 .. n
    OBVIOUS
  <2>2. \A j \in Tree!Ancestors(c[k].id) : \E l \in DOMAIN c : l < k /\ c[l].id = j
    BY <2>1
  <2> QED
    BY <2>1, <2>2
<1> QED
  BY <1>1 DEF Indented

\* The roots in order are a walk that has not begun.
LEMMA RootsBegin ==
  ASSUME NEW w \in Nat, NEW b \in [1 .. w -> Tree!SpanIds], NEW c,
         \A k, l \in 1 .. w : b[k] = b[l] => k = l,
         \A k \in 1 .. w : ParentOf(b[k]) \notin Tree!SpanIds,
         \A i \in Tree!SpanIds : ParentOf(i) \notin Tree!SpanIds => \E k \in 1 .. w : b[k] = i,
         \A k, l \in 1 .. w : k < l => StartOf(b[k]) <= StartOf(b[l]),
         DOMAIN c = 1 .. w,
         \A k \in 1 .. w : c[k].id = b[k] /\ c[k].depth = 0
  PROVE  Walk(c, 0)
<1>1. \A k \in 1 .. w : Tree!Ancestors(c[k].id) = {}
  BY AncestorsOf
<1>2. Cardinality({}) = 0
  BY FS_EmptySet
<1>3. Indented(c)
  <2>1. \A k \in 1 .. w : c[k].id \in Tree!SpanIds
    OBVIOUS
  <2>2. \A k \in 1 .. w : c[k].depth = Cardinality(Tree!Ancestors(c[k].id))
    <3> TAKE k \in 1 .. w
    <3>1. Cardinality(Tree!Ancestors(c[k].id)) = Cardinality({})
      BY <1>1
    <3> QED
      BY <1>2, <3>1
  <2> QED
    BY <1>1, <2>1, <2>2 DEF Indented
<1>4. OnceEach(c) /\ InOrder(c)
  BY DEF OnceEach, InOrder
<1>5. UnderParent(c, 0)
  BY DEF UnderParent
<1>6. Reached(c, 0)
  BY DEF Reached
<1> QED
  BY <1>3, <1>4, <1>5, <1>6 DEF Walk

\* A span is not its own ancestor once it has a place, and no child of the place
\* that is visited next has one yet.
LEMMA ChildrenAreNew ==
  ASSUME NEW n \in Nat, NEW m \in Nat, m < n,
         NEW c, DOMAIN c = 1 .. n, Walk(c, m)
  PROVE  /\ m + 1 \in 1 .. n /\ c[m + 1].id \in Tree!SpanIds
         /\ c[m + 1].id \notin Tree!Ancestors(c[m + 1].id)
         /\ \A k \in 1 .. n : ParentOf(c[k].id) # c[m + 1].id
<1>1. m + 1 \in 1 .. n /\ \A r \in 1 .. m : r \in 1 .. n /\ r # m + 1
  OBVIOUS
<1>2. c[m + 1].id \in Tree!SpanIds
  BY <1>1 DEF Walk, Indented
<1>3. c[m + 1].id \notin Tree!Ancestors(c[m + 1].id)
  <2> SUFFICES ASSUME c[m + 1].id \in Tree!Ancestors(c[m + 1].id) PROVE FALSE
    OBVIOUS
  <2>1. PICK l \in 1 .. n : l < m + 1 /\ c[l].id = c[m + 1].id
    BY <1>1 DEF Walk, Indented
  <2>2. l = m + 1
    BY <1>1, <2>1 DEF Walk, OnceEach
  <2> QED
    BY <2>1, <2>2
<1>4. ASSUME NEW k \in 1 .. n, ParentOf(c[k].id) = c[m + 1].id PROVE FALSE
  <2>1. PICK r \in 1 .. m : c[r].id = c[m + 1].id
    BY <1>2, <1>4 DEF Walk, UnderParent
  <2> QED
    BY <1>1, <2>1 DEF Walk, OnceEach
<1> QED
  BY <1>1, <1>2, <1>3, <1>4

\* Of the n places of c, the one after the first m is visited: its w children
\* b are put below it, which makes e of c.
Visit(c, e, n, m, w, b) ==
  /\ n \in Nat
  /\ m \in Nat
  /\ w \in Nat
  /\ m < n
  /\ DOMAIN c = 1 .. n
  /\ DOMAIN e = 1 .. (n + w)
  /\ b \in [1 .. w -> Tree!SpanIds]
  /\ \A k, l \in 1 .. w : b[k] = b[l] => k = l
  /\ \A k \in 1 .. w : ParentOf(b[k]) = c[m + 1].id
  /\ \A i \in Tree!SpanIds : ParentOf(i) = c[m + 1].id => \E k \in 1 .. w : b[k] = i
  /\ \A k, l \in 1 .. w : k < l => StartOf(b[k]) <= StartOf(b[l])
  /\ \A k \in 1 .. (m + 1) : e[k] = c[k]
  /\ \A k \in 1 .. w : e[m + 1 + k].id = b[k] /\ e[m + 1 + k].depth = c[m + 1].depth + 1
  /\ \A k \in (m + 2) .. n : e[k + w] = c[k]

\* Visiting a place puts its children right below it, and it is still a walk.
LEMMA VisitingKeepsWalk ==
  ASSUME NEW c, NEW e, NEW n, NEW m, NEW w, NEW b, Visit(c, e, n, m, w, b),
         Walk(c, m), IsFiniteSet(Tree!SpanIds)
  PROVE  Walk(e, m + 1)
<1> SUFFICES ASSUME n \in Nat,
                    m \in Nat,
                    w \in Nat,
                    m < n,
                    DOMAIN c = 1 .. n,
                    DOMAIN e = 1 .. (n + w),
                    b \in [1 .. w -> Tree!SpanIds],
                    \A k, l \in 1 .. w : b[k] = b[l] => k = l,
                    \A k \in 1 .. w : ParentOf(b[k]) = c[m + 1].id,
                    \A i \in Tree!SpanIds : ParentOf(i) = c[m + 1].id => \E k \in 1 .. w : b[k] = i,
                    \A k, l \in 1 .. w : k < l => StartOf(b[k]) <= StartOf(b[l]),
                    \A k \in 1 .. (m + 1) : e[k] = c[k],
                    \A k \in 1 .. w : e[m + 1 + k].id = b[k] /\ e[m + 1 + k].depth = c[m + 1].depth + 1,
                    \A k \in (m + 2) .. n : e[k + w] = c[k]
             PROVE  Walk(e, m + 1)
  BY Zenon DEF Visit
<1> DEFINE old(k) == IF k <= m + 1 THEN k ELSE k + w
           new(k) == m + 1 + k
           z == c[m + 1].id
\* Where the places of c and the children are in e.
<1>1. \A j \in 1 .. (n + w) : (\E k \in 1 .. n : j = old(k)) \/ (\E k \in 1 .. w : j = new(k))
  <2> TAKE j \in 1 .. (n + w)
  <2>1. CASE j <= m + 1
    <3>1. j \in 1 .. n /\ j = old(j)
      BY <2>1
    <3> QED
      BY <3>1
  <2>2. CASE m + 1 < j /\ j <= m + 1 + w
    <3>1. j - (m + 1) \in 1 .. w /\ j = new(j - (m + 1))
      BY <2>2
    <3> QED
      BY <3>1
  <2>3. CASE m + 1 + w < j
    <3>1. j - w \in 1 .. n /\ j = old(j - w)
      BY <2>3
    <3> QED
      BY <3>1
  <2> QED
    BY <2>1, <2>2, <2>3
<1>2. \A k \in 1 .. n : old(k) \in 1 .. (n + w) /\ e[old(k)] = c[k]
  <2> TAKE k \in 1 .. n
  <2>1. CASE k <= m + 1
    <3>1. k \in 1 .. (m + 1) /\ old(k) = k /\ k \in 1 .. (n + w)
      BY <2>1
    <3> QED
      BY <3>1
  <2>2. CASE k > m + 1
    <3>1. k \in (m + 2) .. n /\ old(k) = k + w /\ k + w \in 1 .. (n + w)
      BY <2>2
    <3> QED
      BY <3>1
  <2> QED
    BY <2>1, <2>2
<1>3. \A k \in 1 .. w : new(k) \in 1 .. (n + w) /\ e[new(k)].id = b[k]
                        /\ e[new(k)].depth = c[m + 1].depth + 1
  <2> TAKE k \in 1 .. w
  <2>1. m + 1 + k \in 1 .. (n + w) /\ new(k) = m + 1 + k
    OBVIOUS
  <2>2. e[m + 1 + k].id = b[k] /\ e[m + 1 + k].depth = c[m + 1].depth + 1
    OBVIOUS
  <2> HIDE DEF new
  <2> QED
    BY <2>1, <2>2
<1>4. \A k, l \in 1 .. n : (old(k) < old(l) <=> k < l) /\ (old(k) <= old(l) <=> k <= l)
  OBVIOUS
<1>5. \A k \in 1 .. n, l \in 1 .. w :
        (old(k) < new(l) <=> k <= m + 1) /\ (new(l) <= old(k) <=> m + 1 < k)
        /\ (old(k) <= new(l) <=> k <= m + 1) /\ (new(l) < old(k) <=> m + 1 < k)
  OBVIOUS
<1>6. \A k, l \in 1 .. w : new(k) < new(l) <=> k < l
  OBVIOUS
<1>7. \A r \in 1 .. (m + 1) : r \in 1 .. n /\ old(r) = r
  OBVIOUS
\* What is known of c.
<1>16. \A k, l \in 1 .. n : c[k].id = c[l].id => k = l
  BY DEF Walk, OnceEach
<1>17. \A k \in 1 .. n : /\ c[k].id \in Tree!SpanIds
                         /\ c[k].depth = Cardinality(Tree!Ancestors(c[k].id))
  BY DEF Walk, Indented
<1>18. \A k \in 1 .. n : \A j \in Tree!Ancestors(c[k].id) : \E l \in 1 .. n : l < k /\ c[l].id = j
  <2> TAKE k \in 1 .. n
  <2>1. \A j \in Tree!Ancestors(c[k].id) : \E l \in DOMAIN c : l < k /\ c[l].id = j
    BY DEF Walk, Indented
  <2> QED
    BY <2>1
<1>19. \A k, l \in 1 .. n :
         k < l /\ Tree!Up({c[k].id}) = Tree!Up({c[l].id}) => StartOf(c[k].id) <= StartOf(c[l].id)
  BY DEF Walk, InOrder
\* What the visited place and its children have to do with those of c.
<1>8. /\ m + 1 \in 1 .. n /\ z \in Tree!SpanIds /\ z \notin Tree!Ancestors(z)
      /\ \A k \in 1 .. n : ParentOf(c[k].id) # z
  BY ChildrenAreNew
<1>9. \A k \in 1 .. w : /\ b[k] \in Tree!SpanIds /\ ParentOf(b[k]) = z
                        /\ Tree!Ancestors(b[k]) = {z} \cup Tree!Ancestors(z)
  BY <1>8, AncestorsOf
<1>10. \A k \in 1 .. w : e[new(k)].depth = Cardinality(Tree!Ancestors(b[k]))
  <2> TAKE k \in 1 .. w
  <2>1. IsFiniteSet(Tree!Ancestors(z))
    BY AncestorsAreLeast, FS_Subset
  <2>2. Cardinality(Tree!Ancestors(z) \cup {z}) = Cardinality(Tree!Ancestors(z)) + 1
    BY <1>8, <2>1, FS_AddElement
  <2>3. Tree!Ancestors(b[k]) = Tree!Ancestors(z) \cup {z}
    BY <1>9
  <2>4. c[m + 1].depth = Cardinality(Tree!Ancestors(z))
    BY <1>8 DEF Walk, Indented
  <2>5. Cardinality(Tree!Ancestors(b[k])) = Cardinality(Tree!Ancestors(z)) + 1
    BY <2>2, <2>3
  <2> QED
    BY <1>3, <2>4, <2>5
<1> HIDE DEF old, new, z
<1>11. OnceEach(e)
  <2> SUFFICES ASSUME NEW k \in 1 .. (n + w), NEW l \in 1 .. (n + w), e[k].id = e[l].id
               PROVE  k = l
    BY DEF OnceEach
  <2>1. CASE (\E i \in 1 .. n : k = old(i)) /\ (\E j \in 1 .. n : l = old(j))
    <3>1. PICK i \in 1 .. n, j \in 1 .. n : k = old(i) /\ l = old(j)
      BY <2>1
    <3>2. c[i].id = c[j].id
      BY <1>2, <3>1
    <3> QED
      BY <3>1, <3>2 DEF Walk, OnceEach
  <2>2. CASE (\E i \in 1 .. w : k = new(i)) /\ (\E j \in 1 .. w : l = new(j))
    BY <1>3, <2>2
  <2>3. CASE (\E i \in 1 .. n : k = old(i)) /\ (\E j \in 1 .. w : l = new(j))
    BY <1>2, <1>3, <1>8, <1>9, <2>3
  <2>4. CASE (\E i \in 1 .. w : k = new(i)) /\ (\E j \in 1 .. n : l = old(j))
    BY <1>2, <1>3, <1>8, <1>9, <2>4
  <2> QED
    BY <1>1, <2>1, <2>2, <2>3, <2>4
<1>12. Indented(e)
  <2> SUFFICES \A k \in 1 .. (n + w) :
                 /\ e[k].id \in Tree!SpanIds
                 /\ e[k].depth = Cardinality(Tree!Ancestors(e[k].id))
                 /\ \A j \in Tree!Ancestors(e[k].id) :
                      \E l \in 1 .. (n + w) : l < k /\ e[l].id = j
    BY IndentedOver
  <2> TAKE k \in 1 .. (n + w)
  <2>1. CASE \E i \in 1 .. n : k = old(i)
    <3>1. PICK i \in 1 .. n : k = old(i) /\ e[k] = c[i]
      BY <1>2, <2>1
    <3>2. /\ c[i].id \in Tree!SpanIds
          /\ c[i].depth = Cardinality(Tree!Ancestors(c[i].id))
          /\ \A j \in Tree!Ancestors(c[i].id) : \E l \in 1 .. n : l < i /\ c[l].id = j
      BY <1>17, <1>18
    <3>3. ASSUME NEW j \in Tree!Ancestors(c[i].id)
          PROVE  \E l \in 1 .. (n + w) : l < k /\ e[l].id = j
      <4>1. PICK l \in 1 .. n : l < i /\ c[l].id = j
        BY <3>2, <3>3
      <4> QED
        BY <1>2, <1>4, <3>1, <4>1
    <3> QED
      BY <3>1, <3>2, <3>3
  <2>2. CASE \E i \in 1 .. w : k = new(i)
    <3>1. PICK i \in 1 .. w : k = new(i) /\ e[k].id = b[i]
      BY <1>3, <2>2
    <3>2. ASSUME NEW j \in Tree!Ancestors(b[i])
          PROVE  \E l \in 1 .. (n + w) : l < k /\ e[l].id = j
      <4>1. PICK l \in 1 .. n : l <= m + 1 /\ c[l].id = j
        <5>1. CASE j = z
          BY <1>8, <5>1 DEF z
        <5>2. CASE j \in Tree!Ancestors(z)
          <6>1. PICK l \in 1 .. n : l < m + 1 /\ c[l].id = j
            BY <1>8, <1>18, <5>2 DEF z
          <6>2. l <= m + 1
            BY <6>1
          <6> QED
            BY <6>1, <6>2
        <5> QED
          BY <1>9, <3>2, <5>1, <5>2
      <4> QED
        BY <1>2, <1>5, <3>1, <4>1
    <3> QED
      BY <1>9, <1>10, <3>1, <3>2
  <2> QED
    BY <1>1, <2>1, <2>2
<1>13. UnderParent(e, m + 1)
  <2> SUFFICES ASSUME NEW k \in 1 .. (n + w), ParentOf(e[k].id) \in Tree!SpanIds
               PROVE  \E r \in 1 .. (m + 1) :
                        /\ r < k /\ e[r].id = ParentOf(e[k].id)
                        /\ \A l \in 1 .. (n + w) :
                             r < l /\ l <= k => ParentOf(e[k].id) \in Tree!Ancestors(e[l].id)
    BY DEF UnderParent
  <2>1. CASE \E i \in 1 .. n : k = old(i)
    <3>1. PICK i \in 1 .. n : k = old(i) /\ e[k] = c[i]
      BY <1>2, <2>1
    <3> DEFINE p == ParentOf(c[i].id)
    <3>2. PICK r \in 1 .. m :
            /\ r < i /\ c[r].id = p
            /\ \A l \in 1 .. n : r < l /\ l <= i => p \in Tree!Ancestors(c[l].id)
      BY <3>1 DEF Walk, UnderParent
    <3>3. r \in 1 .. (m + 1) /\ r < m + 1
      OBVIOUS
    <3>4. r \in 1 .. n /\ old(r) = r /\ e[r] = c[r] /\ r < k
      BY <1>2, <1>4, <1>7, <3>1, <3>2, <3>3
    <3> HIDE DEF p
    <3>5. ASSUME NEW l \in 1 .. (n + w), r < l, l <= k PROVE p \in Tree!Ancestors(e[l].id)
      <4>1. CASE \E j \in 1 .. n : l = old(j)
        <5>1. PICK j \in 1 .. n : l = old(j) /\ e[l] = c[j]
          BY <1>2, <4>1
        <5>2. r < j /\ j <= i
          BY <1>4, <3>1, <3>4, <3>5, <5>1
        <5> QED
          BY <3>2, <5>1, <5>2
      <4>2. CASE \E j \in 1 .. w : l = new(j)
        <5>0. PICK j \in 1 .. w : l = new(j)
          BY <4>2
        <5>1. l = new(j) /\ e[l].id = b[j]
          BY <1>3, <5>0
        <5>2. m + 1 < i
          BY <1>5, <3>1, <3>5, <5>1
        <5>3. m + 1 <= i
          BY <5>2
        <5>4. p \in Tree!Ancestors(c[m + 1].id)
          BY <1>8, <3>2, <3>3, <5>3
        <5>5. p \in Tree!Ancestors(z)
          BY <5>4 DEF z
        <5> QED
          BY <1>9, <5>1, <5>5
      <4> QED
        BY <1>1, <4>1, <4>2
    <3> QED
      BY <3>1, <3>2, <3>3, <3>4, <3>5 DEF p
  <2>2. CASE \E i \in 1 .. w : k = new(i)
    <3>1. PICK i \in 1 .. w : k = new(i) /\ e[k].id = b[i] /\ ParentOf(e[k].id) = z
      BY <1>3, <1>9, <2>2
    <3>2. /\ m + 1 \in 1 .. (m + 1) /\ old(m + 1) = m + 1
          /\ m + 1 \in 1 .. n /\ e[m + 1].id = z
      <4>1. m + 1 \in 1 .. (m + 1)
        OBVIOUS
      <4>2. old(m + 1) = m + 1 /\ m + 1 \in 1 .. n
        BY <1>7, <4>1
      <4>3. e[m + 1] = c[m + 1]
        BY <4>1
      <4>4. e[m + 1].id = z
        BY <4>3 DEF z
      <4> QED
        BY <4>1, <4>2, <4>4
    <3>3. m + 1 < k
      BY <3>1 DEF new
    <3>4. ASSUME NEW l \in 1 .. (n + w), m + 1 < l, l <= k PROVE z \in Tree!Ancestors(e[l].id)
      <4>1. CASE \E j \in 1 .. n : l = old(j)
        <5>1. PICK j \in 1 .. n : l = old(j)
          BY <4>1
        <5>2. m + 1 < j
          BY <1>4, <3>2, <3>4, <5>1
        <5>3. j <= m + 1
          BY <1>5, <3>1, <3>4, <5>1
        <5> QED
          BY <5>2, <5>3
      <4>2. CASE \E j \in 1 .. w : l = new(j)
        BY <1>3, <1>9, <4>2
      <4> QED
        BY <1>1, <4>1, <4>2
    <3> QED
      BY <3>1, <3>2, <3>3, <3>4
  <2> QED
    BY <1>1, <2>1, <2>2
<1>14. Reached(e, m + 1)
  <2> SUFFICES ASSUME NEW i \in Tree!SpanIds,
                      \/ ParentOf(i) \notin Tree!SpanIds
                      \/ \E r \in 1 .. (m + 1) : e[r].id = ParentOf(i)
               PROVE  \E k \in 1 .. (n + w) : e[k].id = i
    BY DEF Reached
  <2>1. CASE \E k \in 1 .. n : c[k].id = i
    BY <1>2, <2>1
  <2>2. CASE ParentOf(i) = z
    <3>1. PICK k \in 1 .. w : b[k] = i
      BY <2>2 DEF z
    <3> QED
      BY <1>3, <3>1
  <2>3. CASE ParentOf(i) \notin Tree!SpanIds
    BY <2>1, <2>3 DEF Walk, Reached
  <2>4. CASE \E r \in 1 .. (m + 1) : e[r].id = ParentOf(i)
    <3>1. PICK r \in 1 .. (m + 1) : e[r].id = ParentOf(i)
      BY <2>4
    <3>2. c[r].id = ParentOf(i) /\ (r \in 1 .. m \/ r = m + 1)
      BY <3>1
    <3> QED
      BY <2>1, <2>2, <3>2 DEF Walk, Reached, z
  <2> QED
    BY <2>3, <2>4
<1>15. InOrder(e)
  <2> SUFFICES ASSUME NEW k \in 1 .. (n + w), NEW l \in 1 .. (n + w), k < l,
                      Tree!Up({e[k].id}) = Tree!Up({e[l].id})
               PROVE  StartOf(e[k].id) <= StartOf(e[l].id)
    BY DEF InOrder
  <2>1. \A i \in 1 .. n, j \in 1 .. w : Tree!Up({c[i].id}) # Tree!Up({b[j]})
    <3> TAKE i \in 1 .. n, j \in 1 .. w
    <3>1. Tree!Up({b[j]}) = {z}
      <4>1. ParentOf(b[j]) = z /\ ParentOf(b[j]) \in Tree!SpanIds
        BY <1>8, <1>9
      <4>2. Tree!Up({b[j]}) = {ParentOf(b[j])}
        BY <4>1, UpIs
      <4> QED
        BY <4>1, <4>2
    <3>2. z \notin Tree!Up({c[i].id})
      <4>1. ParentOf(c[i].id) # z
        BY <1>8
      <4>2. CASE ParentOf(c[i].id) \in Tree!SpanIds
        <5>1. Tree!Up({c[i].id}) = {ParentOf(c[i].id)}
          BY <4>2, UpIs
        <5> QED
          BY <4>1, <5>1
      <4>3. CASE ParentOf(c[i].id) \notin Tree!SpanIds
        <5>1. Tree!Up({c[i].id}) = {}
          BY <4>3, UpIs
        <5> QED
          BY <5>1
      <4> QED
        BY <4>2, <4>3
    <3> QED
      BY <3>1, <3>2
  <2>2. CASE (\E i \in 1 .. n : k = old(i)) /\ (\E j \in 1 .. n : l = old(j))
    <3>1. PICK i \in 1 .. n, j \in 1 .. n : k = old(i) /\ l = old(j)
      BY <2>2
    <3>2. i < j /\ e[k] = c[i] /\ e[l] = c[j]
      BY <1>2, <1>4, <3>1
    <3>3. Tree!Up({c[i].id}) = Tree!Up({c[j].id})
      BY <3>2, Zenon
    <3> QED
      BY <1>19, <3>2, <3>3
  <2>3. CASE (\E i \in 1 .. w : k = new(i)) /\ (\E j \in 1 .. w : l = new(j))
    <3>1. PICK i \in 1 .. w, j \in 1 .. w : k = new(i) /\ l = new(j)
      BY <2>3
    <3>2. i < j /\ e[k].id = b[i] /\ e[l].id = b[j]
      BY <1>3, <1>6, <3>1
    <3> QED
      BY <3>2
  <2>4. CASE (\E i \in 1 .. n : k = old(i)) /\ (\E j \in 1 .. w : l = new(j))
    <3>1. PICK i \in 1 .. n, j \in 1 .. w : k = old(i) /\ l = new(j)
      BY <2>4
    <3>2. e[k].id = c[i].id /\ e[l].id = b[j]
      BY <1>2, <1>3, <3>1
    <3>3. Tree!Up({c[i].id}) = Tree!Up({b[j]})
      BY <3>2, Zenon
    <3> QED
      BY <2>1, <3>3
  <2>5. CASE (\E i \in 1 .. w : k = new(i)) /\ (\E j \in 1 .. n : l = old(j))
    <3>1. PICK i \in 1 .. w, j \in 1 .. n : k = new(i) /\ l = old(j)
      BY <2>5
    <3>2. e[k].id = b[i] /\ e[l].id = c[j].id
      BY <1>2, <1>3, <3>1
    <3>3. Tree!Up({b[i]}) = Tree!Up({c[j].id})
      BY <3>2, Zenon
    <3> QED
      BY <2>1, <3>3
  <2> QED
    BY <1>1, <2>2, <2>3, <2>4, <2>5
<1> QED
  BY <1>11, <1>12, <1>13, <1>14, <1>15 DEF Walk

\* What the walk keeps, from the linking on.
WalkInv == MapInv /\ (linked => Walk(ordered \o stack, Len(ordered)))

\* What is asked of the rows depends on the answer, and that stays.
LEMMA WalkStays ==
  ASSUME answer' = answer, NEW c, NEW m, Walk(c, m)
  PROVE  Walk(c, m)'
<1>1. Tree!SpanIds' = Tree!SpanIds
  BY DEF Tree!SpanIds
<1>2. \A i : ParentOf(i)' = ParentOf(i) /\ StartOf(i)' = StartOf(i)
  BY DEF ParentOf, StartOf, Tree!SpanWith
<1>3. \A S : Tree!Up(S)' = Tree!Up(S)
  BY DEF Tree!Up, Tree!SpanWith, Tree!SpanIds
<1>4. \A i : Tree!Ancestors(i)' = Tree!Ancestors(i)
  BY DEF Tree!Ancestors, Tree!Up, Tree!SpanWith, Tree!SpanIds
<1> QED
  BY <1>1, <1>2, <1>3, <1>4
     DEF Walk, OnceEach, Indented, UnderParent, Reached, InOrder

\* What the walk changes is no part of the map.
LEMMA WalkingKeepsMap ==
  ASSUME MapInv, UNCHANGED <<answer, next, nodeMap>>, linked', linked' \in BOOLEAN,
         next > Len(answer),
         roots' \in Seq(Tree!Ids), stack' \in Seq(Tree!Place), ordered' \in Seq(Tree!Place)
  PROVE  MapInv'
<1>1. Tree!TypeOK'
  BY DEF MapInv, Tree!TypeOK
<1>2. Tree!NodeIds' = Tree!NodeIds
  BY DEF Tree!NodeIds
<1>3. next = Len(answer) + 1
  <2>1. next <= Len(answer) + 1
    BY DEF MapInv
  <2>2. next \in 1 .. (MaxSpans + 1) /\ answer \in Seq(Tree!Spans)
    BY DEF MapInv, Tree!TypeOK
  <2>3. next \in Int /\ Len(answer) \in Int
    BY <2>2, TreeAssumption DEF Tree!SpanTreeAssumption
  <2> QED
    BY <2>1, <2>3
<1> QED
  BY <1>1, <1>2, <1>3 DEF MapInv

\* A list of ids, with its depth, is a list of places.
LEMMA AtIs ==
  ASSUME NEW w \in Nat, NEW d \in Nat, NEW b \in [1 .. w -> Tree!Ids]
  PROVE  /\ Tree!At(d, b) \in Seq(Tree!Place) /\ Len(Tree!At(d, b)) = w
         /\ DOMAIN Tree!At(d, b) = 1 .. w
         /\ \A k \in 1 .. w : Tree!At(d, b)[k].id = b[k] /\ Tree!At(d, b)[k].depth = d
<1>1. Tree!At(d, b) = [k \in 1 .. w |-> [id |-> b[k], depth |-> d]]
  BY DEF Tree!At
<1>2. \A k \in 1 .. w : [id |-> b[k], depth |-> d] \in Tree!Place
  BY DEF Tree!Place
<1>3. Tree!At(d, b) \in [1 .. w -> Tree!Place]
  BY <1>1, <1>2
<1>4. Tree!At(d, b) \in Seq(Tree!Place) /\ Len(Tree!At(d, b)) = w
  BY <1>3
<1> QED
  BY <1>1, <1>4

\* Linking begins the walk at the roots.
LEMMA LinkingBegins ==
  ASSUME MapInv, Tree!Link
  PROVE  WalkInv'
<1>1. /\ next > Len(answer) /\ ~linked /\ linked' = TRUE
      /\ roots' = Tree!ByStart(Tree!Roots) /\ stack' = Tree!At(0, roots')
      /\ UNCHANGED <<answer, next, nodeMap, ordered>>
  BY DEF Tree!Link
<1>2. ordered = <<>> /\ ordered' = <<>> /\ Len(ordered') = 0
  BY <1>1 DEF MapInv
<1> DEFINE S == Tree!Roots
           b == Tree!ByStart(S)
<1>3. /\ Tree!NodeIds = Tree!SpanIds /\ Tree!SpanIds \in SUBSET Tree!Ids
      /\ \A i \in Tree!SpanIds : Tree!Node(i).parent = ParentOf(i)
  BY <1>1, NodesAreSpans DEF ParentOf
<1>4. S \in SUBSET Tree!SpanIds /\ \A i \in Tree!SpanIds : i \in S <=> ParentOf(i) \notin Tree!SpanIds
  BY <1>3 DEF Tree!Roots
<1> HIDE DEF S
<1>5. PICK w \in Nat :
        /\ b \in [1 .. w -> S]
        /\ \A k, l \in 1 .. w : b[k] = b[l] => k = l
        /\ \A i \in S : \E k \in 1 .. w : b[k] = i
        /\ \A k, l \in 1 .. w : k < l => StartOf(b[k]) <= StartOf(b[l])
  BY <1>1, <1>4, ListedByStart
<1>6. roots' = b /\ stack' = Tree!At(0, b)
  BY <1>1 DEF S
<1> HIDE DEF b
<1>7. b \in [1 .. w -> Tree!SpanIds] /\ b \in [1 .. w -> Tree!Ids] /\ b \in Seq(Tree!Ids)
  BY <1>3, <1>4, <1>5
<1>8. /\ stack' \in Seq(Tree!Place) /\ DOMAIN stack' = 1 .. w
      /\ \A k \in 1 .. w : stack'[k].id = b[k] /\ stack'[k].depth = 0
  BY <1>6, <1>7, AtIs
<1>9. \A k \in 1 .. w : ParentOf(b[k]) \notin Tree!SpanIds
  BY <1>4, <1>5, <1>7
<1>10. \A i \in Tree!SpanIds : ParentOf(i) \notin Tree!SpanIds => \E k \in 1 .. w : b[k] = i
  BY <1>4, <1>5
<1>11. Walk(stack', 0)
  BY <1>5, <1>7, <1>8, <1>9, <1>10, RootsBegin
<1>12. ordered' \o stack' = stack'
  BY <1>2, <1>8
<1>13. Walk(ordered' \o stack', Len(ordered'))
  BY <1>2, <1>11, <1>12
<1>14. MapInv'
  <2>1. ordered' \in Seq(Tree!Place)
    BY <1>2
  <2> QED
    BY <1>1, <1>6, <1>7, <1>8, <2>1, WalkingKeepsMap
<1> QED
  BY <1>1, <1>13, <1>14, WalkStays DEF WalkInv

\* A step of the recursion draws the place on top and visits its children next.
LEMMA FlatteningWalks ==
  ASSUME WalkInv, Tree!Flatten
  PROVE  WalkInv'
<1> DEFINE node == Head(stack)
           S == Tree!Children(node.id)
           b == Tree!ByStart(S)
           c == ordered \o stack
           m == Len(ordered)
           n == Len(ordered) + Len(stack)
           e == ordered' \o stack'
<1>1. /\ stack # <<>> /\ ordered' = Append(ordered, node)
      /\ stack' = Tree!At(node.depth + 1, b) \o Tail(stack)
      /\ UNCHANGED <<answer, next, nodeMap, linked, roots>>
  BY DEF Tree!Flatten
<1>2. /\ MapInv /\ linked /\ next > Len(answer) /\ linked \in BOOLEAN
      /\ stack \in Seq(Tree!Place) /\ ordered \in Seq(Tree!Place) /\ roots \in Seq(Tree!Ids)
  <2>1. MapInv /\ linked /\ next = Len(answer) + 1
    BY <1>1 DEF WalkInv, MapInv
  <2>2. Len(answer) \in Nat
    BY <2>1 DEF MapInv, Tree!TypeOK
  <2> QED
    BY <2>1, <2>2 DEF MapInv, Tree!TypeOK
<1>3. Walk(c, m)
  BY <1>2 DEF WalkInv
<1>4. node \in Tree!Place /\ node = stack[1] /\ node.depth \in Nat /\ node.id \in Tree!Ids
  <2>1. node \in Tree!Place /\ node = stack[1]
    BY <1>1, <1>2
  <2> QED
    BY <2>1 DEF Tree!Place
<1>5. m \in Nat /\ Len(stack) \in Nat /\ Len(stack) >= 1 /\ n \in Nat /\ m < n
  BY <1>1, <1>2
<1>6. /\ DOMAIN c = 1 .. n /\ c[m + 1] = node
      /\ \A k \in 1 .. m : c[k] = ordered[k]
      /\ \A k \in 1 .. Len(stack) : c[m + k] = stack[k]
  BY <1>2, <1>4, <1>5
<1>7. /\ Tree!NodeIds = Tree!SpanIds /\ Tree!SpanIds \in SUBSET Tree!Ids
      /\ IsFiniteSet(Tree!SpanIds)
      /\ \A i \in Tree!SpanIds : Tree!Node(i).parent = ParentOf(i)
  BY <1>2, NodesAreSpans DEF ParentOf
<1>8. S \in SUBSET Tree!SpanIds /\ \A i \in Tree!SpanIds : i \in S <=> ParentOf(i) = node.id
  BY <1>7 DEF Tree!Children
<1> HIDE DEF S
<1>9. PICK w \in Nat :
        /\ b \in [1 .. w -> S]
        /\ \A k, l \in 1 .. w : b[k] = b[l] => k = l
        /\ \A i \in S : \E k \in 1 .. w : b[k] = i
        /\ \A k, l \in 1 .. w : k < l => StartOf(b[k]) <= StartOf(b[l])
  BY <1>2, <1>8, ListedByStart
<1> HIDE DEF b, node
<1>10. b \in [1 .. w -> Tree!SpanIds] /\ b \in [1 .. w -> Tree!Ids]
  BY <1>7, <1>8, <1>9
<1> DEFINE a == Tree!At(node.depth + 1, b)
<1>11. /\ a \in Seq(Tree!Place) /\ Len(a) = w
       /\ \A k \in 1 .. w : a[k].id = b[k] /\ a[k].depth = node.depth + 1
  BY <1>4, <1>10, AtIs
<1>12. stack' = a \o Tail(stack)
  BY <1>1
<1> HIDE DEF a, m, n
<1>13. /\ Tail(stack) \in Seq(Tree!Place) /\ Len(Tail(stack)) = Len(stack) - 1
       /\ \A k \in 1 .. (Len(stack) - 1) : Tail(stack)[k] = stack[k + 1]
  BY <1>1, <1>2
<1>14. /\ stack' \in Seq(Tree!Place) /\ Len(stack') = w + (Len(stack) - 1)
       /\ \A k \in 1 .. w : stack'[k] = a[k]
       /\ \A k \in 1 .. (Len(stack) - 1) : stack'[w + k] = stack[k + 1]
  <2> DEFINE t == Tail(stack)
  <2>1. /\ a \o t \in Seq(Tree!Place) /\ Len(a \o t) = Len(a) + Len(t)
        /\ \A k \in 1 .. Len(a) : (a \o t)[k] = a[k]
        /\ \A k \in 1 .. Len(t) : (a \o t)[Len(a) + k] = t[k]
    <3>1. a \in Seq(Tree!Place) /\ t \in Seq(Tree!Place)
      BY <1>11, <1>13
    <3> HIDE DEF t
    <3>2. a \o t \in Seq(Tree!Place) /\ Len(a \o t) = Len(a) + Len(t)
      BY <3>1
    <3>3. \A k \in 1 .. Len(a) : (a \o t)[k] = a[k]
      BY <3>1
    <3>4. \A k \in 1 .. Len(t) : (a \o t)[Len(a) + k] = t[k]
      BY <3>1
    <3> QED
      BY <3>2, <3>3, <3>4
  <2> QED
    BY <1>11, <1>12, <1>13, <2>1
<1>15. /\ ordered' \in Seq(Tree!Place) /\ Len(ordered') = m + 1
       /\ ordered'[m + 1] = node /\ \A k \in 1 .. m : ordered'[k] = ordered[k]
  BY <1>1, <1>2, <1>4, <1>5 DEF m
<1>16. /\ DOMAIN e = 1 .. (n + w)
       /\ \A k \in 1 .. (m + 1) : e[k] = ordered'[k]
       /\ \A k \in 1 .. (w + (Len(stack) - 1)) : e[m + 1 + k] = stack'[k]
  <2>1. Len(ordered') + Len(stack') = n + w
    BY <1>5, <1>14, <1>15 DEF n, m
  <2>2. /\ DOMAIN e = 1 .. (Len(ordered') + Len(stack'))
        /\ \A k \in 1 .. Len(ordered') : e[k] = ordered'[k]
        /\ \A k \in 1 .. Len(stack') : e[Len(ordered') + k] = stack'[k]
    <3> DEFINE o == ordered'
               t == stack'
    <3>1. o \in Seq(Tree!Place) /\ t \in Seq(Tree!Place) /\ e = o \o t
      BY <1>14, <1>15
    <3> HIDE DEF o, t
    <3>2. DOMAIN (o \o t) = 1 .. (Len(o) + Len(t))
      BY <3>1
    <3>3. \A k \in 1 .. Len(o) : (o \o t)[k] = o[k]
      BY <3>1
    <3>4. \A k \in 1 .. Len(t) : (o \o t)[Len(o) + k] = t[k]
      BY <3>1
    <3> HIDE DEF e
    <3> QED
      BY <3>1, <3>2, <3>3, <3>4 DEF o, t
  <2> QED
    BY <1>14, <1>15, <2>1, <2>2
<1> HIDE DEF e, c
<1>17. \A k \in 1 .. (m + 1) : e[k] = c[k]
  <2> TAKE k \in 1 .. (m + 1)
  <2>1. CASE k = m + 1
    BY <1>6, <1>15, <1>16, <2>1
  <2>2. CASE k # m + 1
    <3>1. k \in 1 .. m
      BY <1>5, <2>2
    <3> QED
      BY <1>6, <1>15, <1>16, <3>1
  <2> QED
    BY <2>1, <2>2
<1>18. \A k \in 1 .. w : e[m + 1 + k].id = b[k] /\ e[m + 1 + k].depth = c[m + 1].depth + 1
  <2> TAKE k \in 1 .. w
  <2>1. k \in 1 .. (w + (Len(stack) - 1))
    BY <1>5
  <2>2. e[m + 1 + k] = a[k]
    BY <1>14, <1>16, <2>1
  <2> QED
    BY <1>6, <1>11, <2>2
<1>19. \A k \in (m + 2) .. n : e[k + w] = c[k]
  <2> TAKE k \in (m + 2) .. n
  <2> DEFINE j == k - (m + 1)
  <2>1. /\ j \in 1 .. (Len(stack) - 1) /\ w + j \in 1 .. (w + (Len(stack) - 1))
        /\ m + 1 + (w + j) = k + w /\ m + (j + 1) = k /\ j + 1 \in 1 .. Len(stack)
    BY <1>5 DEF n, m
  <2> HIDE DEF j
  <2>2. e[k + w] = stack'[w + j]
    BY <1>16, <2>1
  <2>3. stack'[w + j] = stack[j + 1]
    BY <1>14, <2>1
  <2>4. c[k] = stack[j + 1]
    BY <1>6, <2>1
  <2> QED
    BY <2>2, <2>3, <2>4
<1>20. \A k \in 1 .. w : ParentOf(b[k]) = c[m + 1].id
  BY <1>6, <1>8, <1>9, <1>10
<1>21. \A i \in Tree!SpanIds : ParentOf(i) = c[m + 1].id => \E k \in 1 .. w : b[k] = i
  BY <1>6, <1>8, <1>9
<1>22. Walk(e, m + 1)
  <2>1. Visit(c, e, n, m, w, b)
    BY <1>5, <1>6, <1>9, <1>10, <1>16, <1>17, <1>18, <1>19, <1>20, <1>21, Zenon DEF Visit
  <2> QED
    BY <1>3, <1>7, <2>1, VisitingKeepsWalk
<1>23. MapInv'
  BY <1>1, <1>2, <1>14, <1>15, WalkingKeepsMap
<1> QED
  BY <1>1, <1>2, <1>15, <1>22, <1>23, WalkStays DEF WalkInv, e

\* Nothing is known of the tree at first.
LEMMA TreeBegins ==
  ASSUME MCInit
  PROVE  WalkInv
<1> USE TreeAssumption DEF Tree!SpanTreeAssumption
<1>1. /\ next = 1 /\ nodeMap = <<>> /\ linked = FALSE
      /\ roots = <<>> /\ stack = <<>> /\ ordered = <<>>
  BY DEF MCInit, Tree!Init
<1>2. answer \in Seq(Tree!Spans) /\ Len(answer) \in Nat /\ Len(answer) <= MaxSpans
  <2>1. CASE moving = "tree"
    <3>1. PICK n \in 0 .. MaxSpans : answer \in [1 .. n -> Tree!Spans]
      BY <2>1 DEF MCInit, Tree!Init
    <3>2. n \in Nat /\ n <= MaxSpans
      OBVIOUS
    <3>3. answer \in Seq(Tree!Spans) /\ Len(answer) = n
      BY <3>1, <3>2
    <3> QED
      BY <3>2, <3>3
  <2>2. CASE moving # "tree"
    <3>1. answer = <<>>
      BY <2>2 DEF MCInit
    <3> QED
      BY <3>1
  <2> QED
    BY <2>1, <2>2
<1>3. Tree!TypeOK
  <2>1. next \in 1 .. (MaxSpans + 1)
    BY <1>1
  <2>2. /\ nodeMap \in Seq(Tree!Spans) /\ roots \in Seq(Tree!Ids)
        /\ stack \in Seq(Tree!Place) /\ ordered \in Seq(Tree!Place)
    BY <1>1
  <2> QED
    BY <1>1, <1>2, <2>1, <2>2 DEF Tree!TypeOK
<1>4. DOMAIN nodeMap = {}
  BY <1>1
<1>5. Tree!NodeIds = {}
  BY <1>4 DEF Tree!NodeIds
<1>6. 1 .. (next - 1) = {}
  BY <1>1
<1>7. {answer[k].id : k \in 1 .. (next - 1)} = {}
  BY <1>6
<1> QED
  BY <1>1, <1>2, <1>3, <1>4, <1>5, <1>7 DEF WalkInv, MapInv

\* No step of the console disturbs the walk.
LEMMA TreeIsKept ==
  ASSUME WalkInv, [MCNext]_<<moving, vars, navVars, traceVars, treeVars, themeVars>>
  PROVE  WalkInv'
<1>1. CASE UNCHANGED treeVars
  <2>1. UNCHANGED <<answer, next, nodeMap, linked, roots, stack, ordered>>
    BY <1>1 DEF treeVars
  <2>2. MapInv'
    <3>1. Tree!TypeOK'
      BY <2>1 DEF WalkInv, MapInv, Tree!TypeOK
    <3>2. Tree!NodeIds' = Tree!NodeIds
      BY <2>1 DEF Tree!NodeIds
    <3>3. answer' = answer /\ next' = next /\ nodeMap' = nodeMap
          /\ linked' = linked /\ stack' = stack /\ ordered' = ordered
      BY <2>1
    <3> QED
      BY <3>1, <3>2, <3>3 DEF WalkInv, MapInv
  <2>3. linked' => Walk(ordered' \o stack', Len(ordered'))
    BY <2>1 DEF WalkInv
  <2> QED
    BY <2>1, <2>2, <2>3, WalkStays DEF WalkInv
<1>2. CASE Tree!SetNode
  <2>1. ~linked /\ linked' = linked
    BY <1>2 DEF WalkInv, MapInv, Tree!SetNode, Tree!TypeOK
  <2> QED
    BY <1>2, <2>1, SettingKeepsMap DEF WalkInv
<1>3. CASE Tree!Link
  BY <1>3, LinkingBegins DEF WalkInv
<1>4. CASE Tree!Flatten
  BY <1>4, FlatteningWalks
<1> QED
  BY <1>1, <1>2, <1>3, <1>4
     DEF MCNext, Tree!Next, Tree!vars, treeVars

\* The walk has drawn every span whose parents end at a root.
LEMMA WalkedAreRooted ==
  ASSUME WalkInv, Tree!Laid
  PROVE  {ordered[k].id : k \in DOMAIN ordered} = Tree!Rooted
<1> DEFINE D == {ordered[k].id : k \in DOMAIN ordered}
<1>1. linked /\ stack = <<>> /\ MapInv /\ ordered \in Seq(Tree!Place)
  BY DEF Tree!Laid, WalkInv, MapInv, Tree!TypeOK
<1>2. ordered \o stack = ordered /\ DOMAIN ordered = 1 .. Len(ordered)
  BY <1>1
<1>3. Walk(ordered, Len(ordered))
  BY <1>1, <1>2 DEF WalkInv
<1>4. IsFiniteSet(Tree!SpanIds)
  <2>1. next > Len(answer)
    BY <1>1 DEF MapInv, Tree!TypeOK
  <2> QED
    BY <1>1, <2>1, NodesAreSpans
<1>5. \A i \in D : i \in Tree!SpanIds /\ i \notin Tree!Ancestors(i) /\ Tree!Ancestors(i) \subseteq D
  <2> TAKE i \in D
  <2>1. PICK k \in DOMAIN ordered : ordered[k].id = i
    OBVIOUS
  <2>2. /\ i \in Tree!SpanIds
        /\ \A j \in Tree!Ancestors(i) : \E l \in DOMAIN ordered : l < k /\ ordered[l].id = j
    BY <1>3, <2>1 DEF Walk, Indented
  <2>3. i \notin Tree!Ancestors(i)
    <3> SUFFICES ASSUME i \in Tree!Ancestors(i) PROVE FALSE
      OBVIOUS
    <3>1. PICK l \in DOMAIN ordered : l < k /\ ordered[l].id = i
      BY <2>2
    <3>2. l = k
      BY <1>3, <2>1, <3>1 DEF Walk, OnceEach
    <3>3. k \in Nat
      BY <1>2
    <3> QED
      BY <3>1, <3>2, <3>3
  <2> QED
    BY <2>2, <2>3
<1>6. \A i \in Tree!SpanIds : ParentOf(i) \notin Tree!SpanIds \/ ParentOf(i) \in D => i \in D
  BY <1>2, <1>3 DEF Walk, Reached
<1>7. ASSUME NEW i \in D PROVE i \in Tree!Rooted
  BY <1>5 DEF Tree!Rooted
<1>8. ASSUME NEW i \in Tree!Rooted, i \notin D PROVE FALSE
  <2> DEFINE A == Tree!Ancestors(i)
             T == (A \cup {i}) \ D
  <2>1. i \in Tree!SpanIds /\ \A j \in A \cup {i} : j \notin Tree!Ancestors(j)
    BY DEF Tree!Rooted
  <2>2. A \in SUBSET Tree!SpanIds /\ Tree!Up({i}) \subseteq A /\ Tree!Up(A) \subseteq A
    BY AncestorsAreLeast
  <2>3. T \in SUBSET Tree!SpanIds /\ IsFiniteSet(T) /\ i \in T
    <3>1. T \in SUBSET Tree!SpanIds /\ i \in T
      BY <1>8, <2>1, <2>2
    <3> QED
      BY <1>4, <3>1, FS_Subset
  <2> HIDE DEF A
  <2>4. ASSUME NEW j \in T PROVE ParentOf(j) \in T
    <3>1. j \in Tree!SpanIds /\ j \notin D
      BY <2>3
    <3>2. ParentOf(j) \in Tree!SpanIds /\ ParentOf(j) \notin D
      BY <1>6, <3>1
    <3>3. Tree!Up({j}) = {ParentOf(j)}
      BY <3>2, UpIs
    <3>4. Tree!Up({j}) \subseteq A
      <4>1. CASE j = i
        BY <2>2, <4>1
      <4>2. CASE j \in A
        <5>1. {j} \subseteq A
          BY <4>2
        <5>2. Tree!Up({j}) \subseteq Tree!Up(A)
          BY <5>1, UpIs
        <5> QED
          BY <2>2, <5>2
      <4> QED
        BY <4>1, <4>2
    <3> QED
      BY <3>2, <3>3, <3>4
  <2>5. \A j \in T : j \in A \cup {i}
    OBVIOUS
  <2> HIDE DEF T
  <2>6. PICK j \in T : j \in Tree!Ancestors(j)
    BY <2>3, <2>4, ClosedHasCycle
  <2> QED
    BY <2>1, <2>5, <2>6
<1> QED
  BY <1>7, <1>8

\* What a walk that is over says of the rows.
LEMMA WalkIsWhole ==
  ASSUME WalkInv
  PROVE  TreeIsWhole
<1>1. Tree!TypeOK /\ MapInv
  BY DEF WalkInv, MapInv
<1>2. ordered \in Seq(Tree!Place) /\ stack \in Seq(Tree!Place) /\ linked \in BOOLEAN
  BY <1>1 DEF Tree!TypeOK
<1>3. \A k, l \in DOMAIN ordered : ordered[k].id = ordered[l].id => k = l
  <2>1. CASE ~linked
    <3>1. ordered = <<>>
      BY <1>1, <2>1 DEF MapInv
    <3> QED
      BY <3>1
  <2>2. CASE linked
    <3> DEFINE c == ordered \o stack
    <3>1. OnceEach(c)
      BY <2>2 DEF WalkInv, Walk
    <3>2. \A k \in DOMAIN ordered : k \in DOMAIN c /\ c[k] = ordered[k]
      BY <1>2
    <3> HIDE DEF c
    <3> QED
      BY <3>1, <3>2 DEF OnceEach
  <2> QED
    BY <2>1, <2>2
<1>4. Tree!ShownOnce
  BY <1>3, WalkedAreRooted DEF Tree!ShownOnce
<1>5. ASSUME Tree!Laid
      PROVE  /\ Walk(ordered, Len(ordered))
             /\ DOMAIN ordered = 1 .. Len(ordered) /\ Len(ordered) \in Nat
  <2>1. linked /\ stack = <<>>
    BY <1>5 DEF Tree!Laid
  <2>2. ordered \o stack = ordered
    BY <1>2, <2>1
  <2> QED
    BY <1>2, <2>1, <2>2 DEF WalkInv
<1>6. Tree!IndentedUnderParent
  <2> SUFFICES ASSUME Tree!Laid, NEW k \in DOMAIN ordered
               PROVE  LET i == ordered[k].id
                          p == Tree!SpanWith(i).parent
                      IN  /\ ordered[k].depth = Tree!Cardinality(Tree!Ancestors(i))
                          /\ p \in Tree!SpanIds =>
                               /\ Tree!Row(p) < k
                               /\ \A l \in Tree!Row(p) .. k :
                                    l # Tree!Row(p) => p \in Tree!Ancestors(ordered[l].id)
    BY DEF Tree!IndentedUnderParent
  <2> DEFINE i == ordered[k].id
  <2>1. ordered[k].depth = Cardinality(Tree!Ancestors(i))
    BY <1>5 DEF Walk, Indented
  <2>2. ASSUME ParentOf(i) \in Tree!SpanIds
        PROVE  /\ Tree!Row(ParentOf(i)) < k
               /\ \A l \in Tree!Row(ParentOf(i)) .. k :
                    l # Tree!Row(ParentOf(i)) => ParentOf(i) \in Tree!Ancestors(ordered[l].id)
    <3> DEFINE p == ParentOf(i)
    <3>1. PICK r \in 1 .. Len(ordered) :
            /\ r < k /\ ordered[r].id = p
            /\ \A l \in DOMAIN ordered : r < l /\ l <= k => p \in Tree!Ancestors(ordered[l].id)
      BY <1>5, <2>2 DEF Walk, UnderParent
    <3> HIDE DEF p
    <3>2. r \in DOMAIN ordered /\ \A l \in DOMAIN ordered : ordered[l].id = p <=> l = r
      BY <1>3, <1>5, <3>1
    <3>3. Tree!Row(p) = r
      BY <3>2 DEF Tree!Row
    <3>4. ASSUME NEW l \in r .. k, l # r PROVE p \in Tree!Ancestors(ordered[l].id)
      <4>1. l \in DOMAIN ordered /\ r < l /\ l <= k
        BY <1>5, <3>4
      <4> QED
        BY <3>1, <4>1
    <3> QED
      BY <3>1, <3>3, <3>4 DEF p
  <2> QED
    BY <2>1, <2>2, TreeNames DEF ParentOf
<1>7. Tree!SiblingsByStart
  BY <1>5 DEF Walk, InOrder, StartOf, Tree!SiblingsByStart
<1> QED
  BY <1>1, <1>4, <1>6, <1>7 DEF TreeIsWhole

(***************************************************************************)
(* The tree of a trace is whole, whatever the spans: every span that is    *)
(* not in or below a cycle of parents gets one row, orphans among the      *)
(* roots, indented once per ancestor, below its parent with only the       *)
(* parent's own descendants between, and by start among its siblings       *)
(* (Traces.tsx:45-68).                                                     *)
(***************************************************************************)
THEOREM TreeIsAlwaysWhole == MCSpec => []TreeIsWhole
<1>1. MCInit => WalkInv
  BY TreeBegins
<1>2. WalkInv /\ [MCNext]_<<moving, vars, navVars, traceVars, treeVars, themeVars>> => WalkInv'
  BY TreeIsKept
<1>3. WalkInv => TreeIsWhole
  BY WalkIsWhole
<1> QED
  BY <1>1, <1>2, <1>3, PTL DEF MCSpec

=============================================================================
