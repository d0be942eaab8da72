--------------------------- MODULE KeyAuthProofs ---------------------------
(***************************************************************************)
(* Theorems about KeyAuth, for any keys, requests, scopes, time to live    *)
(* and scheduling bound, and about the parts MCProxyKeys puts beside it:   *)
(* the two caches of the command line and the registry of agents.          *)
(***************************************************************************)
EXTENDS MCProxyKeys, FiniteSetTheorems, TLAPS

\* The bound of the ages is a number beyond every age that matters.
LEMMA HorizonNat == Horizon \in Nat /\ Horizon = AuthTTL + MaxFill + 1
BY KeyAuthAssumption DEF Horizon

\* The cache, the rows and the requests start with their types.
LEMMA TypeInit == Init => TypeOK
BY KeyAuthAssumption, HorizonNat DEF Init, TypeOK, Header, NoContext

\* What a cached key writes into the request's headers has their type.
LEMMA ContextTyping ==
  ASSUME NEW k \in Key, NEW h \in Header
  PROVE  ContextFor(h, k) \in Header
BY KeyAuthAssumption DEF ContextFor, Header

\* Every step of requests, revocations and time keeps the types.
LEMMA TypeNext == TypeOK /\ [Next]_vars => TypeOK'
<1> SUFFICES ASSUME TypeOK, [Next]_vars
             PROVE  TypeOK'
  OBVIOUS
<1> USE DEF TypeOK, keyVars
<1>0. /\ AuthTTL \in Nat \ {0}
      /\ MaxFill \in Nat
      /\ NoContext \in Header
  BY KeyAuthAssumption DEF NoContext, Header
<1>1. ASSUME NEW r \in Request, NEW k \in Key, NEW h \in Header, Present(r, k, h)
      PROVE  TypeOK'
  BY <1>1, <1>0 DEF Present
<1>2. ASSUME NEW r \in Request, CacheHit(r) \/ CacheMiss(r)
      PROVE  TypeOK'
  BY <1>2 DEF CacheHit, CacheMiss
<1>3. ASSUME NEW r \in Request, RowFound(r) \/ RowNotFound(r)
      PROVE  TypeOK'
  BY <1>3, <1>0 DEF RowFound, RowNotFound
<1>4. ASSUME NEW r \in Request, Fill(r)
      PROVE  TypeOK'
  BY <1>4, <1>0 DEF Fill
<1>5. ASSUME NEW r \in Request, Forward(r) \/ Forbid(r)
      PROVE  TypeOK'
  BY <1>5, ContextTyping DEF Forward, Forbid
<1>6. ASSUME NEW k \in Key, CreateKey(k) \/ RevokeKey(k) \/ LoseEntry(k)
      PROVE  TypeOK'
  BY <1>6, <1>0 DEF CreateKey, RevokeKey, LoseEntry
<1>7. ASSUME NEW t \in Tenant, DeleteTenantKeys(t)
      PROVE  TypeOK'
  BY <1>7 DEF DeleteTenantKeys
<1>8. ASSUME Tick
      PROVE  TypeOK'
  <2>1. ttl' \in [Key -> 0 .. AuthTTL]
    BY <1>8, <1>0 DEF Tick
  <2>2. readAge' \in [Request -> 0 .. MaxFill]
    BY <1>8, <1>0 DEF Tick
  <2>3. revokedFor' \in [Key -> 0 .. Horizon]
    BY <1>8, HorizonNat DEF Tick
  <2> QED
    BY <1>8, <2>1, <2>2, <2>3 DEF Tick
<1>9. CASE UNCHANGED vars
  BY <1>9 DEF vars
<1> QED
  BY <1>1, <1>2, <1>3, <1>4, <1>5, <1>6, <1>7, <1>8, <1>9 DEF Next

(* Every reachable state of the authentication has the type TypeOK states. *)
THEOREM KeyAuthTypeCorrect == Spec => []TypeOK
BY TypeInit, TypeNext, PTL DEF Spec

-----------------------------------------------------------------------------
(***************************************************************************)
(* Why a revoked key is refused in the end.  A row that a request read as  *)
(* active was revoked since at most readAge ticks; so an entry it writes   *)
(* has at most AuthTTL ticks to live when the key has been revoked for at  *)
(* most MaxFill; and the two move against each other with every tick.      *)
(***************************************************************************)
RevocationStarts ==
  \A k \in Key : row[k] # "revoked" => revokedFor[k] = 0

FillIsRecent ==
  \A r \in Request :
    pc[r] = "fill" /\ row[key[r]] = "revoked" =>
      revokedFor[key[r]] <= readAge[r]

EntryIsRecent ==
  \A k \in Key :
    ttl[k] > 0 /\ row[k] = "revoked" =>
      ttl[k] + revokedFor[k] <= AuthTTL + MaxFill

ExpiredIsOld ==
  \A r \in Request :
    asked[r] = "expired" =>
      row[key[r]] = "revoked" /\ revokedFor[key[r]] = Horizon

RevocationInv ==
  /\ RevocationStarts
  /\ FillIsRecent
  /\ EntryIsRecent
  /\ ExpiredIsOld
  /\ RefusedAfterTTL

\* Nothing is revoked at first, so the revocation invariant holds.
LEMMA RevocationInit == Init => RevocationInv
BY KeyAuthAssumption
  DEF Init, RevocationInv, RevocationStarts, FillIsRecent, EntryIsRecent,
      ExpiredIsOld, RefusedAfterTTL

\* Every step keeps the ages that bound a revoked key's last use.
LEMMA RevocationNext ==
  TypeOK /\ RevocationInv /\ [Next]_vars => RevocationInv'
<1> SUFFICES ASSUME TypeOK, RevocationInv, [Next]_vars
             PROVE  RevocationInv'
  OBVIOUS
<1> USE DEF TypeOK, RevocationInv, RevocationStarts, FillIsRecent,
            EntryIsRecent, ExpiredIsOld, RefusedAfterTTL, keyVars
<1>0. /\ AuthTTL \in Nat \ {0}
      /\ MaxFill \in Nat
      /\ Horizon \in Nat
      /\ Horizon = AuthTTL + MaxFill + 1
  BY KeyAuthAssumption, HorizonNat
<1>1. ASSUME NEW r \in Request, NEW k \in Key, NEW h \in Header, Present(r, k, h)
      PROVE  RevocationInv'
  BY <1>1, <1>0 DEF Present
<1>2. ASSUME NEW r \in Request, CacheHit(r)
      PROVE  RevocationInv'
  <2>1. asked[r] # "expired"
    BY <1>2, <1>0 DEF CacheHit
  <2> QED
    BY <1>2, <2>1 DEF CacheHit
<1>3. ASSUME NEW r \in Request, CacheMiss(r) \/ RowNotFound(r)
      PROVE  RevocationInv'
  BY <1>3 DEF CacheMiss, RowNotFound
<1>4. ASSUME NEW r \in Request, RowFound(r)
      PROVE  RevocationInv'
  BY <1>4 DEF RowFound
<1>5. ASSUME NEW r \in Request, Fill(r)
      PROVE  RevocationInv'
  <2>1. row[key[r]] = "revoked" =>
          AuthTTL + revokedFor[key[r]] <= AuthTTL + MaxFill
    BY <1>5, <1>0 DEF Fill
  <2>2. EntryIsRecent'
    BY <1>5, <2>1, <1>0 DEF Fill
  <2>3. (RevocationStarts /\ FillIsRecent /\ ExpiredIsOld)'
    BY <1>5 DEF Fill
  <2>4. RefusedAfterTTL'
    BY <1>5 DEF Fill
  <2> QED
    BY <2>2, <2>3, <2>4
<1>6. ASSUME NEW r \in Request, Forward(r) \/ Forbid(r)
      PROVE  RevocationInv'
  BY <1>6 DEF Forward, Forbid
<1>7. ASSUME NEW k \in Key, CreateKey(k) \/ LoseEntry(k)
      PROVE  RevocationInv'
  BY <1>7 DEF CreateKey, LoseEntry
<1>8. ASSUME NEW k \in Key, RevokeKey(k)
      PROVE  RevocationInv'
  BY <1>8, <1>0 DEF RevokeKey
<1>9. ASSUME NEW t \in Tenant, DeleteTenantKeys(t)
      PROVE  RevocationInv'
  BY <1>9, <1>0 DEF DeleteTenantKeys
<1>10. ASSUME Tick
       PROVE  RevocationInv'
  <2>1. RevocationStarts'
    BY <1>10 DEF Tick
  <2>2. FillIsRecent'
    BY <1>10, <1>0 DEF Tick
  <2>3. EntryIsRecent'
    BY <1>10, <1>0 DEF Tick
  <2>4. ExpiredIsOld' /\ RefusedAfterTTL'
    BY <1>10, <1>0 DEF Tick
  <2> QED
    BY <2>1, <2>2, <2>3, <2>4
<1>11. CASE UNCHANGED vars
  BY <1>11 DEF vars
<1> QED
  BY <1>1, <1>2, <1>3, <1>4, <1>5, <1>6, <1>7, <1>8, <1>9, <1>10, <1>11
    DEF Next

(* A key is refused from AuthTTL + MaxFill ticks after its revocation on.  *)
THEOREM RevocationTakesEffect == Spec => []RefusedAfterTTL
<1>1. RevocationInv => RefusedAfterTTL
  BY DEF RevocationInv
<1> QED
  BY <1>1, KeyAuthTypeCorrect, RevocationInit, RevocationNext, PTL DEF Spec

-----------------------------------------------------------------------------
\* Every step leaves a request with the context of its own key.
LEMMA ActsNext == TypeOK /\ ActsForItsKey /\ [Next]_vars => ActsForItsKey'
<1> SUFFICES ASSUME TypeOK, ActsForItsKey, [Next]_vars
             PROVE  ActsForItsKey'
  OBVIOUS
<1> USE DEF TypeOK, ActsForItsKey, keyVars
<1>1. ASSUME NEW r \in Request, NEW k \in Key, NEW h \in Header, Present(r, k, h)
      PROVE  ActsForItsKey'
  BY <1>1 DEF Present
<1>2. ASSUME NEW r \in Request, Forward(r)
      PROVE  ActsForItsKey'
  BY <1>2 DEF Forward, ContextFor
<1>3. ASSUME NEW r \in Request, RowNotFound(r) \/ Forbid(r)
      PROVE  ActsForItsKey'
  BY <1>3 DEF RowNotFound, Forbid
<1>4. ASSUME NEW r \in Request, CacheHit(r) \/ CacheMiss(r) \/ RowFound(r) \/ Fill(r)
      PROVE  ActsForItsKey'
  BY <1>4 DEF CacheHit, CacheMiss, RowFound, Fill
<1>5. ASSUME \/ \E k \in Key : CreateKey(k) \/ RevokeKey(k) \/ LoseEntry(k)
             \/ \E t \in Tenant : DeleteTenantKeys(t)
             \/ Tick
             \/ UNCHANGED vars
      PROVE  ActsForItsKey'
  BY <1>5 DEF CreateKey, RevokeKey, LoseEntry, DeleteTenantKeys, Tick, vars
<1> QED
  BY <1>1, <1>2, <1>3, <1>4, <1>5 DEF Next

(* Requests act for the tenant, and for the agent, of their key.           *)
THEOREM KeysAreNotImpersonated == Spec => []ActsForItsKey
<1>1. Init => ActsForItsKey
  BY DEF Init, ActsForItsKey
<1> QED
  BY <1>1, ActsNext, KeyAuthTypeCorrect, PTL DEF Spec

-----------------------------------------------------------------------------
(***************************************************************************)
(* The CLI's keys.  A key is of the tenant under which it is cached, and   *)
(* of the tenant its command resolved, from the moment a gateway mints it; *)
(* that gateway is the minting command's, and one a session was of; and a  *)
(* key that is minted keeps both.                                          *)
(***************************************************************************)
MintedFor(k, t, g) ==
  owner[k] # None /\ owner[k].tenant = t /\ owner[k].gateway = g

MintedAt(k, t, G) ==
  owner[k] # None /\ owner[k].tenant = t /\ owner[k].gateway \in G

SessionIsVisited == loggedIn # None => loggedIn \in visited

CachedIsOwn ==
  \A t \in Tenants : cached[t] # None => MintedAt(cached[t], t, visited)

MintedIsOwn ==
  \A p \in Procs : step[p] # "idle" =>
    /\ tenant[p] \in Tenants /\ gateway[p] \in visited /\ out[p] = None
    /\ step[p] = "save" => MintedFor(minted[p], tenant[p], gateway[p])

ExportedIsOwn ==
  \A p \in Procs : out[p] # None =>
    /\ tenant[p] \in Tenants
    /\ MintedAt(out[p], tenant[p], visited)
    /\ out[p] = minted[p] => MintedFor(out[p], tenant[p], gateway[p])

CliInv ==
  Cli!TypeOK /\ SessionIsVisited /\ CachedIsOwn /\ MintedIsOwn /\ ExportedIsOwn

\* The commands start idle, with an empty keyring.
LEMMA CliInit == Cli!Init => CliInv
BY DEF Cli!Init, Cli!TypeOK, CliInv, SessionIsVisited, CachedIsOwn, MintedIsOwn,
       ExportedIsOwn, MintedFor, MintedAt

\* Every step of the commands, the keyring and the gateway keeps the types.
LEMMA CliTyping == CliInv /\ [Cli!Next]_Cli!vars => Cli!TypeOK'
<1> SUFFICES ASSUME CliInv, [Cli!Next]_Cli!vars
             PROVE  Cli!TypeOK'
  OBVIOUS
<1>0. Cli!TypeOK /\ MintedIsOwn
  BY DEF CliInv
<1> USE DEF Cli!TypeOK, Cli!config, Cli!proc, Cli!Export
<1>1. ASSUME \/ \E g \in Gateways : Cli!Login(g)
             \/ \E g \in Gateways, t \in Tenants \cup {default} : Cli!ConfigSet(g, t)
      PROVE  Cli!TypeOK'
  BY <1>0, <1>1 DEF Cli!Login, Cli!ConfigSet
<1>2. ASSUME NEW t \in Tenants \cup {default}, Cli!Logout(t)
      PROVE  Cli!TypeOK'
  BY <1>0, <1>2 DEF Cli!Logout
<1>3. ASSUME NEW p \in Procs, NEW t \in Tenants, NEW b \in BOOLEAN, Cli!Env(p, t, b)
      PROVE  Cli!TypeOK'
  BY <1>0, <1>3 DEF Cli!Env, Cli!proxyKeyItem
<1>4. ASSUME NEW p \in Procs, Cli!Mint(p)
      PROVE  Cli!TypeOK'
  <2>1. tenant[p] \in Tenants /\ gateway[p] \in Gateways
    BY <1>0, <1>4 DEF Cli!Mint, MintedIsOwn
  <2>2. [gateway |-> gateway[p], tenant |-> tenant[p]] \in Cli!Mintings
    BY <2>1 DEF Cli!Mintings
  <2> QED
    BY <1>0, <1>4, <2>2 DEF Cli!Mint
<1>5. ASSUME NEW p \in Procs, Cli!Save(p)
      PROVE  Cli!TypeOK'
  BY <1>0, <1>5 DEF Cli!Save, Cli!proxyKeyItem, Cli!SaveTenant
<1>6. ASSUME NEW k \in Cli!Keys, Cli!Revoke(k)
      PROVE  Cli!TypeOK'
  BY <1>0, <1>6 DEF Cli!Revoke
<1>7. CASE UNCHANGED Cli!vars
  BY <1>0, <1>7 DEF Cli!vars
<1> QED
  BY <1>1, <1>2, <1>3, <1>4, <1>5, <1>6, <1>7 DEF Cli!Next

\* The part of the invariant that is not typing.
KeysAreOwn == SessionIsVisited /\ CachedIsOwn /\ MintedIsOwn /\ ExportedIsOwn

\* Minting writes a key that is new, so the keys minted before keep what they were
\* minted for.
LEMMA CliMint ==
  ASSUME CliInv, NEW p \in Procs, Cli!Mint(p)
  PROVE  KeysAreOwn'
<1>0. /\ None \notin Tenants /\ None \notin Cli!Mintings
      /\ \A k \in Cli!Keys : k >= k
  BY CliAssumption DEF Cli!Keys, Cli!CliKeysAssumption
<1> USE DEF CliInv, Cli!TypeOK, Cli!config, KeysAreOwn, SessionIsVisited, CachedIsOwn,
            MintedIsOwn, ExportedIsOwn, MintedFor, MintedAt
<1>1. CASE UNCHANGED <<owner, minted>> /\ step' = [step EXCEPT ![p] = "idle"]
  BY <1>1 DEF Cli!Mint
<1>2. ASSUME NEW k \in Cli!Keys, owner[k] = None,
             owner' = [owner EXCEPT ![k] = [gateway |-> gateway[p], tenant |-> tenant[p]]],
             \/ minted' = [minted EXCEPT ![p] = k] /\ step' = [step EXCEPT ![p] = "save"]
             \/ UNCHANGED minted /\ step' = [step EXCEPT ![p] = "idle"]
      PROVE  KeysAreOwn'
  <2>0. /\ UNCHANGED <<loggedIn, visited, cached, tenant, gateway, out>>
        /\ step[p] = "mint"
    BY DEF Cli!Mint
  <2>1. \A j \in Cli!Keys : owner[j] # None => owner'[j] = owner[j]
    BY <1>2
  <2>2. SessionIsVisited' /\ CachedIsOwn'
    BY <2>0, <2>1
  <2>3. \A q \in Procs : out[q] # None => q # p /\ minted'[q] = minted[q]
    BY <2>0, <1>2
  <2>4. ExportedIsOwn'
    BY <2>0, <2>1, <2>3
  <2>5. /\ tenant[p] \in Tenants /\ gateway[p] \in Gateways /\ gateway[p] \in visited
        /\ out[p] = None
    BY <2>0
  <2>6. [gateway |-> gateway[p], tenant |-> tenant[p]] \in Cli!Mintings
    BY <2>5 DEF Cli!Mintings
  <2>7. owner'[k] = [gateway |-> gateway[p], tenant |-> tenant[p]]
    BY <1>2
  <2>8. step'[p] = "save" => minted'[p] = k
    BY <1>2
  <2>9. /\ owner'[k] # None /\ owner'[k].tenant = tenant[p]
        /\ owner'[k].gateway = gateway[p]
    BY <1>0, <2>6, <2>7
  <2>10. ASSUME NEW q \in Procs, q # p
         PROVE  step'[q] = step[q] /\ minted'[q] = minted[q]
    BY <1>2, <2>10
  <2>11. MintedIsOwn'
    <3>1. ASSUME NEW q \in Procs, step'[q] # "idle"
          PROVE  /\ tenant[q] \in Tenants /\ gateway[q] \in visited /\ out[q] = None
                 /\ step'[q] = "save" =>
                      /\ owner'[minted'[q]] # None
                      /\ owner'[minted'[q]].tenant = tenant[q]
                      /\ owner'[minted'[q]].gateway = gateway[q]
      <4>1. CASE q = p
        BY <2>5, <2>8, <2>9, <4>1
      <4>2. CASE q # p
        <5>1. step[q] # "idle" /\ minted'[q] = minted[q]
          BY <2>10, <3>1, <4>2
        <5>2. step'[q] = "save" => step[q] = "save" /\ minted[q] \in Cli!Keys \cup {None}
          BY <2>10, <4>2
        <5>3. step'[q] = "save" => owner'[minted[q]] = owner[minted[q]]
          BY <1>2, <5>1, <5>2
        <5> QED
          BY <5>1, <5>2, <5>3
      <4> QED
        BY <4>1, <4>2
    <3> QED
      BY <2>0, <3>1
  <2> QED
    BY <2>2, <2>4, <2>11
<1> QED
  BY <1>0, <1>1, <1>2 DEF Cli!Mint

\* Every step keeps the cached, minted and exported keys with their tenant and
\* their gateway.
LEMMA CliStep == CliInv /\ [Cli!Next]_Cli!vars => CliInv'
<1> SUFFICES ASSUME CliInv, [Cli!Next]_Cli!vars
             PROVE  KeysAreOwn'
  BY CliTyping DEF CliInv, KeysAreOwn
<1> USE DEF CliInv, Cli!TypeOK, KeysAreOwn, SessionIsVisited, CachedIsOwn, MintedIsOwn,
            ExportedIsOwn, MintedFor, MintedAt, Cli!config, Cli!proc, Cli!Export
<1>1. ASSUME \/ \E g \in Gateways : Cli!Login(g)
             \/ \E g \in Gateways, t \in Tenants \cup {default} : Cli!ConfigSet(g, t)
      PROVE  KeysAreOwn'
  BY <1>1 DEF Cli!Login, Cli!ConfigSet
<1>2. ASSUME NEW t \in Tenants \cup {default}, Cli!Logout(t)
      PROVE  KeysAreOwn'
  BY <1>2 DEF Cli!Logout
<1>3. ASSUME NEW p \in Procs, NEW t \in Tenants, NEW b \in BOOLEAN, Cli!Env(p, t, b)
      PROVE  KeysAreOwn'
  BY <1>3 DEF Cli!Env, Cli!proxyKeyItem
<1>4. ASSUME NEW p \in Procs, Cli!Mint(p)
      PROVE  KeysAreOwn'
  BY <1>4, CliMint
<1>5. ASSUME NEW p \in Procs, Cli!Save(p)
      PROVE  KeysAreOwn'
  BY <1>5 DEF Cli!Save, Cli!proxyKeyItem, Cli!SaveTenant
<1>6. ASSUME NEW k \in Cli!Keys, Cli!Revoke(k)
      PROVE  KeysAreOwn'
  BY <1>6 DEF Cli!Revoke
<1>7. CASE UNCHANGED Cli!vars
  BY <1>7 DEF Cli!vars
<1> QED
  BY <1>1, <1>2, <1>3, <1>4, <1>5, <1>6, <1>7 DEF Cli!Next

(* A command of the CLI exports a key of the tenant id it resolved, minted *)
(* by its own gateway or, if it was cached, by one that a session was of,  *)
(* for any gateways, tenants, processes and number of keys.                *)
THEOREM CliExportsOwnTenant == MCSpec => []ExportsOwnTenant
<1>1. MCInit => CliInv
  BY CliInit DEF MCInit
<1>2. CliInv /\ [MCNext]_<<moving, vars, loginVars, cliVars, agentVars>> => CliInv'
  <2>1. [MCNext]_<<moving, vars, loginVars, cliVars, agentVars>> => [Cli!Next]_Cli!vars
    BY DEF MCNext, cliVars, Cli!vars, Cli!config, Cli!proc
  <2> QED
    BY <2>1, CliStep
<1>3. CliInv => ExportsOwnTenant
  BY DEF CliInv, ExportedIsOwn, MintedFor, MintedAt, ExportsOwnTenant, Cli!ExportsOwnTenant
<1> QED
  BY <1>1, <1>2, <1>3, PTL DEF MCSpec

-----------------------------------------------------------------------------
(***************************************************************************)
(* The CLI's login.  While a login runs, a token on its channel, or the    *)
(* one it took from there, is of a tab that this login opened, whose page  *)
(* is being answered or has been; and only a tab that is through with the  *)
(* provider is ever answered.                                              *)
(***************************************************************************)
TokenIsOwn ==
  stage # "idle" /\ (channel = "token" \/ result = "token") =>
    \E t \in Tabs : /\ of[t] = attempt /\ query[t] = "token"
                    /\ at[t] = "sent" \/ "success" \in saw[t]

AnsweredHaveAsked ==
  \A t \in Tabs : saw[t] # {} => at[t] \notin {"closed", "sso"}

\* Once the listener is closed no handler has an answer to give: it has given
\* it, or is blocked on the channel.
SavedIsShown == stage = "saving" => Login!Drained

LoginInv == Login!TypeOK /\ TokenIsOwn /\ AnsweredHaveAsked /\ SavedIsShown

\* Before the first login there is no tab and no token.
LEMMA LoginInit == Login!Init => LoginInv
BY LoginAssumption
  DEF Login!Init, Login!TypeOK, Login!LoginAssumption, Login!Results,
      Login!Answers, LoginInv, TokenIsOwn, AnsweredHaveAsked, SavedIsShown

\* Every step of the command, its handlers and the browser keeps the types.
LEMMA LoginTyping == Login!TypeOK /\ [Login!Next]_Login!vars => Login!TypeOK'
<1> SUFFICES ASSUME Login!TypeOK, [Login!Next]_Login!vars
             PROVE  Login!TypeOK'
  OBVIOUS
<1>0. MaxLogins \in Nat
  BY LoginAssumption DEF Login!LoginAssumption
<1> USE DEF Login!TypeOK, Login!process, Login!browser, Login!Results
<1>1. ASSUME NEW t \in Tabs, Login!Start(t)
      PROVE  Login!TypeOK'
  BY <1>1, <1>0 DEF Login!Start
<1>2. ASSUME NEW t \in Tabs, Login!Redirect(t) \/ Login!Reload(t)
      PROVE  Login!TypeOK'
  BY <1>2 DEF Login!Redirect, Login!Reload, Login!Accepted
<1>3. ASSUME NEW t \in Tabs, Login!Send(t) \/ Login!Reply(t)
      PROVE  Login!TypeOK'
  BY <1>3 DEF Login!Send, Login!Reply, Login!Outcome
<1>4. ASSUME Login!Take \/ Login!Expire \/ Login!Shutdown \/ Login!Exit
      PROVE  Login!TypeOK'
  BY <1>4 DEF Login!Take, Login!Expire, Login!Shutdown, Login!Exit
<1>5. CASE UNCHANGED Login!vars
  BY <1>5 DEF Login!vars
<1> QED
  BY <1>1, <1>2, <1>3, <1>4, <1>5 DEF Login!Next

\* Every step keeps the token of a login with the tab it is of.
LEMMA LoginStep == LoginInv /\ [Login!Next]_Login!vars => LoginInv'
<1> SUFFICES ASSUME LoginInv, [Login!Next]_Login!vars
             PROVE  (TokenIsOwn /\ AnsweredHaveAsked /\ SavedIsShown)'
  BY LoginTyping DEF LoginInv
<1> USE DEF LoginInv, Login!TypeOK, Login!process, Login!browser,
            TokenIsOwn, AnsweredHaveAsked, SavedIsShown, Login!Drained
<1>1. ASSUME NEW t \in Tabs, Login!Start(t)
      PROVE  (TokenIsOwn /\ AnsweredHaveAsked /\ SavedIsShown)'
  BY <1>1 DEF Login!Start
<1>2. ASSUME NEW t \in Tabs, Login!Redirect(t)
      PROVE  (TokenIsOwn /\ AnsweredHaveAsked /\ SavedIsShown)'
  BY <1>2 DEF Login!Redirect, Login!Accepted
<1>3. ASSUME NEW t \in Tabs, Login!Reload(t)
      PROVE  (TokenIsOwn /\ AnsweredHaveAsked /\ SavedIsShown)'
  BY <1>3 DEF Login!Reload, Login!Accepted
<1>4. ASSUME NEW t \in Tabs, Login!Send(t)
      PROVE  (TokenIsOwn /\ AnsweredHaveAsked /\ SavedIsShown)'
  BY <1>4 DEF Login!Send, Login!Outcome
<1>5. ASSUME NEW t \in Tabs, Login!Reply(t)
      PROVE  (TokenIsOwn /\ AnsweredHaveAsked /\ SavedIsShown)'
  BY <1>5 DEF Login!Reply, Login!Outcome
<1>6. ASSUME Login!Take \/ Login!Expire \/ Login!Shutdown \/ Login!Exit
      PROVE  (TokenIsOwn /\ AnsweredHaveAsked /\ SavedIsShown)'
  BY <1>6 DEF Login!Take, Login!Expire, Login!Shutdown, Login!Exit
<1>7. CASE UNCHANGED Login!vars
  BY <1>7 DEF Login!vars
<1> QED
  BY <1>1, <1>2, <1>3, <1>4, <1>5, <1>6, <1>7 DEF Login!Next

(* A login stores only the token of a tab it has opened itself, and says   *)
(* so only when the browser has been shown it, for any number of tabs and  *)
(* of logins.                                                              *)
THEOREM CliStoresOwnToken == MCSpec => StoredIsOwn
<1>1. MCInit => LoginInv
  BY LoginInit DEF MCInit
<1>2. [MCNext]_<<moving, vars, loginVars, cliVars, agentVars>> => [Login!Next]_Login!vars
  BY DEF MCNext, loginVars, Login!vars, Login!process, Login!browser
<1>3. LoginInv /\ [Login!Next]_Login!vars =>
        [session' # session =>
           \E t \in Tabs : of[t] = session' /\ query[t] = "token" /\ at[t] # "sso"]_Login!vars
  <2> SUFFICES ASSUME LoginInv, Login!Next, session' # session
               PROVE  \E t \in Tabs : of[t] = session' /\ query[t] = "token" /\ at[t] # "sso"
    BY DEF Login!vars, Login!process
  <2>1. Login!Exit
    BY DEF Login!Next, Login!Start, Login!Redirect, Login!Reload, Login!Send, Login!Reply,
           Login!Take, Login!Expire, Login!Shutdown, Login!process
  <2> QED
    BY <2>1 DEF Login!Exit, LoginInv, TokenIsOwn, AnsweredHaveAsked
<1>4. LoginInv /\ [Login!Next]_Login!vars =>
        [stage = "saving" /\ told' = "in" /\ stage' = "idle" =>
           \E t \in Tabs : of[t] = attempt /\ "success" \in saw[t]]_Login!vars
  <2> SUFFICES ASSUME LoginInv, Login!Next, stage = "saving", told' = "in", stage' = "idle"
               PROVE  \E t \in Tabs : of[t] = attempt /\ "success" \in saw[t]
    OBVIOUS
  <2>1. Login!Exit
    BY DEF Login!Next, Login!Start, Login!Redirect, Login!Reload, Login!Send, Login!Reply,
           Login!Take, Login!Expire, Login!Shutdown, Login!process
  <2> QED
    BY <2>1 DEF Login!Exit, Login!Drained, LoginInv, TokenIsOwn, SavedIsShown
<1>5. LoginInv => Login!TypeOK
  BY DEF LoginInv
<1> QED
  BY <1>1, <1>2, <1>3, <1>4, <1>5, LoginStep, PTL
    DEF MCSpec, StoredIsOwn, Login!StoredIsOwn, Login!LoggedInIsShown

-----------------------------------------------------------------------------
(***************************************************************************)
(* The agents.  The clicks on Register are the calls there have been, and  *)
(* a row is of a call that has left its start; and a list is the table's   *)
(* unless somebody has yet to hear of a row, for every tenant and not only *)
(* for the one in scope.                                                   *)
(***************************************************************************)
Clicked(c, t, n) ==
  {s \in Slots : c[s] # None /\ c[s].tenant = t /\ c[s].name = n}
Landed(c, t, n) == {s \in Clicked(c, t, n) : c[s].at # "sent"}

ClicksAreCalls ==
  \A t \in Tenants, n \in Names : clicks[t][n] = Cardinality(Clicked(calls, t, n))

RowsAreLanded ==
  \A t \in Tenants, n \in Names : rows[t][n] <= Cardinality(Landed(calls, t, n))

\* Every row of a tenant has been heard of, or given up.
AllHeard(t) ==
  t \notin missed /\ \A s \in Slots : Agents!At(s, "done") => calls[s].tenant # t

ListsAreTrue ==
  \A t \in Tenants :
    list[t].known /\ ~failed[t] /\ fetch[t].at = "none" /\ AllHeard(t)
      => list[t].list = rows[t]

ReadsAreTrue ==
  \A t \in Tenants : fetch[t].at = "read" /\ AllHeard(t) => fetch[t].list = rows[t]

\* The page hears of a call that there has been.
LatestIsCalled == latest # None => calls[latest] # None

AgentInv ==
  /\ Agents!TypeOK /\ LatestIsCalled
  /\ ClicksAreCalls /\ RowsAreLanded
  /\ ListsAreTrue /\ ReadsAreTrue

\* The parts count as this module does.
LEMMA SameCount ==
  /\ \A S : Agents!IsFiniteSet(S) <=> IsFiniteSet(S)
  /\ \A S : Agents!Cardinality(S) = Cardinality(S)
<1>1. \A S : Agents!IsFiniteSet(S) <=> IsFiniteSet(S)
  BY DEF Agents!IsFiniteSet, IsFiniteSet
<1>2. \A S : Agents!Cardinality(S) = Cardinality(S)
  BY DEF Agents!Cardinality, Cardinality, Agents!IsFiniteSet, IsFiniteSet
<1> QED
  BY <1>1, <1>2

\* One more member of a set that grows by it.
LEMMA OneMore ==
  ASSUME NEW S, IsFiniteSet(S), NEW x, x \notin S
  PROVE  Cardinality(S \cup {x}) = Cardinality(S) + 1
BY FS_AddElement, Zenon

\* The calls there have been, and those that have left their start, are
\* finitely many, and not more than the calls there can be.
LEMMA CallsAreBounded ==
  ASSUME NEW c, NEW t, NEW n
  PROVE  /\ IsFiniteSet(Clicked(c, t, n)) /\ IsFiniteSet(Landed(c, t, n))
         /\ Cardinality(Landed(c, t, n)) \in Nat
         /\ Cardinality(Clicked(c, t, n)) \in Nat
         /\ Cardinality(Slots) \in Nat
         /\ Cardinality(Landed(c, t, n)) <= Cardinality(Clicked(c, t, n))
         /\ Cardinality(Clicked(c, t, n)) <= Cardinality(Slots)
<1>1. IsFiniteSet(Slots)
  BY AgentsAssumption, SameCount DEF Agents!RegistryAssumption
<1>2. Landed(c, t, n) \subseteq Clicked(c, t, n) /\ Clicked(c, t, n) \subseteq Slots
  BY DEF Landed, Clicked
<1> QED
  BY <1>1, <1>2, FS_Subset, FS_CardinalityType

\* The list of agents is empty at first, and nobody has clicked.
LEMMA AgentInit == Agents!Init => AgentInv
<1> SUFFICES ASSUME Agents!Init PROVE AgentInv
  OBVIOUS
<1>1. \A t \in Tenants, n \in Names : Clicked(calls, t, n) = {} /\ Landed(calls, t, n) = {}
  BY DEF Agents!Init, Clicked, Landed
<1>2. Cardinality({}) = 0
  BY FS_EmptySet, Zenon
<1>3. Agents!Cardinality(Slots) \in Nat
  BY SameCount, CallsAreBounded
<1>4. Agents!Empty \in Agents!AgentList
  BY <1>3 DEF Agents!Empty, Agents!AgentList
<1>5. Agents!TypeOK
  <2>1. Agents!NoList \in Agents!Known
    BY <1>4 DEF Agents!NoList, Agents!Known
  <2>2. fetch \in [Tenants -> [at : {"none", "sent"}, list : {Agents!Empty}]]
    BY DEF Agents!Init, Agents!NoFetch, Agents!Sent
  <2> QED
    BY <2>1, <2>2, <1>4 DEF Agents!Init, Agents!TypeOK, Agents!Fetch
<1>6. ClicksAreCalls /\ RowsAreLanded
  <2>1. \A t \in Tenants, n \in Names : rows[t][n] = 0 /\ clicks[t][n] = 0
    BY DEF Agents!Init, Agents!Empty
  <2>2. \A t \in Tenants, n \in Names :
          Cardinality(Clicked(calls, t, n)) = 0 /\ Cardinality(Landed(calls, t, n)) = 0
    BY <1>1, <1>2, Zenon
  <2> QED
    BY <2>1, <2>2 DEF ClicksAreCalls, RowsAreLanded
<1>7. ListsAreTrue /\ ReadsAreTrue
  BY DEF Agents!Init, Agents!NoList, Agents!NoFetch, Agents!Sent, ListsAreTrue, ReadsAreTrue
<1> QED
  BY <1>5, <1>6, <1>7 DEF AgentInv, LatestIsCalled, Agents!Init

\* A call that moves on is the same call; it counts as landed from then on.
LEMMA MovesOn ==
  ASSUME calls \in [Slots -> Agents!Call \cup {None}],
         NEW s \in Slots, calls[s] # None,
         NEW a \in {"done", "refused", "over"},
         calls' = [calls EXCEPT ![s].at = a]
  PROVE  /\ calls' \in [Slots -> Agents!Call \cup {None}]
         /\ calls'[s] # None /\ calls'[s].at = a
         /\ \A t \in Tenants, n \in Names :
              /\ Clicked(calls', t, n) = Clicked(calls, t, n)
              /\ s \in Clicked(calls, t, n) =>
                   Landed(calls', t, n) = Landed(calls, t, n) \cup {s}
              /\ s \notin Clicked(calls, t, n) => Landed(calls', t, n) = Landed(calls, t, n)
<1>1. calls[s] \in Agents!Call
  OBVIOUS
<1>2. [calls[s] EXCEPT !.at = a] \in Agents!Call
  BY <1>1 DEF Agents!Call
<1>3. calls'[s] = [calls[s] EXCEPT !.at = a] /\ \A r \in Slots : r # s => calls'[r] = calls[r]
  OBVIOUS
<1>4. calls' \in [Slots -> Agents!Call \cup {None}]
  BY <1>2, <1>3
<1>5. calls'[s] # None
  BY <1>2, <1>3, AgentsAssumption DEF Agents!RegistryAssumption
<1>6. /\ calls'[s].tenant = calls[s].tenant /\ calls'[s].name = calls[s].name
      /\ calls'[s].at = a
  BY <1>1, <1>3 DEF Agents!Call
<1> QED
  BY <1>3, <1>4, <1>5, <1>6 DEF Clicked, Landed

\* One more click, or row, is one more of its tenant and name.
LEMMA OneIsAdded ==
  ASSUME NEW f \in [Tenants -> [Names -> Nat]], NEW t \in Tenants, NEW n \in Names
  PROVE  /\ Agents!One(f, t, n) \in [Tenants -> [Names -> Nat]]
         /\ \A u \in Tenants, m \in Names :
              Agents!One(f, t, n)[u][m] = IF u = t /\ m = n THEN f[u][m] + 1 ELSE f[u][m]
BY DEF Agents!One

\* Every step keeps the clicks with the calls, and the rows below them.
LEMMA AgentCounts ==
  Agents!TypeOK /\ LatestIsCalled /\ ClicksAreCalls /\ RowsAreLanded /\ [Agents!Next]_Agents!vars
    => /\ (ClicksAreCalls /\ RowsAreLanded)'
       /\ calls' \in [Slots -> Agents!Call \cup {None}]
       /\ rows' \in [Tenants -> [Names -> Nat]] /\ clicks' \in [Tenants -> [Names -> Nat]]
<1> SUFFICES ASSUME Agents!TypeOK, LatestIsCalled, ClicksAreCalls, RowsAreLanded,
                    [Agents!Next]_Agents!vars
             PROVE  /\ (ClicksAreCalls /\ RowsAreLanded)'
                    /\ calls' \in [Slots -> Agents!Call \cup {None}]
                    /\ rows' \in [Tenants -> [Names -> Nat]]
                    /\ clicks' \in [Tenants -> [Names -> Nat]]
  OBVIOUS
<1> DEFINE Goal == /\ (ClicksAreCalls /\ RowsAreLanded)'
                   /\ calls' \in [Slots -> Agents!Call \cup {None}]
                   /\ rows' \in [Tenants -> [Names -> Nat]]
                   /\ clicks' \in [Tenants -> [Names -> Nat]]
<1>0. /\ rows \in [Tenants -> [Names -> Nat]]
      /\ clicks \in [Tenants -> [Names -> Nat]]
      /\ calls \in [Slots -> Agents!Call \cup {None}]
  BY SameCount, CallsAreBounded DEF Agents!TypeOK, Agents!AgentList
<1>1. CASE UNCHANGED <<calls, rows, clicks>>
  BY <1>0, <1>1 DEF ClicksAreCalls, RowsAreLanded
<1>2. ASSUME NEW s \in Slots, Agents!HandleCreate(s)
      PROVE  Goal
  <2> DEFINE c == [name |-> newName, tenant |-> tenantId, tells |-> tenantId, at |-> "sent"]
  <2>1. /\ newName \in Names /\ tenantId \in Tenants /\ calls[s] = None
        /\ calls' = [calls EXCEPT ![s] = c]
        /\ clicks' = Agents!One(clicks, tenantId, newName) /\ rows' = rows
    BY <1>2 DEF Agents!HandleCreate, Agents!Registrable, Agents!TypeOK
  <2>2. c \in Agents!Call /\ c # None
    BY <2>1, AgentsAssumption DEF Agents!Call, Agents!RegistryAssumption
  <2>3. calls' \in [Slots -> Agents!Call \cup {None}]
    BY <2>1, <2>2, <1>0
  <2>4. \A t, n : Landed(calls', t, n) = Landed(calls, t, n)
    BY <2>1, <2>2, <1>0 DEF Landed, Clicked
  <2>5. \A t \in Tenants, n \in Names :
          Clicked(calls', t, n) = IF t = tenantId /\ n = newName
                                  THEN Clicked(calls, t, n) \cup {s} ELSE Clicked(calls, t, n)
    BY <2>1, <2>2, <1>0 DEF Clicked
  <2>6. \A t, n : s \notin Clicked(calls, t, n)
    BY <2>1 DEF Clicked
  <2>7. \A t \in Tenants, n \in Names :
          Cardinality(Clicked(calls', t, n)) =
            IF t = tenantId /\ n = newName
            THEN Cardinality(Clicked(calls, t, n)) + 1 ELSE Cardinality(Clicked(calls, t, n))
    <3> SUFFICES ASSUME NEW t \in Tenants, NEW n \in Names, t = tenantId, n = newName
                 PROVE  Cardinality(Clicked(calls, t, n) \cup {s}) =
                          Cardinality(Clicked(calls, t, n)) + 1
      BY <2>5
    <3>1. IsFiniteSet(Clicked(calls, t, n)) /\ s \notin Clicked(calls, t, n)
      BY <2>6, CallsAreBounded
    <3> QED
      BY <3>1, OneMore
  <2>8. ClicksAreCalls'
    <3>1. \A t \in Tenants, n \in Names :
            clicks'[t][n] = IF t = tenantId /\ n = newName THEN clicks[t][n] + 1 ELSE clicks[t][n]
      BY <2>1, <1>0, OneIsAdded
    <3> QED
      BY <3>1, <2>7 DEF ClicksAreCalls
  <2>9. RowsAreLanded'
    BY <2>1, <2>4 DEF RowsAreLanded
  <2> QED
    BY <2>1, <2>3, <2>8, <2>9, <1>0, OneIsAdded
<1>3. ASSUME NEW s \in Slots, NEW a \in {"done", "refused", "over"},
             calls[s] # None, calls' = [calls EXCEPT ![s].at = a], UNCHANGED clicks,
             \/ UNCHANGED rows
             \/ /\ calls[s].at = "sent"
                /\ rows' = Agents!One(rows, calls[s].tenant, calls[s].name)
      PROVE  Goal
  <2>1. calls[s] \in Agents!Call
    BY <1>0, <1>3
  <2>2. calls[s].tenant \in Tenants /\ calls[s].name \in Names
    BY <2>1 DEF Agents!Call
  <2>3. /\ calls' \in [Slots -> Agents!Call \cup {None}]
        /\ calls'[s] # None /\ calls'[s].at = a
        /\ \A t \in Tenants, n \in Names :
             /\ Clicked(calls', t, n) = Clicked(calls, t, n)
             /\ s \in Clicked(calls, t, n) =>
                  Landed(calls', t, n) = Landed(calls, t, n) \cup {s}
             /\ s \notin Clicked(calls, t, n) => Landed(calls', t, n) = Landed(calls, t, n)
    BY <1>0, <1>3, MovesOn, Zenon
  <2>4. ClicksAreCalls'
    BY <1>3, <2>3 DEF ClicksAreCalls
  <2>5. ASSUME NEW t \in Tenants, NEW n \in Names
        PROVE  /\ Cardinality(Landed(calls, t, n)) <= Cardinality(Landed(calls', t, n))
               /\ calls[s].at = "sent" /\ calls[s].tenant = t /\ calls[s].name = n
                    => Cardinality(Landed(calls', t, n)) = Cardinality(Landed(calls, t, n)) + 1
    <3>1. /\ IsFiniteSet(Landed(calls, t, n)) /\ IsFiniteSet(Landed(calls', t, n))
          /\ Cardinality(Landed(calls, t, n)) \in Nat
      BY CallsAreBounded
    <3>2. Cardinality(Landed(calls, t, n)) <= Cardinality(Landed(calls', t, n))
      BY <2>3, <3>1, FS_Subset
    <3>3. calls[s].at = "sent" => s \notin Landed(calls, t, n)
      BY DEF Landed
    <3>4. calls[s].tenant = t /\ calls[s].name = n => s \in Clicked(calls, t, n)
      BY <1>3 DEF Clicked
    <3> QED
      BY <2>3, <3>1, <3>2, <3>3, <3>4, OneMore
  <2>6. \A t \in Tenants, n \in Names :
          /\ Cardinality(Landed(calls, t, n)) \in Nat
          /\ Cardinality(Landed(calls', t, n)) \in Nat
    BY CallsAreBounded
  <2>7. ASSUME NEW t \in Tenants, NEW n \in Names
        PROVE  rows'[t][n] <= Cardinality(Landed(calls', t, n))
    <3>1. rows[t][n] \in Nat /\ rows[t][n] <= Cardinality(Landed(calls, t, n))
      BY <1>0 DEF RowsAreLanded
    <3>2. CASE UNCHANGED rows
      BY <2>5, <2>6, <3>1, <3>2
    <3>3. CASE /\ calls[s].at = "sent"
               /\ rows' = Agents!One(rows, calls[s].tenant, calls[s].name)
      <4>1. rows'[t][n] = IF t = calls[s].tenant /\ n = calls[s].name
                          THEN rows[t][n] + 1 ELSE rows[t][n]
        BY <1>0, <2>2, <3>3, OneIsAdded
      <4> QED
        BY <2>5, <2>6, <3>1, <3>3, <4>1
    <3> QED
      BY <1>3, <3>2, <3>3
  <2> QED
    <3>1. rows' \in [Tenants -> [Names -> Nat]]
      BY <1>0, <1>3, <2>2, OneIsAdded
    <3> QED
      BY <1>0, <1>3, <2>3, <2>4, <2>7, <3>1 DEF RowsAreLanded
<1>4. ASSUME NEW t \in Tenants, Agents!TenantMoves(t)
      PROVE  Goal
  <2>1. CASE UNCHANGED calls
    BY <1>1, <1>4, <2>1 DEF Agents!TenantMoves
  <2>2. CASE /\ latest # None
             /\ calls' = [calls EXCEPT ![latest].tells = t]
    <3>1. latest \in Slots /\ calls[latest] \in Agents!Call /\ calls[latest] # None
      BY <1>0, <2>2 DEF Agents!TypeOK, LatestIsCalled
    <3>2. [calls[latest] EXCEPT !.tells = t] \in Agents!Call
      BY <3>1 DEF Agents!Call
    <3>3. [calls[latest] EXCEPT !.tells = t] # None
      BY <3>2, AgentsAssumption DEF Agents!RegistryAssumption
    <3>4. \A s \in Slots : /\ calls'[s] = None <=> calls[s] = None
                           /\ calls'[s].tenant = calls[s].tenant \/ calls[s] = None
                           /\ calls'[s].name = calls[s].name \/ calls[s] = None
                           /\ calls'[s].at = calls[s].at \/ calls[s] = None
      BY <1>0, <2>2, <3>1, <3>3 DEF Agents!Call
    <3>5. \A u, n : Clicked(calls', u, n) = Clicked(calls, u, n)
      BY <3>4 DEF Clicked
    <3>6. \A u, n : Landed(calls', u, n) = Landed(calls, u, n)
      BY <3>4, <3>5 DEF Landed, Clicked
    <3>7. calls' \in [Slots -> Agents!Call \cup {None}]
      BY <1>0, <2>2, <3>2
    <3> QED
      BY <1>0, <1>4, <3>5, <3>6, <3>7 DEF Agents!TenantMoves, ClicksAreCalls, RowsAreLanded
  <2> QED
    BY <1>4, <2>1, <2>2 DEF Agents!TenantMoves
<1>5. ASSUME NEW s \in Slots, Agents!HandleCreateAgent(s)
      PROVE  Goal
  BY <1>3, <1>5 DEF Agents!HandleCreateAgent, Agents!At, Agents!history
<1>6. ASSUME NEW s \in Slots, Agents!CreateFails(s)
      PROVE  Goal
  BY <1>3, <1>6 DEF Agents!CreateFails, Agents!At, Agents!history
<1>7. ASSUME NEW s \in Slots, Agents!Registered(s) \/ Agents!NotRegistered(s)
      PROVE  Goal
  BY <1>3, <1>7 DEF Agents!Registered, Agents!NotRegistered, Agents!At
<1>8. CASE \E b \in BOOLEAN : Agents!SetIsOpen(b)
  BY <1>1, <1>8 DEF Agents!SetIsOpen, Agents!history
<1>9. CASE \E n \in Names : Agents!SetNewName(n)
  BY <1>1, <1>9 DEF Agents!SetNewName, Agents!history
<1>10. CASE \E t \in Tenants : Agents!HandleListAgents(t) \/ Agents!ShowList(t) \/ Agents!FetchFails(t)
  BY <1>1, <1>10 DEF Agents!HandleListAgents, Agents!ShowList, Agents!FetchFails, Agents!history
<1>11. CASE Agents!Focus \/ Agents!Leave \/ Agents!Enter \/ UNCHANGED Agents!vars
  BY <1>1, <1>11 DEF Agents!Focus, Agents!Leave, Agents!Enter, Agents!vars, Agents!history
<1> QED
  BY <1>2, <1>4, <1>5, <1>6, <1>7, <1>8, <1>9, <1>10, <1>11 DEF Agents!Next

\* What is asked for and what is read of a list has its type.
LEMMA FetchTyping ==
  /\ Agents!Sent \in Agents!Fetch /\ Agents!NoFetch \in Agents!Fetch
  /\ \A l \in Agents!AgentList : [at |-> "read", list |-> l] \in Agents!Fetch
  /\ \A f \in Agents!Fetch : f.at = "read" => f.list \in Agents!AgentList
BY DEF Agents!Sent, Agents!NoFetch, Agents!Fetch

\* Every step of the page, its calls and the gateway keeps the types.
LEMMA AgentTyping ==
  Agents!TypeOK /\ LatestIsCalled /\ ClicksAreCalls /\ RowsAreLanded /\ [Agents!Next]_Agents!vars
    => Agents!TypeOK' /\ LatestIsCalled'
<1> SUFFICES ASSUME Agents!TypeOK, LatestIsCalled, ClicksAreCalls, RowsAreLanded,
                    [Agents!Next]_Agents!vars
             PROVE  Agents!TypeOK' /\ LatestIsCalled'
  OBVIOUS
<1>1. calls' \in [Slots -> Agents!Call \cup {None}]
  BY AgentCounts
<1>2. rows' \in [Tenants -> Agents!AgentList] /\ clicks' \in [Tenants -> Agents!AgentList]
  <2>1. \A t \in Tenants, n \in Names :
          /\ rows'[t][n] <= Cardinality(Landed(calls', t, n))
          /\ clicks'[t][n] = Cardinality(Clicked(calls', t, n))
    BY AgentCounts DEF ClicksAreCalls, RowsAreLanded
  <2>2. \A t \in Tenants, n \in Names :
          /\ rows'[t][n] \in 0 .. Cardinality(Slots)
          /\ clicks'[t][n] \in 0 .. Cardinality(Slots)
    BY <2>1, AgentCounts, CallsAreBounded
  <2> QED
    BY <2>2, AgentCounts, SameCount DEF Agents!AgentList
<1> USE DEF Agents!TypeOK, Agents!dialog, Agents!query, Agents!history
<1>3. ASSUME NEW t \in Tenants, Agents!LooksAt(t)
      PROVE  /\ fetch' \in [Tenants -> Agents!Fetch] /\ missed' \subseteq Tenants
             /\ UNCHANGED <<list, failed>>
  BY <1>3, FetchTyping DEF Agents!LooksAt
<1>4. ASSUME NEW t \in Tenants, NEW u \in Tenants, Agents!Invalidate(t, u)
      PROVE  /\ fetch' \in [Tenants -> Agents!Fetch] /\ missed' \subseteq Tenants
             /\ UNCHANGED <<list, failed>>
  BY <1>4, FetchTyping DEF Agents!Invalidate
<1>5. ASSUME NEW s \in Slots, Agents!HandleCreate(s)
      PROVE  Agents!TypeOK' /\ LatestIsCalled'
  <2>1. Agents!TypeOK'
    BY <1>1, <1>2, <1>5 DEF Agents!HandleCreate
  <2>2. calls'[s] = [name |-> newName, tenant |-> tenantId, tells |-> tenantId, at |-> "sent"]
    BY <1>5 DEF Agents!HandleCreate
  <2>3. calls'[s] \in Agents!Call
    BY <1>5, <2>2 DEF Agents!HandleCreate, Agents!Registrable, Agents!Call
  <2>4. calls'[s] # None
    BY <2>3, AgentsAssumption DEF Agents!RegistryAssumption
  <2> QED
    BY <1>5, <2>1, <2>4 DEF Agents!HandleCreate, LatestIsCalled
<1>6. ASSUME NEW s \in Slots, NEW a \in {"done", "refused", "over"}, calls[s] # None,
             calls' = [calls EXCEPT ![s].at = a], latest' = latest
      PROVE  LatestIsCalled'
  <2>1. calls'[s] # None
    BY <1>6, MovesOn, Zenon
  <2> QED
    BY <1>6, <2>1 DEF LatestIsCalled
<1>7. ASSUME NEW s \in Slots, Agents!HandleCreateAgent(s) \/ Agents!CreateFails(s)
      PROVE  Agents!TypeOK' /\ LatestIsCalled'
  BY <1>1, <1>2, <1>6, <1>7 DEF Agents!HandleCreateAgent, Agents!CreateFails, Agents!At
<1>8. ASSUME NEW s \in Slots, Agents!Registered(s)
      PROVE  Agents!TypeOK' /\ LatestIsCalled'
  <2>1. calls[s] # None /\ latest' = latest /\ calls' = [calls EXCEPT ![s].at = "over"]
    BY <1>8 DEF Agents!Registered, Agents!At
  <2>2. calls[s].tenant \in Tenants /\ calls[s].tells \in Tenants
    BY <2>1 DEF Agents!Call
  <2>3. /\ fetch' \in [Tenants -> Agents!Fetch] /\ missed' \subseteq Tenants
        /\ UNCHANGED <<list, failed>>
    BY <1>4, <1>8, <2>2 DEF Agents!Registered
  <2> QED
    BY <1>1, <1>2, <1>6, <1>8, <2>1, <2>3 DEF Agents!Registered
<1>9. ASSUME NEW s \in Slots, Agents!NotRegistered(s)
      PROVE  Agents!TypeOK' /\ LatestIsCalled'
  <2>1. calls[s] # None /\ latest' = latest /\ calls' = [calls EXCEPT ![s].at = "over"]
    BY <1>9 DEF Agents!NotRegistered, Agents!At
  <2>2. calls[s].tenant \in Tenants
    BY <2>1 DEF Agents!Call
  <2> QED
    BY <1>1, <1>2, <1>6, <1>9, <2>1, <2>2 DEF Agents!NotRegistered
<1>10. ASSUME NEW t \in Tenants,
              Agents!HandleListAgents(t) \/ Agents!ShowList(t) \/ Agents!FetchFails(t)
       PROVE  Agents!TypeOK' /\ LatestIsCalled'
  <2>1. CASE Agents!HandleListAgents(t)
    <3>1. [at |-> "read", list |-> rows[t]] \in Agents!Fetch
      BY FetchTyping
    <3> QED
      BY <1>1, <1>2, <2>1, <3>1 DEF Agents!HandleListAgents, LatestIsCalled
  <2>2. CASE Agents!ShowList(t)
    <3>1. [list |-> fetch[t].list, known |-> TRUE] \in Agents!Known
      BY <2>2, FetchTyping DEF Agents!ShowList, Agents!Known
    <3> QED
      BY <1>1, <1>2, <2>2, <3>1, FetchTyping DEF Agents!ShowList, LatestIsCalled
  <2>3. CASE Agents!FetchFails(t)
    BY <1>1, <1>2, <2>3, FetchTyping DEF Agents!FetchFails, LatestIsCalled
  <2> QED
    BY <1>10, <2>1, <2>2, <2>3
<1>11. ASSUME NEW t \in Tenants, Agents!TenantMoves(t)
       PROVE  Agents!TypeOK' /\ LatestIsCalled'
  <2>1. Agents!TypeOK'
    BY <1>1, <1>2, <1>3, <1>11 DEF Agents!TenantMoves
  <2>2. LatestIsCalled'
    <3>1. CASE latest = None \/ UNCHANGED calls
      BY <1>11, <3>1 DEF Agents!TenantMoves, LatestIsCalled
    <3>2. CASE /\ latest \in Slots /\ calls[latest] # None
               /\ calls' = [calls EXCEPT ![latest].tells = t]
      <4>1. calls'[latest] \in Agents!Call
        BY <3>2 DEF Agents!Call
      <4> QED
        BY <1>11, <4>1, AgentsAssumption
          DEF Agents!TenantMoves, Agents!RegistryAssumption, LatestIsCalled
    <3> QED
      BY <1>11, <3>1, <3>2 DEF Agents!TenantMoves, LatestIsCalled
  <2> QED
    BY <2>1, <2>2
<1>12. ASSUME \/ \E b \in BOOLEAN : Agents!SetIsOpen(b)
              \/ \E n \in Names : Agents!SetNewName(n)
              \/ Agents!Leave \/ Agents!Enter \/ UNCHANGED Agents!vars
       PROVE  Agents!TypeOK' /\ LatestIsCalled'
  BY <1>1, <1>2, <1>12
    DEF Agents!SetIsOpen, Agents!SetNewName, Agents!Leave, Agents!Enter, Agents!vars, LatestIsCalled
<1>13. ASSUME Agents!Focus
       PROVE  Agents!TypeOK' /\ LatestIsCalled'
  BY <1>1, <1>2, <1>3, <1>13 DEF Agents!Focus, LatestIsCalled
<1> QED
  BY <1>5, <1>7, <1>8, <1>9, <1>10, <1>11, <1>12, <1>13 DEF Agents!Next

\* Every step leaves the lists that are shown, and those on their way, with
\* the rows of the table, unless somebody has yet to hear of one.
LEMMA AgentLists ==
  Agents!TypeOK /\ LatestIsCalled /\ ListsAreTrue /\ ReadsAreTrue /\ [Agents!Next]_Agents!vars
    => ListsAreTrue' /\ ReadsAreTrue'
<1> SUFFICES ASSUME Agents!TypeOK, LatestIsCalled, ListsAreTrue, ReadsAreTrue,
                    [Agents!Next]_Agents!vars
             PROVE  ListsAreTrue' /\ ReadsAreTrue'
  OBVIOUS
<1> USE DEF Agents!TypeOK, Agents!dialog, Agents!query, Agents!history,
            ListsAreTrue, ReadsAreTrue, AllHeard, Agents!At
<1>1. ASSUME NEW s \in Slots, Agents!HandleCreate(s)
      PROVE  ListsAreTrue' /\ ReadsAreTrue'
  BY <1>1 DEF Agents!HandleCreate
<1>2. ASSUME NEW s \in Slots, Agents!HandleCreateAgent(s)
      PROVE  ListsAreTrue' /\ ReadsAreTrue'
  <2> DEFINE c == calls[s]
  <2>1. /\ c \in Agents!Call /\ c # None /\ c.at = "sent"
        /\ calls' = [calls EXCEPT ![s].at = "done"]
        /\ UNCHANGED <<list, failed, fetch, missed>>
    BY <1>2 DEF Agents!HandleCreateAgent
  <2>2. calls'[s] # None /\ calls'[s].at = "done"
    BY <2>1, MovesOn, Zenon
  <2>3. calls'[s].tenant = c.tenant
    BY <2>1 DEF Agents!Call
  <2>4. \A r \in Slots : r # s => calls'[r] = calls[r]
    BY <2>1
  <2>5. \A t \in Tenants : AllHeard(t)' => t # c.tenant /\ AllHeard(t)
    BY <2>1, <2>2, <2>3, <2>4
  <2>6. \A t \in Tenants : t # c.tenant => rows'[t] = rows[t]
    BY <1>2 DEF Agents!HandleCreateAgent, Agents!One
  <2> QED
    BY <2>1, <2>5, <2>6
<1>3. ASSUME NEW s \in Slots, Agents!CreateFails(s)
      PROVE  ListsAreTrue' /\ ReadsAreTrue'
  BY <1>3 DEF Agents!CreateFails
<1>4. ASSUME NEW s \in Slots, Agents!Registered(s)
      PROVE  ListsAreTrue' /\ ReadsAreTrue'
  BY <1>4 DEF Agents!Registered, Agents!Invalidate, Agents!Sent
<1>5. ASSUME NEW s \in Slots, Agents!NotRegistered(s)
      PROVE  ListsAreTrue' /\ ReadsAreTrue'
  BY <1>5 DEF Agents!NotRegistered
<1>6. ASSUME NEW t \in Tenants,
              Agents!HandleListAgents(t) \/ Agents!ShowList(t) \/ Agents!FetchFails(t)
      PROVE  ListsAreTrue' /\ ReadsAreTrue'
  BY <1>6 DEF Agents!HandleListAgents, Agents!ShowList, Agents!FetchFails, Agents!NoFetch
<1>7. ASSUME NEW t \in Tenants, Agents!TenantMoves(t)
      PROVE  ListsAreTrue' /\ ReadsAreTrue'
  <2>1. \A s \in Slots : /\ Agents!At(s, "done") => Agents!At(s, "done")'
                         /\ Agents!At(s, "done") => calls'[s].tenant = calls[s].tenant
    <3>1. CASE UNCHANGED calls
      BY <3>1
    <3>2. CASE /\ latest \in Slots /\ calls[latest] # None
               /\ calls' = [calls EXCEPT ![latest].tells = t]
      <4>1. calls[latest] \in Agents!Call
        BY <3>2
      <4>2. /\ calls'[latest] \in Agents!Call
            /\ calls'[latest].at = calls[latest].at
            /\ calls'[latest].tenant = calls[latest].tenant
        BY <3>2, <4>1 DEF Agents!Call
      <4> QED
        BY <3>2, <4>2, AgentsAssumption DEF Agents!RegistryAssumption
    <3> QED
      BY <1>7, <3>1, <3>2 DEF Agents!TenantMoves, LatestIsCalled
  <2>2. \A u \in Tenants : u # t /\ AllHeard(u)' => AllHeard(u)
    BY <1>7, <2>1 DEF Agents!TenantMoves, Agents!LooksAt
  <2>3. ASSUME fetch[t].at # "none", AllHeard(t)'
        PROVE  AllHeard(t)
    BY <1>7, <2>1, <2>3 DEF Agents!TenantMoves, Agents!LooksAt
  <2>4. fetch[t].at = "none" => fetch'[t].at = "sent"
    BY <1>7 DEF Agents!TenantMoves, Agents!LooksAt, Agents!Sent
  <2>5. \A u \in Tenants : u # t \/ fetch[t].at # "none" => fetch'[u] = fetch[u]
    BY <1>7 DEF Agents!TenantMoves, Agents!LooksAt
  <2>6. UNCHANGED <<list, failed, rows>>
    BY <1>7 DEF Agents!TenantMoves, Agents!LooksAt
  <2> QED
    BY <2>2, <2>3, <2>4, <2>5, <2>6
<1>8. ASSUME Agents!Focus
      PROVE  ListsAreTrue' /\ ReadsAreTrue'
  BY <1>8 DEF Agents!Focus, Agents!LooksAt, Agents!Sent
<1>9. ASSUME \/ \E b \in BOOLEAN : Agents!SetIsOpen(b)
             \/ \E n \in Names : Agents!SetNewName(n)
             \/ Agents!Leave \/ Agents!Enter \/ UNCHANGED Agents!vars
      PROVE  ListsAreTrue' /\ ReadsAreTrue'
  BY <1>9 DEF Agents!SetIsOpen, Agents!SetNewName, Agents!Leave, Agents!Enter, Agents!vars
<1> QED
  BY <1>1, <1>2, <1>3, <1>4, <1>5, <1>6, <1>7, <1>8, <1>9 DEF Agents!Next

(* An agent is registered where the dialog showed it, and at most once a   *)
(* click, and a list nothing is on its way for is the table's, for any     *)
(* tenants and names and for any number of calls.                          *)
THEOREM AgentsAreAsShown == MCSpec => []AgentsAsShown
<1>1. MCInit => AgentInv
  BY AgentInit DEF MCInit
<1>2. AgentInv /\ [MCNext]_<<moving, vars, loginVars, cliVars, agentVars>> => AgentInv'
  <2>1. [MCNext]_<<moving, vars, loginVars, cliVars, agentVars>> => [Agents!Next]_Agents!vars
    BY DEF MCNext, agentVars, Agents!vars, Agents!dialog, Agents!query, Agents!history
  <2> QED
    BY <2>1, AgentTyping, AgentCounts, AgentLists DEF AgentInv
<1>3. AgentInv => AgentsAsShown
  <2> SUFFICES ASSUME AgentInv PROVE AgentsAsShown
    OBVIOUS
  <2>1. Agents!TypeOK
    BY DEF AgentInv
  <2>2. ASSUME NEW t \in Tenants, NEW n \in Names
        PROVE  rows[t][n] <= clicks[t][n]
    <3>1. rows[t][n] \in Int
      BY <2>1, CallsAreBounded, SameCount DEF Agents!TypeOK, Agents!AgentList
    <3> QED
      BY <3>1, CallsAreBounded DEF AgentInv, ClicksAreCalls, RowsAreLanded
  <2>3. Agents!QuietListIsTrue
    BY <2>1 DEF AgentInv, ListsAreTrue, AllHeard, Agents!QuietListIsTrue, Agents!TypeOK
  <2> QED
    BY <2>1, <2>2, <2>3 DEF AgentsAsShown, Agents!RegisteredAsShown
<1> QED
  BY <1>1, <1>2, <1>3, PTL DEF MCSpec
=============================================================================
