------------------------------- MODULE CliKeys --------------------------------
(***************************************************************************)
(* The gateway keys the CLI mints for `aigw env` and `aigw run` and keeps  *)
(* in the OS keyring, with the commands that read and write the keyring    *)
(* and config.yaml: env (run is the same), login, logout and config set.   *)
(* Commands are processes of one user's machine that run at the same time. *)
(* A session is one of a gateway, and a tenant id is one of a gateway; the *)
(* keyring keeps one key per tenant id, of whichever gateway minted it.    *)
(***************************************************************************)
EXTENDS Integers, FiniteSets

CONSTANTS
    Gateways,   \* admin API endpoints
    Tenants,    \* tenant ids; two gateways may use the same one
    Procs,      \* the shells that run env or run
    MaxKeys,    \* bound: keys minted
    None

\* Who minted a key, and for which tenant.
Mintings == [gateway : Gateways, tenant : Tenants]

CliKeysAssumption == MaxKeys \in Nat /\ None \notin Gateways \union Tenants \union Mintings

Keys == 1..MaxKeys

VARIABLES
    session,    \* the gateway of the session the keyring holds, or None
    endpoint,   \* the gateway of config.yaml, or the default one
    default,    \* the tenant of config.yaml, or None
    visited,    \* HISTORY: the gateways of the sessions so far
    cached,     \* tenant id -> the key the keyring holds for it, or None
    owner,      \* key -> who minted it and for which tenant, None: not minted
    active,     \* the keys the gateway admits
    at,         \* process -> where its env command is
    tenant,     \* process -> the tenant its command resolved
    gateway,    \* process -> the gateway its client talks to
    key,        \* process -> the key its command minted, or None
    out         \* process -> the key its last command exported, or None

config == <<endpoint, default>>
proc == <<at, tenant, gateway, key, out>>
vars == <<session, config, visited, cached, owner, active, proc>>

TypeOK ==
    /\ session \in Gateways \union {None}
    /\ endpoint \in Gateways
    /\ visited \subseteq Gateways
    /\ default \in Tenants \union {None}
    /\ cached \in [Tenants -> Keys \union {None}]
    /\ owner \in [Keys -> Mintings \union {None}]
    /\ active \subseteq Keys
    /\ at \in [Procs -> {"idle", "mint", "save"}]
    /\ tenant \in [Procs -> Tenants \union {None}]
    /\ gateway \in [Procs -> Gateways \union {None}]
    /\ key \in [Procs -> Keys \union {None}]
    /\ out \in [Procs -> Keys \union {None}]

Init ==
    /\ session = None
    /\ endpoint \in Gateways
    /\ visited = {}
    /\ default \in Tenants \union {None}
    /\ cached = [t \in Tenants |-> None]
    /\ owner = [k \in Keys |-> None]
    /\ active = {}
    /\ at = [p \in Procs |-> "idle"]
    /\ tenant = [p \in Procs |-> None]
    /\ gateway = [p \in Procs |-> None]
    /\ key = [p \in Procs |-> None]
    /\ out = [p \in Procs |-> None]

-------------------------------------------------------------------------------
\* aigw login, once BrowserLogin has a token of the gateway of the configuration,
\* or of the one AIGW_ENDPOINT puts in its place: the session replaces the one of
\* any other gateway, and the cached keys stay.
Login(g) ==
    /\ session' = g
    /\ visited' = visited \union {g}
    /\ UNCHANGED <<config, cached, owner, active, proc>>

\* aigw config set writes the whole file: the value it sets, and the others as
\* they are resolved, AIGW_ENDPOINT's and AIGW_TENANT's included.
ConfigSet(g, t) ==
    /\ endpoint' = g
    /\ default' = t
    /\ UNCHANGED <<session, visited, cached, owner, active, proc>>

\* aigw logout with the tenant of the configuration, or the one AIGW_TENANT puts
\* in its place: the session, then the key cached under that id, if the keyring
\* will.
Logout(t) ==
    /\ session' = None
    /\ \/ cached' = [u \in Tenants |-> IF u = t THEN None ELSE cached[u]]
       \/ UNCHANGED cached
    /\ UNCHANGED <<config, visited, owner, active, proc>>

\* The item of the keyring that holds a tenant's key: the tenant id names it, and
\* the gateway does not.
proxyKeyItem(t) == t

\* MUTANT: the tenant is resolved again where the key is cached.
SaveTenantAgain(p) == IF default # None THEN default ELSE tenant[p]

\* The tenant under which a minted key is cached: the one it was minted for.
SaveTenant(p) == tenant[p]

Export(p, k) ==
    /\ at' = [at EXCEPT ![p] = "idle"]
    /\ out' = [out EXCEPT ![p] = k]

\* env for the configured tenant, or the one AIGW_TENANT puts in its place: its
\* client is one of the session's gateway, and no session is an error; a cached key
\* is exported as it is, without a call to the gateway; --refresh, or an empty
\* item, goes on to mint.
Env(p, t, refresh) ==
    /\ at[p] = "idle" /\ session # None
    /\ tenant' = [tenant EXCEPT ![p] = t]
    /\ gateway' = [gateway EXCEPT ![p] = session]
    /\ key' = [key EXCEPT ![p] = None]
    /\ IF refresh \/ cached[proxyKeyItem(t)] = None
       THEN /\ at' = [at EXCEPT ![p] = "mint"]
            /\ out' = [out EXCEPT ![p] = None]
       ELSE Export(p, cached[proxyKeyItem(t)])
    /\ UNCHANGED <<session, config, visited, cached, owner, active>>

\* The admin API mints a key; its answer may be lost or an error.
Mint(p) ==
    /\ at[p] = "mint"
    /\ \/ \E k \in Keys :
            /\ \A j \in Keys : owner[j] = None <=> j >= k
            /\ owner' = [owner EXCEPT ![k] = [gateway |-> gateway[p], tenant |-> tenant[p]]]
            /\ active' = active \union {k}
            /\ \/ /\ key' = [key EXCEPT ![p] = k]
                  /\ at' = [at EXCEPT ![p] = "save"]
               \/ /\ at' = [at EXCEPT ![p] = "idle"]
                  /\ UNCHANGED key
       \/ /\ at' = [at EXCEPT ![p] = "idle"]
          /\ UNCHANGED <<owner, active, key>>
    /\ UNCHANGED <<session, config, visited, cached, tenant, gateway, out>>

\* The new key is cached and exported; when the keyring fails it is neither.
Save(p) ==
    /\ at[p] = "save"
    /\ \/ /\ cached' = [cached EXCEPT ![proxyKeyItem(SaveTenant(p))] = key[p]]
          /\ Export(p, key[p])
       \/ /\ at' = [at EXCEPT ![p] = "idle"]
          /\ UNCHANGED <<cached, out>>
    /\ UNCHANGED <<session, config, visited, owner, active, tenant, gateway, key>>

\* keys revoke, or the console.
Revoke(k) ==
    /\ k \in active
    /\ active' = active \ {k}
    /\ UNCHANGED <<session, config, visited, cached, owner, proc>>

Next ==
    \/ \E g \in Gateways : Login(g)
    \/ \E t \in Tenants \union {default} : Logout(t)
    \/ \E g \in Gateways, t \in Tenants \union {default} : ConfigSet(g, t)
    \/ \E p \in Procs :
          \/ \E t \in Tenants, refresh \in BOOLEAN : Env(p, t, refresh)
          \/ Mint(p)
          \/ Save(p)
    \/ \E k \in Keys : Revoke(k)

Spec == Init /\ [][Next]_vars

-------------------------------------------------------------------------------
\* SAFETY: a command exports only a key that was minted for the tenant id it was
\* asked for, by a gateway the user has had a session of, and by its own gateway
\* if it minted the key itself, with other commands for other tenants, logins at
\* other gateways, logouts and changes of the configuration in between.  So a user
\* of one gateway exports that gateway's keys only.
ExportsOwnTenant ==
    \A p \in Procs : out[p] # None =>
        /\ owner[out[p]].tenant = tenant[p]
        /\ owner[out[p]].gateway \in visited
        /\ out[p] = key[p] => owner[out[p]].gateway = gateway[p]

\* REFUTED: a command exports a key of the gateway of its session.  After a login
\* at another gateway the key that the former one minted for the same tenant id is
\* still cached, and exported until --refresh or a logout.
ExportsOwnGateway ==
    \A p \in Procs : out[p] # None => owner[out[p]].gateway = gateway[p]

\* CLAIM (cli/README.md:57): "`aigw logout` drops the cached key."  Said
\* of the logouts that drop one at all.
LogoutDropsKeys ==
    [][session # None /\ session' = None /\ cached' # cached =>
         \A t \in Tenants : cached'[t] = None]_vars
=============================================================================
