------------------------------- MODULE KeyAuth -------------------------------
(***************************************************************************)
(* Authentication of proxy requests by API key, with the Redis cache in    *)
(* front of the key table (backend/internal/proxy/server.go), against the  *)
(* admin server that creates, revokes and deletes keys in the table and    *)
(* never touches the cache (backend/internal/admin/server.go).             *)
(*                                                                         *)
(* Each call to Redis or to the database is a step of its own, so a key    *)
(* may be revoked, or its cache entry may expire, between any two calls of *)
(* a request.  A row with is_active = false and a soft-deleted row are the *)
(* same to the lookup and are both "revoked" here; nothing brings a key    *)
(* back.  A cache entry is the JSON of the row found; only its remaining   *)
(* time to live matters, as the scope of a key never changes.  Left out:   *)
(* requests without a key, refused before anything is read, and the time   *)
(* of last use, which Authenticate writes and nothing here reads.          *)
(***************************************************************************)
EXTENDS Naturals

CONSTANTS
  Key, Tenant, Agent,
  Request,         \* goroutines that authenticate proxy requests
  KeyTenant,       \* KeyTenant[k]: the tenant that owns key k
  KeyAgent,        \* KeyAgent[k]: the agent k is scoped to, or None
  None,            \* a nil agent, or a header that is not sent
  AuthTTL,         \* authTTL, in ticks: how long Redis keeps an entry
  MaxFill          \* longest time from a request's row read to its cache write

(***************************************************************************)
(* AuthTTL = 0 is excluded: to Redis it means an entry that never expires. *)
(* MaxFill is the one assumption on scheduling: the code has no deadline   *)
(* between reading the row and writing the cache entry.                    *)
(***************************************************************************)
ASSUME KeyAuthAssumption ==
  /\ AuthTTL \in Nat \ {0}
  /\ MaxFill \in Nat
  /\ KeyTenant \in [Key -> Tenant]
  /\ KeyAgent \in [Key -> Agent \cup {None}]
  /\ None \notin Agent \cup Tenant

VARIABLES
  row,             \* row[k]: the key's row in the database
  ttl,             \* ttl[k]: remaining life of auth:key:<hash>, 0 if absent
  pc,              \* where a request stands in Authenticate
  key,             \* key[r]: the key it presented
  header,          \* header[r]: its X-Tenant-Id and X-Agent-Id
  context,         \* context[r]: the TenantContext of its last forwarded request
  answer,          \* answer[r]: how its last request ended
  readAge,         \* readAge[r]: ticks since r read the row, while it fills
  revokedFor,      \* history: ticks since k was revoked, saturated at Horizon
  asked            \* history: what was true of the key when it was presented

keyVars == <<row, revokedFor>>
vars == <<keyVars, ttl, pc, key, header, context, answer, readAge, asked>>

(* One tick more than a stale entry can survive the key. *)
Horizon == AuthTTL + MaxFill + 1

Header == [tenant : Tenant \cup {None}, agent : Agent \cup {None}]
NoContext == [tenant |-> None, agent |-> None]

TypeOK ==
  /\ row \in [Key -> {"absent", "active", "revoked"}]
  /\ ttl \in [Key -> 0 .. AuthTTL]
  /\ pc \in [Request -> {"idle", "cache", "database", "fill", "scope"}]
  /\ key \in [Request -> Key]
  /\ header \in [Request -> Header]
  /\ context \in [Request -> Header]
  /\ answer \in [Request -> {"none", "401", "403", "forwarded"}]
  /\ readAge \in [Request -> 0 .. MaxFill]
  /\ revokedFor \in [Key -> 0 .. Horizon]
  /\ asked \in [Request -> {"live", "revoked", "expired"}]

Init ==
  /\ row \in [Key -> {"absent", "active"}]
  /\ ttl = [k \in Key |-> 0]
  /\ pc = [r \in Request |-> "idle"]
  /\ key \in [Request -> Key]
  /\ header = [r \in Request |-> NoContext]
  /\ context = [r \in Request |-> NoContext]
  /\ answer = [r \in Request |-> "none"]
  /\ readAge = [r \in Request |-> 0]
  /\ revokedFor = [k \in Key |-> 0]
  /\ asked = [r \in Request |-> "live"]

-----------------------------------------------------------------------------
(* Authenticate, in the goroutine of a request.                            *)

(* A request arrives with a key and headers. *)
Present(r, k, h) ==
  /\ pc[r] = "idle"
  /\ pc' = [pc EXCEPT ![r] = "cache"]
  /\ key' = [key EXCEPT ![r] = k]
  /\ header' = [header EXCEPT ![r] = h]
  /\ answer' = [answer EXCEPT ![r] = "none"]
  /\ context' = [context EXCEPT ![r] = NoContext]
  /\ asked' = [asked EXCEPT ![r] =
                 IF row[k] # "revoked" THEN "live"
                 ELSE IF revokedFor[k] < Horizon THEN "revoked" ELSE "expired"]
  /\ UNCHANGED <<keyVars, ttl, readAge>>

CacheHitSliding(r) ==                             \* mutant of CacheHit
  /\ pc[r] = "cache"
  /\ ttl[key[r]] > 0
  /\ ttl' = [ttl EXCEPT ![key[r]] = AuthTTL]
  /\ pc' = [pc EXCEPT ![r] = "scope"]
  /\ UNCHANGED <<keyVars, key, header, context, answer, readAge, asked>>

(* redis.Get finds an entry: the row is not read again. *)
CacheHit(r) ==
  /\ pc[r] = "cache"
  /\ ttl[key[r]] > 0
  /\ pc' = [pc EXCEPT ![r] = "scope"]
  /\ UNCHANGED <<keyVars, ttl, key, header, context, answer, readAge, asked>>

(* No entry; or Redis fails, and any error counts as a miss. *)
CacheMiss(r) ==
  /\ pc[r] = "cache"
  /\ pc' = [pc EXCEPT ![r] = "database"]
  /\ UNCHANGED <<keyVars, ttl, key, header, context, answer, readAge, asked>>

RowFound(r) ==
  /\ pc[r] = "database"
  /\ row[key[r]] = "active"
  /\ pc' = [pc EXCEPT ![r] = "fill"]
  /\ readAge' = [readAge EXCEPT ![r] = 0]
  /\ UNCHANGED <<keyVars, ttl, key, header, context, answer, asked>>

RowNotFound(r) ==
  /\ pc[r] = "database"
  /\ row[key[r]] # "active"
  /\ pc' = [pc EXCEPT ![r] = "idle"]
  /\ answer' = [answer EXCEPT ![r] = "401"]
  /\ UNCHANGED <<keyVars, ttl, key, header, context, readAge, asked>>

(* redis.Set, whose error is ignored. *)
Fill(r) ==
  /\ pc[r] = "fill"
  /\ ttl' \in {ttl, [ttl EXCEPT ![key[r]] = AuthTTL]}
  /\ pc' = [pc EXCEPT ![r] = "scope"]
  /\ readAge' = [readAge EXCEPT ![r] = 0]
  /\ UNCHANGED <<keyVars, key, header, context, answer, asked>>

TenantAllowed(h, k) == h.tenant \in {None, KeyTenant[k]}
AgentAllowed(h, k) == KeyAgent[k] = None \/ h.agent \in {None, KeyAgent[k]}

AgentNotScoped(h, k) ==                           \* mutant of ContextFor
  [tenant |-> KeyTenant[k], agent |-> h.agent]

(* What the handlers behind Authenticate see. *)
ContextFor(h, k) ==
  [tenant |-> KeyTenant[k],
   agent  |-> IF KeyAgent[k] = None THEN h.agent ELSE KeyAgent[k]]

Forward(r) ==
  /\ pc[r] = "scope"
  /\ TenantAllowed(header[r], key[r])
  /\ AgentAllowed(header[r], key[r])
  /\ pc' = [pc EXCEPT ![r] = "idle"]
  /\ answer' = [answer EXCEPT ![r] = "forwarded"]
  /\ context' = [context EXCEPT ![r] = ContextFor(header[r], key[r])]
  /\ UNCHANGED <<keyVars, ttl, key, header, readAge, asked>>

Forbid(r) ==
  /\ pc[r] = "scope"
  /\ ~(TenantAllowed(header[r], key[r]) /\ AgentAllowed(header[r], key[r]))
  /\ pc' = [pc EXCEPT ![r] = "idle"]
  /\ answer' = [answer EXCEPT ![r] = "403"]
  /\ UNCHANGED <<keyVars, ttl, key, header, context, readAge, asked>>

-----------------------------------------------------------------------------
(* The admin server.                                                       *)

CreateKey(k) ==
  /\ row[k] = "absent"
  /\ row' = [row EXCEPT ![k] = "active"]
  /\ UNCHANGED <<revokedFor, ttl, pc, key, header, context, answer, readAge, asked>>

(* Revoking a key that is not active changes nothing.                      *)
RevokeKey(k) ==
  /\ row[k] = "active"
  /\ row' = [row EXCEPT ![k] = "revoked"]
  /\ UNCHANGED <<revokedFor, ttl, pc, key, header, context, answer, readAge, asked>>

(* Deleting a tenant soft-deletes all its keys in one statement. *)
DeleteTenantKeys(t) ==
  /\ row' = [k \in Key |-> IF KeyTenant[k] = t /\ row[k] = "active"
                           THEN "revoked" ELSE row[k]]
  /\ UNCHANGED <<revokedFor, ttl, pc, key, header, context, answer, readAge, asked>>

(* Redis evicts an entry, or restarts empty. *)
LoseEntry(k) ==
  /\ ttl[k] > 0
  /\ ttl' = [ttl EXCEPT ![k] = 0]
  /\ UNCHANGED <<keyVars, pc, key, header, context, answer, readAge, asked>>

(* Time passes, but not past a request that is about to write its entry. *)
Tick ==
  /\ \A r \in Request : pc[r] = "fill" => readAge[r] < MaxFill
  /\ ttl' = [k \in Key |-> IF ttl[k] > 0 THEN ttl[k] - 1 ELSE 0]
  /\ readAge' = [r \in Request |->
                   IF pc[r] = "fill" THEN readAge[r] + 1 ELSE readAge[r]]
  /\ revokedFor' = [k \in Key |->
                      IF row[k] = "revoked" /\ revokedFor[k] < Horizon
                      THEN revokedFor[k] + 1 ELSE revokedFor[k]]
  /\ UNCHANGED <<row, pc, key, header, context, answer, asked>>

-----------------------------------------------------------------------------
Next ==
  \/ \E r \in Request :
       \/ \E k \in Key, h \in Header : Present(r, k, h)
       \/ CacheHit(r) \/ CacheMiss(r)
       \/ RowFound(r) \/ RowNotFound(r)
       \/ Fill(r)
       \/ Forward(r) \/ Forbid(r)
  \/ \E k \in Key : CreateKey(k) \/ RevokeKey(k) \/ LoseEntry(k)
  \/ \E t \in Tenant : DeleteTenantKeys(t)
  \/ Tick

Spec == Init /\ [][Next]_vars

-----------------------------------------------------------------------------
(***************************************************************************)
(* A revoked key goes on being accepted from the cache, and an entry may   *)
(* even be written after the revocation by a request that read the row     *)
(* before it.  It is refused at the latest AuthTTL + MaxFill ticks after   *)
(* the revocation: no request that presents it later gets past the lookup. *)
(***************************************************************************)
RefusedAfterTTL ==
  \A r \in Request :
    asked[r] = "expired" =>
      pc[r] \notin {"fill", "scope"} /\ answer[r] \notin {"403", "forwarded"}

(***************************************************************************)
(* A forwarded request acts for the tenant of its key and, if the key is   *)
(* scoped, for the key's agent, whichever headers it sent and whether the  *)
(* key came from the cache or the database (docs/integration.md:96, "This  *)
(* prevents one key from impersonating another agent").                    *)
(***************************************************************************)
ActsForItsKey ==
  \A r \in Request :
    answer[r] = "forwarded" =>
      /\ context[r].tenant = KeyTenant[key[r]]
      /\ KeyAgent[key[r]] # None => context[r].agent = KeyAgent[key[r]]

(***************************************************************************)
(* docs/api-keys.md:53: "Revoked keys immediately stop working - all       *)
(* requests using that key return 401 Unauthorized."  Requests that arrive *)
(* after the revocation are still forwarded from the cache.                *)
(***************************************************************************)
RevokedIsRefusedAtOnce ==
  \A r \in Request : answer[r] = "forwarded" => asked[r] = "live"

(***************************************************************************)
(* docs/api-keys.md:69: "If the key is agent-scoped, the X-Agent-Id header *)
(* is ignored - the key's agent is always used."  A request whose tenant   *)
(* header is in order is refused for its agent header.                     *)
(***************************************************************************)
AgentHeaderIgnored ==
  \A r \in Request :
    answer[r] = "403" => ~TenantAllowed(header[r], key[r])
=============================================================================
