----------------------------- MODULE MCProgress -----------------------------
(***************************************************************************)
(* What must happen eventually, for TLC: the parts of the system that are  *)
(* promised to go on, each in a small instance and under the fairness its  *)
(* module states.  The parts share no variable; one of them moves in a     *)
(* behaviour, and fairness is assumed of the part that moves.              *)
(***************************************************************************)
EXTENDS Router, TLC

CONSTANTS Parts,   \* the parts that may move
          None, NoToken, NoUser, acme, ann, root, g, t1, r1

VARIABLES
  moving,
  row, task, work, posts, delay, received, verdict,                  \* AsyncTask
  standing, member, url, loaded, token, authed, query, signingIn,
  creating, others, clean, landings, consumed,                       \* ConsoleSession
  handler, api, gone, candidate, open, status, body, heads, refused,
  sent, delivered, circuit, failing,                                 \* RequestPipeline
  store, login, redeemed, callback, state, user, people, identities,
  failures, takers, entered, sessions,                               \* OidcLogin
  tenants, deleting, calls, form, list, stale, maker, told,          \* TenantCreation
  attempt, stage, channel, result, said, session, of, asked, at, saw,  \* CliLogin
  model, cached, ttl, check, text, answer, waited, judged, age       \* VerdictCache

taskVars    == <<row, task, work, posts, delay, received, verdict>>
sessionVars == <<standing, member, url, loaded, token, authed, query, signingIn,
                 creating, others, clean, landings, consumed>>
proxyVars   == <<handler, api, gone, candidate, open, status, body, heads, refused,
                 sent, delivered, circuit, failing>>
oidcVars    == <<store, login, redeemed, callback, state, user, people, identities,
                 failures, takers, entered, sessions>>
tenantVars  == <<tenants, deleting, calls, form, list, stale, maker, told>>
cliVars     == <<attempt, stage, channel, result, said, session, of, asked, at, saw>>
verdictVars == <<model, cached, ttl, check, text, answer, waited, judged, age>>

(* One credential, whose upstream is removed and added again. *)
Readded == [e \in Endpoint |-> [tenant |-> acme, keyID |-> "key", model |-> "chat"]]

(* Default numbers of attempts and delays, nothing fails but the receiver. *)
Tasks == INSTANCE AsyncTask
  WITH Task <- {1, 2}, MaxAttempts <- 4, BackoffLen <- 4, DbFails <- FALSE,
       Crashes <- FALSE, pc <- work, attempt <- posts

Issued == [t \in {t1} |-> ann]
Sessions == INSTANCE ConsoleSession
  WITH Users <- {ann}, Tokens <- {t1}, Owner <- Issued, Tenants <- {1}, Retries <- 1,
       list <- query, login <- signingIn

Requests == INSTANCE RequestPipeline
  WITH Request <- {r1}, Detector <- TRUE, ProbeInterval <- 1, pc <- handler,
       breaker <- circuit, streak <- failing

(* One account, two callbacks, one login at a time. *)
Address == [a \in {g} |-> "alice"]
Logins == INSTANCE OidcLogin
  WITH State <- {"state"}, Callback <- {"c1", "c2"}, Account <- {g}, Email <- Address,
       User <- {1, 2}, MaxFailures <- 1, pc <- callback, users <- people

(* A user and a super-admin, who want the same name. *)
Creation == INSTANCE TenantCreation
  WITH Users <- {ann, root}, SuperAdmins <- {root}, Names <- {acme}, Slots <- {1, 2},
       CanFail <- FALSE, CanDelete <- FALSE

Cli == INSTANCE CliLogin
  WITH Tabs <- {"b1", "b2"}, MaxLogins <- 2, told <- said, query <- asked

Verdicts == INSTANCE VerdictCache
  WITH Text <- {"text"}, Request <- {r1}, CacheTTL <- 1, CallTimeout <- 1, pc <- check,
       result <- answer, verdict <- judged, since <- age

SomeWant == [r \in Request |-> [tenant |-> acme, model |-> "chat"]]

MCInit ==
  /\ moving \in Parts
  /\ Init          /\ (moving # "router" => built = {} /\ want = SomeWant)
  /\ Tasks!Init    /\ Requests!Init /\ Logins!Init /\ Creation!Init
  /\ Sessions!Init /\ (moving # "session" => member = [u \in {ann} |-> {}])
  /\ Cli!Init
  /\ Verdicts!Init /\ (moving # "verdicts" => model = [t \in {"text"} |-> "safe"])

MCNext ==
  \/ moving = "router" /\ Next
     /\ UNCHANGED <<moving, taskVars, sessionVars, proxyVars, oidcVars,
                    tenantVars, cliVars, verdictVars>>
  \/ moving = "tasks" /\ Tasks!Next
     /\ UNCHANGED <<moving, vars, sessionVars, proxyVars, oidcVars,
                    tenantVars, cliVars, verdictVars>>
  \/ moving = "session" /\ Sessions!Next
     /\ UNCHANGED <<moving, vars, taskVars, proxyVars, oidcVars, tenantVars, cliVars, verdictVars>>
  \/ moving = "proxy" /\ Requests!Next
     /\ UNCHANGED <<moving, vars, taskVars, sessionVars, oidcVars,
                    tenantVars, cliVars, verdictVars>>
  \/ moving = "oidc" /\ Logins!Next
     /\ UNCHANGED <<moving, vars, taskVars, sessionVars, proxyVars,
                    tenantVars, cliVars, verdictVars>>
  \/ moving = "tenants" /\ Creation!Next
     /\ UNCHANGED <<moving, vars, taskVars, sessionVars, proxyVars, oidcVars, cliVars, verdictVars>>
  \/ moving = "cli" /\ Cli!Next
     /\ UNCHANGED <<moving, vars, taskVars, sessionVars, proxyVars,
                    oidcVars, tenantVars, verdictVars>>
  \/ moving = "verdicts" /\ Verdicts!Next
     /\ UNCHANGED <<moving, vars, taskVars, sessionVars, proxyVars, oidcVars, tenantVars, cliVars>>

all == <<moving, vars, taskVars, sessionVars, proxyVars, oidcVars, tenantVars, cliVars,
         verdictVars>>

-----------------------------------------------------------------------------
(***************************************************************************)
(* The fairness of each module, for the part that moves.                   *)
(***************************************************************************)
MCFairness ==
  /\ WF_vars(moving = "router" /\ Tick)
  /\ \A r \in Request : /\ WF_vars(moving = "router" /\ \E e \in Endpoint : Scan(r, e))
                        /\ WF_vars(moving = "router" /\ (Choose(r) \/ Refuse(r)))
  /\ \A t \in {1, 2} : WF_taskVars(moving = "tasks" /\ Tasks!Work(t))
  /\ WF_sessionVars(moving = "session" /\ \E s \in {0, 200, 401} : Sessions!TenantsAnswered(s))
  /\ WF_sessionVars(moving = "session" /\ Sessions!Retry)
  /\ WF_proxyVars(moving = "proxy" /\ Requests!Compute(r1))
  /\ WF_proxyVars(moving = "proxy" /\ Requests!Judge(r1))
  /\ WF_proxyVars(moving = "proxy" /\ Requests!Cancel(r1))
  /\ \A c \in {"c1", "c2"} : WF_oidcVars(moving = "oidc" /\ Logins!Run(c))
  /\ \A s \in {1, 2} : WF_tenantVars(moving = "tenants" /\ Creation!Step(s))
  /\ \A u \in {ann, root} : WF_tenantVars(moving = "tenants" /\ stale[u] /\ Creation!ShowList(u))
  /\ WF_cliVars(moving = "cli" /\ Cli!Take)     /\ WF_cliVars(moving = "cli" /\ Cli!Expire)
  /\ WF_cliVars(moving = "cli" /\ Cli!Shutdown) /\ WF_cliVars(moving = "cli" /\ Cli!Exit)
  /\ \A t \in {"b1", "b2"} : /\ WF_cliVars(moving = "cli" /\ Cli!Send(t))
                             /\ WF_cliVars(moving = "cli" /\ Cli!Reply(t))
  /\ WF_verdictVars(moving = "verdicts" /\ (Verdicts!CacheHit(r1) \/ Verdicts!CacheMiss(r1)))
  /\ WF_verdictVars(moving = "verdicts" /\ Verdicts!Failed(r1))
  /\ WF_verdictVars(moving = "verdicts" /\ (Verdicts!Store(r1) \/ Verdicts!StoreFails(r1)))

MCSpec == MCInit /\ [][MCNext]_all /\ MCFairness

-----------------------------------------------------------------------------
(***************************************************************************)
(* Nobody is kept out: the loading screen is left (App.tsx:90-96), who     *)
(* keeps coming back from the provider gets in (handlers.go:155-294), and  *)
(* who made a tenant gets to the console (Onboarding.tsx:45-78).           *)
(***************************************************************************)
PeopleGetIn ==
  Sessions!LoadingEnds /\ Logins!ReturningGetsIn /\ Creation!OnboardedSeesConsole

(***************************************************************************)
(* What is waited for ends: a task gets its result and its webhook its     *)
(* verdict (dispatcher.go:91-256), the request of a client that went away    *)
(* its end (proxy/server.go:48), a check its verdict (client.go), and    *)
(* the command its terminal (loopback.go:44-90).                           *)
(***************************************************************************)
WaitsEnd ==
  /\ Tasks!EveryTaskSettles /\ Requests!AbandonedRequestEnds /\ Verdicts!CheckEnds
  /\ Cli!CommandReturns
=============================================================================
