------------------------------- MODULE Router -------------------------------
(***************************************************************************)
(* The upstream router that the proxy and the admin server share           *)
(* (backend/internal/router), driven by the requests of the proxy          *)
(* (backend/internal/proxy/handlers.go).                                   *)
(*                                                                         *)
(* Every request is a goroutine.  Pick holds the router's read lock while  *)
(* it asks one endpoint after the other whether it is available; results   *)
(* of other requests are recorded in between, under the breakers' own      *)
(* locks only.  Add and Remove take the write lock.  A request keeps the   *)
(* pointer Pick gave it for as long as the upstream call lasts, so its     *)
(* result may reach a breaker that has changed since, or an endpoint that  *)
(* has been removed.                                                       *)
(*                                                                         *)
(* Abstracted: the scores.  They are read while other requests change      *)
(* them, several times per comparison of the sort, so Pick may return any  *)
(* candidate (Choose); the order of the endpoint list, which only breaks   *)
(* ties of the scores; the wording of requests and responses.              *)
(***************************************************************************)
EXTENDS CircuitBreaker

CONSTANTS
  Tenant,          \* tenant ids
  KeyID,           \* ids of upstream credentials
  Model,           \* model names
  Request,         \* goroutines that serve proxy requests
  Endpoint,        \* the objects newEndpoint may return, each at most once
  Config,          \* Config[e] is the UpstreamConfig that e is built from
  NoEndpoint       \* the nil endpoint of a request that has not picked

ASSUME RouterAssumption ==
  /\ Config \in [Endpoint -> [tenant : Tenant, keyID : KeyID, model : Model]]
  /\ NoEndpoint \notin Endpoint

VARIABLES
  built,           \* endpoints that newEndpoint has returned so far
  endpoints,       \* the router's list, as a set
  breaker,         \* breaker[e]: the circuit breaker of e
  pc,              \* where a request stands
  want,            \* want[r]: the tenant and model r asks for
  toScan,          \* endpoints of the list that r's Pick still has to ask
  candidates,      \* endpoints that said they were available to r
  picked,          \* picked[r]: the endpoint r calls
  streak           \* history: failures of e since its last success, saturated

routerVars == <<built, endpoints>>
requestVars == <<pc, want, toScan, candidates, picked>>
vars == <<routerVars, requestVars, breaker, streak>>

Wanted == [tenant : Tenant, model : Model]

TypeOK ==
  /\ built \subseteq Endpoint
  /\ endpoints \subseteq built
  /\ breaker \in [Endpoint -> Breaker]
  /\ pc \in [Request -> {"idle", "picking", "calling"}]
  /\ want \in [Request -> Wanted]
  /\ toScan \in [Request -> SUBSET Endpoint]
  /\ candidates \in [Request -> SUBSET Endpoint]
  /\ picked \in [Request -> Endpoint \cup {NoEndpoint}]
  /\ streak \in [Endpoint -> 0 .. FailThreshold]

(* router.New: the list holds the upstreams the database held at start-up. *)
Init ==
  /\ built \in SUBSET Endpoint
  /\ endpoints = built
  /\ breaker = [e \in Endpoint |-> NewBreaker]
  /\ pc = [r \in Request |-> "idle"]
  /\ want \in [Request -> Wanted]
  /\ toScan = [r \in Request |-> {}]
  /\ candidates = [r \in Request |-> {}]
  /\ picked = [r \in Request |-> NoEndpoint]
  /\ streak = [e \in Endpoint |-> 0]

-----------------------------------------------------------------------------
(* Pick, in the goroutine of a request.                                    *)

MatchesModel(e, w) == Config[e].model = w.model  \* mutant of Matches

Matches(e, w) == Config[e].tenant = w.tenant /\ Config[e].model = w.model

(* RLock.  Endpoints of other tenants and models are passed over without a *)
(* look at their breaker.                                                  *)
Begin(r) ==
  /\ pc[r] = "idle"
  /\ pc' = [pc EXCEPT ![r] = "picking"]
  /\ \E w \in Wanted :
       /\ want' = [want EXCEPT ![r] = w]
       /\ toScan' = [toScan EXCEPT ![r] = {e \in endpoints : Matches(e, w)}]
  /\ UNCHANGED <<routerVars, breaker, streak, candidates, picked>>

(* One round of Pick's loop: e.Available(), under e's breaker lock. *)
Scan(r, e) ==
  /\ pc[r] = "picking"
  /\ e \in toScan[r]
  /\ toScan' = [toScan EXCEPT ![r] = @ \ {e}]
  /\ breaker' = [breaker EXCEPT ![e] = AfterAvailable(@)]
  /\ candidates' = IF Available(breaker[e])
                   THEN [candidates EXCEPT ![r] = @ \cup {e}]
                   ELSE candidates
  /\ UNCHANGED <<routerVars, streak, pc, want, picked>>

(* The sort by live scores leaves some candidate in front; RUnlock. *)
Choose(r) ==
  /\ pc[r] = "picking"
  /\ toScan[r] = {}
  /\ \E e \in candidates[r] : picked' = [picked EXCEPT ![r] = e]
  /\ candidates' = [candidates EXCEPT ![r] = {}]
  /\ pc' = [pc EXCEPT ![r] = "calling"]
  /\ UNCHANGED <<routerVars, breaker, streak, want, toScan>>

(* ErrNoEndpoint: the proxy answers 503. *)
Refuse(r) ==
  /\ pc[r] = "picking"
  /\ toScan[r] = {}
  /\ candidates[r] = {}
  /\ pc' = [pc EXCEPT ![r] = "idle"]
  /\ UNCHANGED <<routerVars, breaker, streak, want, toScan, candidates, picked>>

-----------------------------------------------------------------------------
(* The rest of the proxy handler.  The upstream call takes any time: the   *)
(* HTTP client has no timeout of its own.                                  *)

Leave(r) ==
  /\ pc[r] = "calling"
  /\ pc' = [pc EXCEPT ![r] = "idle"]
  /\ picked' = [picked EXCEPT ![r] = NoEndpoint]
  /\ UNCHANGED <<routerVars, want, toScan, candidates>>

(* The upstream answered below 500: endpoint.RecordSuccess. *)
Succeed(r) ==
  /\ Leave(r)
  /\ breaker' = [breaker EXCEPT ![picked[r]] = RecordSuccess(@)]
  /\ streak' = [streak EXCEPT ![picked[r]] = 0]

(* The upstream answered 5xx, or the call failed; the latter also happens  *)
(* when the client goes away, since the call carries the client's context. *)
Fail(r) ==
  /\ Leave(r)
  /\ breaker' = [breaker EXCEPT ![picked[r]] = RecordFailure(@)]
  /\ streak' = [streak EXCEPT ![picked[r]] =
                  IF @ < FailThreshold THEN @ + 1 ELSE @]

(* The handler returns without recording a result: the upstream request    *)
(* could not be built, or an output guardrail blocked the response.        *)
Abandon(r) ==
  /\ Leave(r)
  /\ UNCHANGED <<breaker, streak>>

-----------------------------------------------------------------------------
(* The admin server changes the list, and time passes.                     *)

(* No reader holds the lock. *)
Unlocked == \A r \in Request : pc[r] # "picking"

(* A new object with a fresh breaker, even for a key that was here before. *)
Add(e) ==
  /\ Unlocked
  /\ e \notin built
  /\ built' = built \cup {e}
  /\ endpoints' = endpoints \cup {e}
  /\ UNCHANGED <<requestVars, breaker, streak>>

RemoveUnlocked(t, k) ==                           \* mutant of Remove
  /\ endpoints' = {e \in endpoints : ~(Config[e].tenant = t /\ Config[e].keyID = k)}
  /\ UNCHANGED <<built, requestVars, breaker, streak>>

Remove(t, k) ==
  /\ Unlocked
  /\ endpoints' = {e \in endpoints : ~(Config[e].tenant = t /\ Config[e].keyID = k)}
  /\ UNCHANGED <<built, requestVars, breaker, streak>>

Tick ==
  /\ breaker' = [e \in Endpoint |-> Age(breaker[e])]
  /\ UNCHANGED <<routerVars, requestVars, streak>>

-----------------------------------------------------------------------------
Next ==
  \/ \E r \in Request :
       \/ Begin(r)
       \/ \E e \in Endpoint : Scan(r, e)
       \/ Choose(r) \/ Refuse(r)
       \/ Succeed(r) \/ Fail(r) \/ Abandon(r)
  \/ \E e \in Endpoint : Add(e)
  \/ \E t \in Tenant, k \in KeyID : Remove(t, k)
  \/ Tick

Spec == Init /\ [][Next]_vars

(***************************************************************************)
(* Goroutines that can run do run, and time passes.  Nothing is assumed of *)
(* the environment: an upstream may never answer (the client has no        *)
(* timeout), and clients may stop asking.                                  *)
(***************************************************************************)
Fairness ==
  /\ WF_vars(Tick)
  /\ \A r \in Request :
       /\ WF_vars(\E e \in Endpoint : Scan(r, e))
       /\ WF_vars(Choose(r) \/ Refuse(r))

FairSpec == Spec /\ Fairness

-----------------------------------------------------------------------------
(***************************************************************************)
(* Whatever the order in which results of old and new requests arrive, a   *)
(* breaker is closed exactly when fewer than FailThreshold failures        *)
(* followed the last success, and while it is closed its counter is the    *)
(* length of that row: no result is counted twice or forgotten across      *)
(* open and half-open phases.                                              *)
(***************************************************************************)
BreakerTracksStreak ==
  \A e \in Endpoint :
    /\ breaker[e].state = "CLOSED" <=> streak[e] < FailThreshold
    /\ breaker[e].state = "CLOSED" => breaker[e].failures = streak[e]

(***************************************************************************)
(* A request that is picking sees the list as it was when it took the read *)
(* lock: it never returns an endpoint that Remove has taken off the list   *)
(* before the pick ends.  (docs/upstreams.md:59, "The router immediately   *)
(* stops routing to it.")                                                  *)
(***************************************************************************)
PickSeesTheList ==
  \A r \in Request : toScan[r] \cup candidates[r] \subseteq endpoints

(* A request only ever uses upstream credentials of its own tenant, for    *)
(* the model it asked for, through every change of the list.               *)
TenantIsolation ==
  \A r \in Request :
    \A e \in candidates[r] \cup ({picked[r]} \ {NoEndpoint}) :
      /\ Config[e].tenant = want[r].tenant
      /\ Config[e].model = want[r].model

(***************************************************************************)
(* The router implements the promise of EndpointHealth: an endpoint cools  *)
(* down for as long as its breaker is open and too young to be probed.     *)
(***************************************************************************)
CooldownOf(b) == IF b.state = "OPEN" THEN ProbeInterval - b.elapsed ELSE 0

Health == INSTANCE EndpointHealth WITH
  cooldown <- [e \in Endpoint |-> CooldownOf(breaker[e])],
  users <- [e \in Endpoint |->
              {r \in Request : e \in candidates[r] \/ picked[r] = e}]

HealthSpec == Health!Spec

(***************************************************************************)
(* An outage is not for ever: as long as requests for its tenant and model *)
(* keep coming, an endpoint whose breaker is open or half-open and that    *)
(* stays on the list is offered to one of them again, even if the requests *)
(* that probed it never recorded a result, unless a late success has       *)
(* closed it before.                                                       *)
(***************************************************************************)
KeepAsking(e) ==
  []<>(\E r \in Request : pc[r] = "picking" /\ Matches(e, want[r]))

EventuallyRetried ==
  \A e \in Endpoint :
    KeepAsking(e) =>
      ((e \in endpoints /\ breaker[e].state # "CLOSED")
         ~> \/ \E r \in Request : e \in candidates[r]
            \/ e \notin endpoints
            \/ breaker[e].state = "CLOSED")

(***************************************************************************)
(* README.md:51 describes the breaker's life as the cycle                  *)
(* Closed -> Open -> Half-Open -> Closed (and MVP.md:100 adds that a       *)
(* failed probe goes back to Open).  The success of a request that was     *)
(* picked before the breaker opened takes it from Open straight to Closed. *)
(***************************************************************************)
BreakerCycle ==
  [][\A e \in Endpoint :
       breaker'[e].state # breaker[e].state =>
         <<breaker[e].state, breaker'[e].state>> \in
           {<<"CLOSED", "OPEN">>, <<"OPEN", "HALF-OPEN">>,
            <<"HALF-OPEN", "CLOSED">>, <<"HALF-OPEN", "OPEN">>}]_breaker
=============================================================================
