----------------------------- MODULE RouterPage -----------------------------
(***************************************************************************)
(* The Router page: the endpoints of all tenants are fetched under one key *)
(* and filtered, grouped by provider and sorted by score in the browser.   *)
(* The page fetches when it is opened and when its window gets the focus.  *)
(***************************************************************************)
EXTENDS Naturals, FiniteSets, Sequences, Functions

CONSTANTS Endpoints, Tenants,
          TenantOf, ProviderOf,
          MaxScore     \* bound: the best score

RouterPageAssumption ==
  /\ TenantOf \in [Endpoints -> Tenants] /\ DOMAIN ProviderOf = Endpoints
  /\ MaxScore \in Nat /\ IsFiniteSet(Endpoints)

States == {"CLOSED", "OPEN", "HALF-OPEN"}
Health == [circuitState : States, score : 0..MaxScore]

VARIABLES
  health,     \* the endpoints of the gateway's router, with their health
  data,       \* the cached answer
  asked,      \* a fetch is under way
  tenantId    \* the tenant in scope

vars == <<health, data, asked, tenantId>>

Answers == UNION {[S -> Health] : S \in SUBSET Endpoints}

TypeOK ==
  /\ health \in Answers /\ data \in Answers
  /\ asked \in BOOLEAN /\ tenantId \in Tenants

----------------------------------------------------------------------------
Shown == {e \in DOMAIN data : TenantOf[e] = tenantId}

ProvidersShown == {ProviderOf[e] : e \in Shown}
Grouped(p) == {e \in Shown : ProviderOf[e] = p}

Table(p) == CHOOSE s \in Injection(1..Cardinality(Grouped(p)), Grouped(p)) :
              \A k, l \in DOMAIN s : k < l => data[s[k]].score >= data[s[l]].score

Count(state) == Cardinality({e \in Shown : data[e].circuitState = state})

\* A new endpoint, or one that was added again, starts healthy and unmeasured.
InitialHealth == [circuitState |-> "CLOSED", score |-> 0]

----------------------------------------------------------------------------
HealthChanges(e, h) ==
  /\ e \in DOMAIN health /\ health[e] # h
  /\ health' = [health EXCEPT ![e] = h]
  /\ UNCHANGED <<data, asked, tenantId>>

AddEndpoint(e) ==
  /\ e \notin DOMAIN health
  /\ health' = [f \in DOMAIN health \cup {e} |-> IF f = e THEN InitialHealth ELSE health[f]]
  /\ UNCHANGED <<data, asked, tenantId>>

RemoveEndpoint(e) ==
  /\ e \in DOMAIN health
  /\ health' = Restrict(health, DOMAIN health \ {e})
  /\ UNCHANGED <<data, asked, tenantId>>

TenantChanges(t) ==
  /\ tenantId' = t
  /\ UNCHANGED <<health, data, asked>>

Focus ==
  /\ ~asked
  /\ asked' = TRUE
  /\ UNCHANGED <<health, data, tenantId>>

Answered ==
  /\ asked
  /\ asked' = FALSE
  /\ data' = health
  /\ UNCHANGED <<health, tenantId>>

\* A failed fetch leaves what was shown.
Fails ==
  /\ asked
  /\ asked' = FALSE
  /\ UNCHANGED <<health, data, tenantId>>

Init ==
  /\ \E S \in SUBSET Endpoints : health = [e \in S |-> InitialHealth]
  /\ data = <<>> /\ asked = TRUE
  /\ tenantId \in Tenants

Next ==
  \/ \E e \in Endpoints : \/ AddEndpoint(e) \/ RemoveEndpoint(e)
                          \/ \E h \in Health : HealthChanges(e, h)
  \/ \E t \in Tenants : TenantChanges(t)
  \/ Focus \/ Answered \/ Fails

\* A fetch is answered; nothing obliges the user to look at the window.
Spec == Init /\ [][Next]_vars /\ WF_vars(Answered)

----------------------------------------------------------------------------
Rows(p) == {Table(p)[k] : k \in DOMAIN Table(p)}

\* The tables hold the known endpoints of the tenant in scope, each once, with
\* the best first, and nothing of another tenant, although the answer holds all
\* tenants and the tenant changes without a fetch; the counters above them add
\* up to the rows below (Router.tsx:50-58, 82-84, 93-120).
TablesOfTenant ==
  /\ UNION {Rows(p) : p \in ProvidersShown} = {e \in DOMAIN data : TenantOf[e] = tenantId}
  /\ \A p \in ProvidersShown : Len(Table(p)) = Cardinality(Grouped(p))
  /\ \A s \in States : Count(s) =
       Cardinality({e \in UNION {Rows(p) : p \in ProvidersShown} : data[e].circuitState = s})

\* After any answer and any change of tenant, a row's score is not below that of
\* a later row of its table.
BestFirst ==
  \A p \in ProvidersShown : \A k, l \in DOMAIN Table(p) :
    k < l => data[Table(p)[k]].score >= data[Table(p)[l]].score

\* "The Router page shows live health metrics for all LLM endpoints"
\* (docs/router.md:3): a circuit that stays open is shown as open at last.
LiveMetrics ==
  \A e \in Endpoints :
    LET open  == e \in DOMAIN health /\ health[e].circuitState = "OPEN" /\ tenantId = TenantOf[e]
        shown == e \in Shown /\ data[e].circuitState = "OPEN"
    IN  open ~> (shown \/ ~open)
=============================================================================
