---------------------------- MODULE MCUpstreams ----------------------------
(***************************************************************************)
(* Upstreams for TLC: the router with its circuit breakers, and beside it  *)
(* the handlers and the page that keep the table of provider keys, the     *)
(* signals of an endpoint, and the Router page.  The parts share no        *)
(* variable, so one of them moves in a behaviour, and the others stay      *)
(* where they start.                                                       *)
(***************************************************************************)
EXTENDS Router, TLC

CONSTANTS Parts,   \* the parts that may move
          acme, globex, k1, k2, chat, e1, e2, e3,            \* those of the run
          Labels, Providers, Models, ProviderOf, MaxRows, MaxCalls, None,   \* UpstreamConsole
          Values, WindowSize, MaxRecords,                    \* EndpointSignals
          Endpoints, TenantOf, VendorOf, MaxScore            \* RouterPage

VARIABLES
  moving,
  rows, nextId, served, deleting, left, call, list, form, latest,   \* UpstreamConsole
  crossed, emptied, retyped,                                 \* UpstreamConsole
  ttfts, tpss, errors, history,                              \* EndpointSignals
  health, data, asked, tenantId                              \* RouterPage

consoleVars == <<rows, nextId, served, deleting, left, call, list, form, latest,
                 crossed, emptied, retyped>>
signalVars  == <<ttfts, tpss, errors, history>>
pageVars    == <<health, data, asked, tenantId>>

(* Two credentials of one tenant, and one of another. *)
TenantPair == {acme, globex}
KeyPair == {k1, k2}
SharedModel == {chat}
Upstreams ==
  e1 :> [tenant |-> acme,   keyID |-> k1, model |-> chat] @@
  e2 :> [tenant |-> acme,   keyID |-> k2, model |-> chat] @@
  e3 :> [tenant |-> globex, keyID |-> k1, model |-> chat]
Symmetry == Permutations(Request)

(* Two providers with a model each. *)
Catalogue == [gpt |-> "openai", llama |-> "custom"]

(* Two endpoints of acme at one provider; globex has none. *)
AcmeOwns  == e1 :> acme @@ e2 :> acme
OneVendor == e1 :> "openai" @@ e2 :> "openai"

Console == INSTANCE UpstreamConsole WITH endpoints <- served
Signals == INSTANCE EndpointSignals
Page    == INSTANCE RouterPage WITH Tenants <- Tenant, ProviderOf <- VendorOf

ASSUME ConsoleAssumption == Console!UpstreamAssumption
ASSUME SignalsAssumption == Signals!SignalsAssumption
ASSUME PageAssumption    == Page!RouterPageAssumption

SomeWant == [r \in Request |-> [tenant |-> acme, model |-> chat]]
SomeRow  == [label |-> "prime", provider |-> "openai", models |-> {"gpt"}]

(* The two labels are interchangeable: a run of the console starts with a  *)
(* row of the first.  The console moves in two ways: with all its calls,   *)
(* or with one call beside deletions of the tenant.                        *)
PrimeFirst == \A r \in list : r.label = "prime"
ConsoleParts == {"console", "deletion"}
Bound == CASE moving = "console"  -> ~deleting
           [] moving = "deletion" -> \A c \in 2..MaxCalls : call[c].phase = "unused"
           [] OTHER -> TRUE

MCInit ==
  /\ moving \in Parts
  /\ Init         /\ (moving # "router" => built = {} /\ want = SomeWant)
  /\ Console!Init /\ PrimeFirst /\ (moving \notin ConsoleParts => list = {SomeRow})
  /\ Signals!Init
  /\ Page!Init    /\ (moving # "page" => health = <<>> /\ tenantId = acme)

MCNext ==
  \/ moving = "router"  /\ Next
     /\ UNCHANGED <<moving, consoleVars, signalVars, pageVars>>
  \/ moving \in ConsoleParts /\ Console!Next
     /\ UNCHANGED <<moving, vars, signalVars, pageVars>> /\ Bound'
  \/ moving = "signals" /\ Signals!Next
     /\ UNCHANGED <<moving, vars, consoleVars, pageVars>>
  \/ moving = "page"    /\ Page!Next
     /\ UNCHANGED <<moving, vars, consoleVars, signalVars>>

MCSpec == MCInit /\ [][MCNext]_<<moving, vars, consoleVars, signalVars, pageVars>>

-----------------------------------------------------------------------------
(***************************************************************************)
(* The router follows the table (UpstreamConsole): without overlapping     *)
(* handlers a label is routed as its row says, or, after an update that    *)
(* named no models, not at all; and a row never mixes the models of two    *)
(* providers, unless a client of the API changes the provider alone.       *)
(***************************************************************************)
InSync == Console!TypeOK /\ Console!InSync /\ Console!ModelsOfItsProvider

(***************************************************************************)
(* "The router immediately stops routing to it" (docs/upstreams.md:59).    *)
(***************************************************************************)
DeletedIsNotRouted == Console!DeletedIsNotRouted

(***************************************************************************)
(* The figures of the Router page are true: after any number of results    *)
(* the window of an endpoint holds the latest ones and its percentile is   *)
(* the one of exactly those (endpoint.go:86-134), and the page shows the   *)
(* endpoints of the tenant in scope, all of them and best first, whichever *)
(* answer it holds (Router.tsx:50-58, 82-120).                             *)
(***************************************************************************)
FiguresAreTrue ==
  /\ Signals!TypeOK /\ Signals!WindowHoldsLatest /\ Signals!PercentileOfLatest
  /\ Page!TypeOK    /\ Page!TablesOfTenant /\ Page!BestFirst
=============================================================================
