---------------------------- MODULE MCProxyKeys ----------------------------
(***************************************************************************)
(* Proxy keys for TLC: the gateway that admits them, and beside it the two *)
(* commands of the CLI that obtain a session and mint and cache keys, and  *)
(* the page that registers the agents keys are scoped to.  The parts share *)
(* no variable, so one of them moves in a behaviour, and the others stay   *)
(* where they start.                                                       *)
(***************************************************************************)
EXTENDS KeyAuth, TLC

CONSTANTS Parts,   \* the parts that may move
          scoped, acme, globex, bot, intruder, home, away,
          Gateways, Tenants, Procs, Tabs, Slots, Names,
          MaxLogins, MaxKeys

VARIABLES
  moving,
  attempt, stage, channel, result, told, session, of, query, at, saw,    \* CliLogin
  loggedIn, endpoint, default, visited, cached, owner, active, step,     \* CliKeys
  tenant, gateway, minted, out,
  tenantId, mounted, isOpen, newName, latest, calls, rows, list, failed,
  fetch, clicks, missed                                                  \* AgentRegistry

loginVars == <<attempt, stage, channel, result, told, session, of, query, at, saw>>
cliVars   == <<loggedIn, endpoint, default, visited, cached, owner, active, step,
               tenant, gateway, minted, out>>
agentVars == <<tenantId, mounted, isOpen, newName, latest, calls, rows, list, failed,
               fetch, clicks, missed>>

(* A key of acme that is scoped to the agent bot. *)
Owners == scoped :> acme
Scopes == scoped :> bot

(* The parts may use the same names for what is interchangeable in each. *)
Symmetry == Permutations(Request) \cup Permutations(Tenants)
            \cup Permutations(Procs) \cup Permutations(Gateways)

Login == INSTANCE CliLogin
Cli   == INSTANCE CliKeys WITH session <- loggedIn, at <- step, key <- minted
Agents == INSTANCE AgentRegistry

ASSUME LoginAssumption  == Login!LoginAssumption
ASSUME CliAssumption    == Cli!CliKeysAssumption
ASSUME AgentsAssumption == Agents!RegistryAssumption

(* Bounds of the CLI: the configuration names a tenant, and during a        *)
(* session its gateway, as commands read neither but where an override may  *)
(* replace it; behaviours end where a minted key is revoked, which no       *)
(* command notices, and where both commands have exported a key.            *)
Bounded ==
  moving = "keys" =>
    /\ default # None /\ loggedIn \in {None, endpoint}
    /\ \A k \in DOMAIN owner : owner[k] # None => k \in active
    /\ \A p, q \in Procs : out[p] # None /\ out[q] # None => p = q

MCInit ==
  /\ moving \in Parts
  /\ Init        /\ (moving # "auth" => row = (scoped :> "absent"))
  /\ Login!Init
  /\ Cli!Init    /\ (moving # "keys" => default = None)
  /\ Agents!Init /\ (moving # "agents" => tenantId = home)

MCNext ==
  \/ moving = "auth"   /\ Next        /\ UNCHANGED <<moving, loginVars, cliVars, agentVars>>
  \/ moving = "login"  /\ Login!Next  /\ UNCHANGED <<moving, vars, cliVars, agentVars>>
  \/ moving = "keys"   /\ Cli!Next    /\ UNCHANGED <<moving, vars, loginVars, agentVars>>
  \/ moving = "agents" /\ Agents!Next /\ UNCHANGED <<moving, vars, loginVars, cliVars>>

MCSpec == MCInit /\ [][MCNext]_<<moving, vars, loginVars, cliVars, agentVars>>

-----------------------------------------------------------------------------
(***************************************************************************)
(* The keyring holds the token of the login that stored it, and a terminal *)
(* that says "logged in" has been shown a page that does                   *)
(* (cli/internal/auth/loopback.go:44-90).                                  *)
(***************************************************************************)
StoredIsOwn == []Login!TypeOK /\ Login!StoredIsOwn /\ Login!LoggedInIsShown

(***************************************************************************)
(* aigw env exports a key that was minted for the tenant id it resolved,   *)
(* by its own gateway or one that a session was of before, whichever       *)
(* commands run at once (cli/internal/cmd/env.go:72-127).                  *)
(***************************************************************************)
ExportsOwnTenant == Cli!TypeOK /\ Cli!ExportsOwnTenant

(***************************************************************************)
(* Agents are registered where the dialog showed them and at most once a   *)
(* click, and a list nothing is on its way for is the table's              *)
(* (Agents.tsx:28-40, agents.ts:11-34).                                    *)
(***************************************************************************)
AgentsAsShown == Agents!TypeOK /\ Agents!RegisteredAsShown /\ Agents!QuietListIsTrue
=============================================================================
