----------------------------- MODULE ConsoleNav -----------------------------
(***************************************************************************)
(* The frame of the admin console: the tenant and the agent in scope, the  *)
(* page shown, the sidebar that chooses among them, and the Tenants page   *)
(* with its deletions, which change the tenant under every other page.     *)
(***************************************************************************)
EXTENDS Naturals, FiniteSets

CONSTANTS Tenants, Agents,
          TenantOf,     \* the tenant an agent was registered in
          None

NavAssumption ==
  /\ TenantOf \in [Agents -> Tenants]
  /\ None \notin Tenants /\ None \notin Agents /\ "all" \notin Agents

VARIABLES
  tenants,       \* the tenants the gateway lists for the user
  list,          \* the list as last fetched, and its first element
  signedIn, isSuperAdmin,
  page, activeTenantId, selectedAgent,
  agents,        \* the cached agent lists, None if there is none
  fetching,      \* tenants whose agents are being fetched
  deleteConfirm, \* the tenant the confirmation dialog asks about
  awaited,       \* the deletion the Tenants page waits for
  sent,          \* deletions the gateway has not carried out
  moved          \* history: the scope has changed since the agent was chosen

gateway == <<tenants, sent>>
account == <<signedIn, isSuperAdmin>>
dialog  == <<deleteConfirm, awaited>>
cache   == <<agents, fetching>>
vars == <<gateway, list, account, page, activeTenantId, selectedAgent, cache, dialog, moved>>

Pages == {"router", "agents", "traces", "tenants"}
List  == [rows : SUBSET Tenants, first : Tenants \cup {None}]
ListOf(rows, first) == [rows |-> rows, first |-> IF rows = {} THEN None ELSE first]

TypeOK ==
  /\ tenants \subseteq Tenants /\ list \in List
  /\ signedIn \in BOOLEAN /\ isSuperAdmin \in BOOLEAN
  /\ page \in Pages
  /\ activeTenantId \in Tenants \cup {None}
  /\ selectedAgent \in Agents \cup {"all"}
  /\ agents \in [Tenants -> (SUBSET Agents) \cup {None}]
  /\ fetching \subseteq Tenants
  /\ deleteConfirm \in Tenants \cup {None} /\ awaited \in Tenants \cup {None}
  /\ sent \subseteq Tenants /\ moved \in BOOLEAN

----------------------------------------------------------------------------
\* The tenant in use: the chosen one if it is still listed, or the first.
ScopeOf(active, l) == IF active \in l.rows THEN active ELSE l.first
Scope == ScopeOf(activeTenantId, list)

\* Without tenants App shows the onboarding page instead of the console.
Console == signedIn /\ list.rows # {}
Modal   == deleteConfirm # None
Usable  == Console /\ ~Modal

AgentsKey(t) == t

Offered == IF agents[AgentsKey(Scope)] = None THEN {} ELSE agents[AgentsKey(Scope)]

NavItems ==
  IF isSuperAdmin \/ Cardinality(list.rows) > 1 THEN Pages ELSE Pages \ {"tenants"}

TrashEnabled   == isSuperAdmin /\ awaited = None
ConfirmEnabled == awaited = None

\* Leaving the Tenants page forgets its dialog and the deletion it waits for.
Shows(p) ==
  /\ page' = p
  /\ IF page = "tenants" /\ p # "tenants"
     THEN deleteConfirm' = None /\ awaited' = None
     ELSE UNCHANGED dialog

----------------------------------------------------------------------------
Navigate(p) ==
  /\ Usable /\ p \in NavItems
  /\ Shows(p)
  /\ UNCHANGED <<gateway, list, account, activeTenantId, selectedAgent, cache, moved>>

OnAgentChange(a) ==
  /\ Usable /\ a \in Offered \cup {"all"}
  /\ selectedAgent' = a /\ moved' = FALSE
  /\ UNCHANGED <<gateway, list, account, page, activeTenantId, cache, dialog>>

OnViewTraces(a) ==
  /\ Usable /\ page = "agents" /\ a \in Offered
  /\ selectedAgent' = a /\ moved' = FALSE
  /\ Shows("traces")
  /\ UNCHANGED <<gateway, list, account, activeTenantId, cache>>

OnTenantSelect(t) ==
  /\ Usable /\ page = "tenants" /\ t \in list.rows
  /\ activeTenantId' = t
  /\ moved' = (moved \/ ScopeOf(t, list) # Scope)
  /\ Shows("router")
  /\ UNCHANGED <<gateway, list, account, selectedAgent, cache>>

AskDelete(t) ==
  /\ Usable /\ page = "tenants" /\ t \in list.rows /\ TrashEnabled
  /\ deleteConfirm' = t
  /\ UNCHANGED <<gateway, list, account, page, activeTenantId, selectedAgent, cache, awaited, moved>>

CancelDelete ==
  /\ Console /\ Modal
  /\ deleteConfirm' = None
  /\ UNCHANGED <<gateway, list, account, page, activeTenantId, selectedAgent, cache, awaited, moved>>

HandleDelete ==
  /\ Console /\ Modal /\ ConfirmEnabled
  /\ awaited' = deleteConfirm
  /\ sent' = sent \cup {deleteConfirm}
  /\ UNCHANGED <<tenants, list, account, page, activeTenantId, selectedAgent, cache, deleteConfirm, moved>>

----------------------------------------------------------------------------
Deletes(t) ==
  /\ t \in sent
  /\ tenants' = tenants \ {t} /\ sent' = sent \ {t}
  /\ UNCHANGED <<list, account, page, activeTenantId, selectedAgent, cache, dialog, moved>>

\* The page that waited closes whatever it asks about.
Deleted ==
  /\ awaited # None /\ awaited \notin sent
  /\ awaited' = None /\ deleteConfirm' = None
  /\ UNCHANGED <<gateway, list, account, page, activeTenantId, selectedAgent, cache, moved>>

DeleteFails ==
  /\ awaited # None
  /\ awaited' = None
  /\ sent' = sent \ {awaited}
  /\ UNCHANGED <<tenants, list, account, page, activeTenantId, selectedAgent, cache, deleteConfirm, moved>>

Elsewhere(t) ==
  /\ tenants' = IF t \in tenants THEN tenants \ {t} ELSE tenants \cup {t}
  /\ UNCHANGED <<sent, list, account, page, activeTenantId, selectedAgent, cache, dialog, moved>>

\* The gateway's answer has no order.  Without a tenant left the onboarding
\* page takes the place of the console.
ListShown(first) ==
  /\ first \in tenants \/ tenants = {}
  /\ list' = ListOf(tenants, first)
  /\ moved' = (moved \/ ScopeOf(activeTenantId, list') # Scope)
  /\ IF tenants = {} THEN deleteConfirm' = None /\ awaited' = None ELSE UNCHANGED dialog
  /\ UNCHANGED <<gateway, account, page, activeTenantId, selectedAgent, cache>>

FetchAgents ==
  /\ Console
  /\ \A t \in fetching : AgentsKey(t) # AgentsKey(Scope)
  /\ fetching' = fetching \cup {Scope}
  /\ UNCHANGED <<gateway, list, account, page, activeTenantId, selectedAgent, agents, dialog, moved>>

\* The agents registered when the gateway read them.
AgentsAnswered(t) ==
  /\ t \in fetching
  /\ fetching' = fetching \ {t}
  /\ \E s \in SUBSET {a \in Agents : TenantOf[a] = t} :
       agents' = [agents EXCEPT ![AgentsKey(t)] = s]
  /\ UNCHANGED <<gateway, list, account, page, activeTenantId, selectedAgent, dialog, moved>>

\* App stays mounted: page, tenant and agent outlive the session.
SignOut ==
  /\ Usable
  /\ signedIn' = FALSE
  /\ deleteConfirm' = None /\ awaited' = None
  /\ UNCHANGED <<gateway, list, isSuperAdmin, page, activeTenantId, selectedAgent, cache, moved>>

SignIn ==
  /\ ~signedIn
  /\ signedIn' = TRUE /\ isSuperAdmin' \in BOOLEAN
  /\ UNCHANGED <<gateway, list, page, activeTenantId, selectedAgent, cache, dialog, moved>>

----------------------------------------------------------------------------
Init ==
  /\ tenants = Tenants
  /\ list \in {ListOf(Tenants, t) : t \in Tenants}
  /\ signedIn = TRUE /\ isSuperAdmin \in BOOLEAN
  /\ page = "router" /\ activeTenantId = None /\ selectedAgent = "all"
  /\ agents = [t \in Tenants |-> None] /\ fetching = {}
  /\ deleteConfirm = None /\ awaited = None /\ sent = {}
  /\ moved = FALSE

Next ==
  \/ \E p \in Pages : Navigate(p)
  \/ \E a \in Agents : OnViewTraces(a) \/ OnAgentChange(a)
  \/ OnAgentChange("all")
  \/ \E t \in Tenants : \/ OnTenantSelect(t) \/ AskDelete(t) \/ Deletes(t)
                        \/ Elsewhere(t) \/ ListShown(t) \/ AgentsAnswered(t)
  \/ CancelDelete \/ HandleDelete \/ Deleted \/ DeleteFails
  \/ FetchAgents \/ SignOut \/ SignIn

Spec == Init /\ [][Next]_vars

----------------------------------------------------------------------------
\* Agents of another tenant can only be in scope because the tenant changed
\* after they were chosen, whatever lists are still cached or on their way
\* (App.tsx:64-72, api/agents.ts:11-20).
AgentChosenInScope ==
  (Console /\ selectedAgent # "all" /\ ~moved) => TenantOf[selectedAgent] = Scope

\* The answer of a deletion closes no confirmation but its own, although a
\* dialog can be cancelled while its deletion is under way and the page left
\* and opened again (Tenants.tsx:43-46, 131, 198).
ConfirmationIsOwn ==
  (deleteConfirm # None /\ awaited # None) => deleteConfirm = awaited

\* "Everything you see below is scoped to the selected tenant"
\* (docs/getting-started.md:23).
AgentOfTenant ==
  (Console /\ selectedAgent # "all") => TenantOf[selectedAgent] = Scope
=============================================================================
