--------------------------- MODULE AgentRegistry ---------------------------
(***************************************************************************)
(* The Agents page of the admin console: the dialog that registers an      *)
(* agent, the list of agents that App keeps for the tenant in scope, and   *)
(* the two handlers behind them.                                           *)
(*                                                                         *)
(* The Register button stays enabled while a call is under way, a name may *)
(* be registered twice, the page hears of its latest call only, and that   *)
(* call takes over the tenant of the page when the tenant moves.           *)
(***************************************************************************)
EXTENDS Naturals, FiniteSets

CONSTANTS Tenants, Names,
          Slots,        \* bound: one call each
          None

\* tells: the tenant whose list a success invalidates.
Call == [name : Names, tenant : Tenants, tells : Tenants,
         at : {"sent", "done", "refused", "over"}]

RegistryAssumption ==
  IsFiniteSet(Slots) /\ None \notin Tenants \cup Names \cup Slots \cup Call

VARIABLES
  tenantId, mounted,    \* the tenant in scope, and whether the page is shown
  isOpen, newName,      \* the dialog and its draft
  latest,               \* the latest call of the mounted page
  calls,
  rows,                 \* rows[t][n]: the agents named n in the gateway's table
  list, failed,         \* the list as last fetched, and whether that failed
  fetch,                \* a list that is asked for, or is on its way
  clicks,               \* history: clicks[t][n]: Register with t and n shown
  missed                \* history: answers that did not reach a tenant's list

dialog  == <<mounted, isOpen, newName, latest>>
query   == <<list, failed, fetch>>
history == <<clicks, missed>>
vars == <<tenantId, dialog, calls, rows, query, history>>

AgentList == [Names -> 0..Cardinality(Slots)]
Empty     == [n \in Names |-> 0]
NoList    == [list |-> Empty, known |-> FALSE]
Known     == [list : AgentList, known : BOOLEAN]
Fetch     == [at : {"none", "sent"}, list : {Empty}] \cup [at : {"read"}, list : AgentList]

TypeOK ==
  /\ tenantId \in Tenants /\ mounted \in BOOLEAN /\ isOpen \in BOOLEAN
  /\ newName \in Names \cup {None} /\ latest \in Slots \cup {None}
  /\ calls \in [Slots -> Call \cup {None}]
  /\ rows \in [Tenants -> AgentList] /\ list \in [Tenants -> Known]
  /\ failed \in [Tenants -> BOOLEAN]
  /\ fetch \in [Tenants -> Fetch]
  /\ clicks \in [Tenants -> AgentList] /\ missed \subseteq Tenants

----------------------------------------------------------------------------
NoFetch == [at |-> "none", list |-> Empty]
Sent    == [at |-> "sent", list |-> Empty]

Registrable == isOpen /\ newName # None

One(f, t, n) == [f EXCEPT ![t][n] = @ + 1]
At(s, at)    == calls[s] # None /\ calls[s].at = at

\* A list that comes into view is fetched, unless it already is.
LooksAt(t) ==
  /\ fetch' = IF fetch[t].at = "none" THEN [fetch EXCEPT ![t] = Sent] ELSE fetch
  /\ missed' = IF fetch[t].at = "none" THEN missed \ {t} ELSE missed
  /\ UNCHANGED <<list, failed>>

\* onSuccess of the hook.  Only the list in view is fetched again; what is on
\* its way is given up for it when there is a list to show meanwhile.
Invalidate(t, told) ==
  IF told = tenantId /\ (fetch[told].at = "none" \/ list[told].known)
  THEN /\ fetch' = [fetch EXCEPT ![told] = Sent]
       /\ missed' = IF t = told THEN missed \ {t} ELSE (missed \ {told}) \cup {t}
       /\ UNCHANGED <<list, failed>>
  ELSE missed' = missed \cup {t} /\ UNCHANGED query

----------------------------------------------------------------------------
SetIsOpen(b) ==
  /\ mounted /\ isOpen # b
  /\ isOpen' = b
  /\ UNCHANGED <<tenantId, mounted, newName, latest, calls, rows, query, history>>

SetNewName(n) ==
  /\ mounted /\ isOpen /\ n # newName
  /\ newName' = n
  /\ UNCHANGED <<tenantId, mounted, isOpen, latest, calls, rows, query, history>>

HandleCreate(s) ==
  /\ mounted /\ Registrable /\ calls[s] = None
  /\ calls' = [calls EXCEPT ![s] =
       [name |-> newName, tenant |-> tenantId, tells |-> tenantId, at |-> "sent"]]
  /\ latest' = s
  /\ clicks' = One(clicks, tenantId, newName)
  /\ UNCHANGED <<tenantId, mounted, isOpen, newName, rows, query, missed>>

HandleCreateAgent(s) ==
  /\ At(s, "sent")
  /\ rows' = One(rows, calls[s].tenant, calls[s].name)
  /\ calls' = [calls EXCEPT ![s].at = "done"]
  /\ UNCHANGED <<tenantId, dialog, query, history>>

CreateFails(s) ==
  /\ At(s, "sent")
  /\ calls' = [calls EXCEPT ![s].at = "refused"]
  /\ UNCHANGED <<tenantId, dialog, rows, query, history>>

\* The latest call empties the dialog and closes it.
Registered(s) ==
  /\ At(s, "done")
  /\ calls' = [calls EXCEPT ![s].at = "over"]
  /\ Invalidate(calls[s].tenant, calls[s].tells)
  /\ IF latest = s THEN newName' = None /\ isOpen' = FALSE ELSE UNCHANGED <<newName, isOpen>>
  /\ UNCHANGED <<tenantId, mounted, latest, rows, clicks>>

AnswerLostRetried(s) ==                    \* mutant: a lost answer is asked for again
  /\ At(s, "refused") \/ At(s, "done")
  /\ calls' = [calls EXCEPT ![s].at = IF @ = "done" THEN "sent" ELSE "over"]
  /\ missed' = missed \cup {calls[s].tenant}
  /\ UNCHANGED <<tenantId, dialog, rows, query, clicks>>

\* The answer is a refusal, or lost; the page shows neither.
NotRegistered(s) ==
  /\ At(s, "refused") \/ At(s, "done")
  /\ calls' = [calls EXCEPT ![s].at = "over"]
  /\ missed' = IF At(s, "done") THEN missed \cup {calls[s].tenant} ELSE missed
  /\ UNCHANGED <<tenantId, dialog, rows, query, clicks>>

----------------------------------------------------------------------------
HandleListAgents(t) ==
  /\ fetch[t].at = "sent"
  /\ fetch' = [fetch EXCEPT ![t] = [at |-> "read", list |-> rows[t]]]
  /\ UNCHANGED <<tenantId, dialog, calls, rows, list, failed, history>>

ShowList(t) ==
  /\ fetch[t].at = "read"
  /\ list' = [list EXCEPT ![t] = [list |-> fetch[t].list, known |-> TRUE]]
  /\ failed' = [failed EXCEPT ![t] = FALSE]
  /\ fetch' = [fetch EXCEPT ![t] = NoFetch]
  /\ UNCHANGED <<tenantId, dialog, calls, rows, history>>

FetchFails(t) ==
  /\ fetch[t].at # "none"
  /\ failed' = [failed EXCEPT ![t] = TRUE]
  /\ fetch' = [fetch EXCEPT ![t] = NoFetch]
  /\ UNCHANGED <<tenantId, dialog, calls, rows, list, history>>

Focus ==
  /\ LooksAt(tenantId)
  /\ UNCHANGED <<tenantId, dialog, calls, rows, clicks>>

\* The page passes its tenant to the hook again, and the hook to its call.
TenantMoves(t) ==
  /\ t # tenantId
  /\ tenantId' = t
  /\ LooksAt(t)
  /\ calls' = IF latest # None /\ calls[latest].at \in {"sent", "done", "refused"}
              THEN [calls EXCEPT ![latest].tells = t] ELSE calls
  /\ UNCHANGED <<dialog, rows, clicks>>

\* Another page and back.
Leave ==
  /\ mounted /\ ~isOpen
  /\ mounted' = FALSE /\ newName' = None /\ latest' = None
  /\ UNCHANGED <<tenantId, isOpen, calls, rows, query, history>>

Enter ==
  /\ ~mounted
  /\ mounted' = TRUE
  /\ UNCHANGED <<tenantId, isOpen, newName, latest, calls, rows, query, history>>

Init ==
  /\ tenantId \in Tenants /\ mounted = TRUE
  /\ isOpen = FALSE /\ newName = None /\ latest = None
  /\ calls = [s \in Slots |-> None]
  /\ rows = [t \in Tenants |-> Empty] /\ list = [t \in Tenants |-> NoList]
  /\ failed = [t \in Tenants |-> FALSE]
  /\ fetch = [t \in Tenants |-> IF t = tenantId THEN Sent ELSE NoFetch]
  /\ clicks = [t \in Tenants |-> Empty] /\ missed = {}

Next ==
  \/ \E b \in BOOLEAN : SetIsOpen(b)
  \/ \E n \in Names : SetNewName(n)
  \/ \E s \in Slots :
       HandleCreate(s) \/ HandleCreateAgent(s) \/ CreateFails(s) \/ Registered(s) \/ NotRegistered(s)
  \/ \E t \in Tenants : HandleListAgents(t) \/ ShowList(t) \/ FetchFails(t) \/ TenantMoves(t)
  \/ Focus \/ Leave \/ Enter

Spec == Init /\ [][Next]_vars

----------------------------------------------------------------------------
\* An agent is registered where the dialog showed it and at most once a click,
\* although clicks overlap, answers are lost and the tenant moves under the
\* dialog (Agents.tsx:28-40, agents.ts:22-34).
RegisteredAsShown == \A t \in Tenants, n \in Names : rows[t][n] <= clicks[t][n]

\* A list nothing is on its way for, whose last fetch did not fail, and which
\* every answer has reached, is the table's (agents.ts:11-20, 31-33).
QuietListIsTrue ==
  LET t == tenantId IN
    /\ list[t].known /\ ~failed[t] /\ fetch[t].at = "none" /\ t \notin missed
    /\ \A s \in Slots : ~At(s, "done")
    => list[t].list = rows[t]
=============================================================================
