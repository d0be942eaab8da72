----------------------------- MODULE KeyDialog -----------------------------
(***************************************************************************)
(* The API Keys page of the admin console: the dialog that generates a     *)
(* key and shows its secret, against a gateway that answers late, fails,   *)
(* or creates the key and loses the answer.                                *)
(*                                                                         *)
(* The Generate button stays enabled while a request is pending, the       *)
(* callback of mutate() runs for the latest call of the mounted page only, *)
(* and the two ways to dismiss the secret do not do the same.              *)
(***************************************************************************)
EXTENDS Naturals

CONSTANTS Tenants, Agents, Members,
          TenantOf,     \* the tenant of an agent or a member
          MaxCalls,     \* bound: Generate is clicked at most MaxCalls times
          None

ASSUME KeyDialogAssumption ==
  /\ TenantOf \in [Agents \cup Members -> Tenants]
  /\ None \notin Agents \cup Members
  /\ MaxCalls \in Nat

VARIABLES
  tenant,     \* the tenantId App passes
  open,       \* isCreateOpen
  form,       \* the draft: scope, agent and user
  createdKey, \* the call whose secret the page holds, or 0
  latest,     \* the latest call of the mounted page, or 0
  phase,      \* phase[c]: how far call c has come
  body,       \* body[c]: what call c asked for
  live,       \* live[c]: the row of the key of call c
  shown,      \* history: the calls whose secret has been on the screen
  dismissed,  \* history: dismissed[c]: how the secret left the screen
  disturbed   \* history: calls superseded while pending, or left behind

vars == <<tenant, open, form, createdKey, latest, phase, body, live, shown,
          dismissed, disturbed>>

Calls  == 1..MaxCalls
Scopes == {"project", "agent", "user"}
Phases == {"unused", "sent", "stored", "done", "failed"}
Form   == [scope : Scopes, agent : Agents \cup {None}, user : Members \cup {None}]
Body   == [tenant : Tenants, scope : Scopes,       \* scope: as the form showed it
           agent : Agents \cup {None}, user : Members \cup {None}]
Blank  == [scope |-> "project", agent |-> None, user |-> None]

TypeOK ==
  /\ tenant \in Tenants
  /\ open \in BOOLEAN
  /\ form \in Form
  /\ createdKey \in {0} \cup Calls
  /\ latest \in {0} \cup Calls
  /\ phase \in [Calls -> Phases]
  /\ body \in [Calls -> Body]
  /\ live \in [Calls -> {"none", "active", "revoked"}]
  /\ shown \subseteq Calls
  /\ dismissed \in [Calls -> {"no", "closed", "saved"}]
  /\ disturbed \subseteq Calls

----------------------------------------------------------------------------
Pending == {c \in Calls : phase[c] \in {"sent", "stored"}}

\* The dialog shows the form or, once a secret is held, the secret.
FormShown    == open /\ createdKey = 0
SecretShown  == open /\ createdKey # 0
Seen(o, k)   == shown' = IF o /\ k # 0 THEN shown \cup {k} ELSE shown

AgentsListed  == {a \in Agents : TenantOf[a] = tenant}
MembersListed == {m \in Members : TenantOf[m] = tenant}

serverVars == <<phase, body, live>>

OpenDialog ==
  /\ ~open
  /\ open' = TRUE
  /\ Seen(TRUE, createdKey)
  /\ UNCHANGED <<tenant, form, createdKey, latest, serverVars, dismissed, disturbed>>

CloseKeepsKey ==                     \* mutant: onOpenChange only closes
  /\ open
  /\ open' = FALSE
  /\ dismissed' = IF createdKey = 0 THEN dismissed
                  ELSE [dismissed EXCEPT ![createdKey] = "closed"]
  /\ UNCHANGED <<tenant, form, createdKey, latest, serverVars, shown, disturbed>>

\* The cross, Escape and a click outside reach onOpenChange.
CloseDialog ==
  /\ open
  /\ open' = FALSE
  /\ createdKey' = 0
  /\ dismissed' = IF createdKey = 0 THEN dismissed
                  ELSE [dismissed EXCEPT ![createdKey] = "closed"]
  /\ UNCHANGED <<tenant, form, latest, serverVars, shown, disturbed>>

Cancel ==
  /\ FormShown
  /\ open' = FALSE
  /\ UNCHANGED <<tenant, form, createdKey, latest, serverVars, shown, dismissed,
                 disturbed>>

\* Setting the open prop does not reach onOpenChange.
IHaveSavedTheKey ==
  /\ SecretShown
  /\ open' = FALSE
  /\ dismissed' = [dismissed EXCEPT ![createdKey] = "saved"]
  /\ UNCHANGED <<tenant, form, createdKey, latest, serverVars, shown, disturbed>>

ChooseScope(s) ==
  /\ FormShown
  /\ s = "agent" => AgentsListed # {}
  /\ s = "user" => MembersListed # {}
  /\ form' = [scope |-> s, agent |-> None, user |-> None]
  /\ UNCHANGED <<tenant, open, createdKey, latest, serverVars, shown, dismissed,
                 disturbed>>

ChooseAgent(a) ==
  /\ FormShown
  /\ form.scope = "agent" /\ a \in AgentsListed
  /\ form' = [form EXCEPT !.agent = a]
  /\ UNCHANGED <<tenant, open, createdKey, latest, serverVars, shown, dismissed,
                 disturbed>>

ChooseUser(m) ==
  /\ FormShown
  /\ form.scope = "user" /\ m \in MembersListed
  /\ form' = [form EXCEPT !.user = m]
  /\ UNCHANGED <<tenant, open, createdKey, latest, serverVars, shown, dismissed,
                 disturbed>>

GenerateEnabled ==
  /\ FormShown
  /\ form.scope = "agent" => form.agent # None
  /\ form.scope = "user" => form.user # None

BodyOf(f) == [tenant |-> tenant, scope |-> f.scope,
              agent |-> IF f.scope = "agent" THEN f.agent ELSE None,
              user  |-> IF f.scope = "user" THEN f.user ELSE None]

HandleCreateKey(c) ==
  /\ GenerateEnabled
  /\ phase[c] = "unused"
  /\ phase' = [phase EXCEPT ![c] = "sent"]
  /\ body' = [body EXCEPT ![c] = BodyOf(form)]
  /\ latest' = c
  /\ disturbed' = disturbed \cup Pending
  /\ UNCHANGED <<tenant, open, form, createdKey, live, shown, dismissed>>

\* The row is inserted and the answer, with the secret, is on its way.
ServerCreates(c) ==
  /\ phase[c] = "sent"
  /\ phase' = [phase EXCEPT ![c] = "stored"]
  /\ live' = [live EXCEPT ![c] = "active"]
  /\ UNCHANGED <<tenant, open, form, createdKey, latest, body, shown, dismissed,
                 disturbed>>

CallFails(c) ==
  /\ c \in Pending
  /\ phase' = [phase EXCEPT ![c] = "failed"]
  /\ UNCHANGED <<tenant, open, form, createdKey, latest, body, live, shown,
                 dismissed, disturbed>>

AnsweredWhileOpen(c) ==              \* mutant: a closed dialog drops the secret
  /\ phase[c] = "stored"
  /\ phase' = [phase EXCEPT ![c] = "done"]
  /\ IF latest = c /\ open
     THEN createdKey' = c /\ form' = Blank /\ Seen(open, c)
     ELSE UNCHANGED <<createdKey, form, shown>>
  /\ UNCHANGED <<tenant, open, latest, body, live, dismissed, disturbed>>

Answered(c) ==
  /\ phase[c] = "stored"
  /\ phase' = [phase EXCEPT ![c] = "done"]
  /\ IF latest = c
     THEN createdKey' = c /\ form' = Blank /\ Seen(open, c)
     ELSE UNCHANGED <<createdKey, form, shown>>
  /\ UNCHANGED <<tenant, open, latest, body, live, dismissed, disturbed>>

\* The table may show a revoked key as active until its list is fetched again.
Filters == {"all", "global", "agent", "user"}
Filtered(c, selectedAgent, filter) ==
  /\ selectedAgent = "all" \/ body[c].agent \in {None, selectedAgent}
  /\ \/ filter = "all"
     \/ filter = "global" /\ body[c].agent = None /\ body[c].user = None
     \/ filter = "agent" /\ body[c].agent # None
     \/ filter = "user" /\ body[c].user # None

HandleRevoke(c) ==
  /\ ~open
  /\ live[c] # "none" /\ body[c].tenant = tenant
  /\ \E a \in {"all"} \cup Agents, f \in Filters : Filtered(c, a, f)
  /\ live' = [live EXCEPT ![c] = "revoked"]
  /\ UNCHANGED <<tenant, open, form, createdKey, latest, phase, body, shown,
                 dismissed, disturbed>>

----------------------------------------------------------------------------
(* What App does to the page                                               *)

\* Leaving the page and coming back mounts it anew.
Remount ==
  /\ open' = FALSE /\ form' = Blank /\ createdKey' = 0 /\ latest' = 0
  /\ disturbed' = disturbed \cup Pending \cup ({createdKey} \ {0})
  /\ UNCHANGED <<tenant, serverVars, shown, dismissed>>

\* The tenant list is fetched again without the tenant in use: App passes the
\* first one that is left to the same page.
TenantChanges(t) ==
  /\ tenant' = t
  /\ UNCHANGED <<open, form, createdKey, latest, serverVars, shown, dismissed,
                 disturbed>>

Init ==
  /\ tenant \in Tenants
  /\ open = FALSE /\ form = Blank /\ createdKey = 0 /\ latest = 0
  /\ phase = [c \in Calls |-> "unused"]
  /\ body = [c \in Calls |-> BodyOf(Blank)]
  /\ live = [c \in Calls |-> "none"]
  /\ shown = {} /\ disturbed = {}
  /\ dismissed = [c \in Calls |-> "no"]

Next ==
  \/ OpenDialog \/ CloseDialog \/ Cancel \/ IHaveSavedTheKey
  \/ \E s \in Scopes : ChooseScope(s)
  \/ \E a \in Agents : ChooseAgent(a)
  \/ \E m \in Members : ChooseUser(m)
  \/ \E c \in Calls : \/ HandleCreateKey(c) \/ ServerCreates(c) \/ CallFails(c)
                      \/ Answered(c) \/ HandleRevoke(c)
  \/ Remount
  \/ \E t \in Tenants : TenantChanges(t)

Spec == Init /\ [][Next]_vars

----------------------------------------------------------------------------
\* A key is never wider than the scope its form showed: whatever was chosen,
\* cleared and chosen again, an agent's key names an agent and a user's key a
\* user, as the gateway takes a key that names neither for the whole tenant
\* (APIKeys.tsx:79-83, 140, 195).
NeverWiderThanChosen ==
  \A c \in Calls : live[c] # "none" =>
    /\ body[c].scope = "agent" => body[c].agent # None
    /\ body[c].scope = "user" => body[c].user # None
    /\ body[c].agent # None => body[c].user = None

\* A secret closed with the cross, with Escape or with a click outside is gone
\* for good, whatever answers are still to come (APIKeys.tsx:109-112).
ClosedStaysHidden == \A c \in Calls : dismissed[c] = "closed" => createdKey # c

\* The secret of a key whose answer arrived has been on the screen, or will be
\* when the dialog is opened, also when the dialog was closed in between: unless
\* the user generated another key before the answer, or left the page without
\* opening the dialog again (APIKeys.tsx:85-93).
SecretReachesUser ==
  \A c \in Calls : (phase[c] = "done" /\ c \notin disturbed) =>
                      c \in shown \/ createdKey = c

\* "Once you dismiss the dialog, the full key cannot be retrieved"
\* (docs/api-keys.md:33).
ShownOnce == \A c \in Calls : dismissed[c] # "no" => ~(open /\ createdKey = c)

\* "Each tenant has its own agents, API keys, ..." (docs/tenants.md:3): a key of
\* a tenant is bound to an agent of that tenant.
AgentKeyOfItsTenant ==
  \A c \in Calls : (live[c] # "none" /\ body[c].agent # None) =>
                      TenantOf[body[c].agent] = body[c].tenant
=============================================================================
