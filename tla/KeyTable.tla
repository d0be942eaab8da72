------------------------------ MODULE KeyTable ------------------------------
(***************************************************************************)
(* The table of the API Keys page: the tenant's keys as last fetched, with *)
(* those that were revoked, its filters, the count of active keys, and the *)
(* calls that generate and revoke keys.  The dialog is KeyDialog's.        *)
(*                                                                         *)
(* Both calls have their hooks fetch the table again.  Calls overlap, fail *)
(* or lose their answers, fetches are answered late, and the other         *)
(* administrators of the tenant change the same keys.                      *)
(***************************************************************************)
EXTENDS Naturals, FiniteSets

CONSTANTS Keys,
          Agents, Users,
          AgentOf,      \* the agent a key is for, or None
          UserOf,       \* the user a key is for, or None
          Slots,        \* bound: calls under way at a time
          None

Call == [op : {"create", "revoke"}, key : Keys, at : {"sent", "done", "refused"}]

KeyTableAssumption ==
  /\ AgentOf \in [Keys -> Agents \cup {None}]
  /\ UserOf \in [Keys -> Users \cup {None}]
  /\ None \notin Agents \cup Users \cup Keys \cup Slots \cup Call
  /\ "all" \notin Agents

VARIABLES
  rows,          \* rows[k]: the key in the gateway's table
  calls,         \* the calls under way
  list, failed,  \* the keys as last fetched, and whether the last fetch failed
  fetch,         \* the fetch under way, with what it has read
  missed         \* history: the table changed without this page being told

query == <<list, failed, fetch>>
vars == <<rows, calls, query, missed>>

States  == {"none", "active", "revoked"}
VM      == [Keys -> States]
NoKeys  == [k \in Keys |-> "none"]
Listed  == [known : BOOLEAN, rows : VM]
Fetch   == [at : {"none", "sent", "read"}, rows : VM]
NoFetch == [at |-> "none", rows |-> NoKeys]
Sent    == [at |-> "sent", rows |-> NoKeys]

TypeOK ==
  /\ rows \in VM /\ calls \in [Slots -> Call \cup {None}]
  /\ list \in Listed /\ failed \in BOOLEAN /\ fetch \in Fetch
  /\ missed \in BOOLEAN

----------------------------------------------------------------------------
InCalls   == {calls[s].key : s \in {u \in Slots : calls[u] # None}}
At(s, at) == calls[s] # None /\ calls[s].at = at

\* The handler stores the two whatever the other is.
OfAgent(k) == AgentOf[k] # None
OfUser(k)  == UserOf[k] # None

InScope(k, f) ==
  \/ f = "all"
  \/ f = "global" /\ ~OfAgent(k) /\ ~OfUser(k)
  \/ f = "agent" /\ OfAgent(k)
  \/ f = "user" /\ OfUser(k)

\* An agent in scope hides the keys of the other agents only.
FilteredKeys(selectedAgent, scopeFilter) ==
  {k \in Keys : /\ list.rows[k] # "none"
                /\ selectedAgent = "all" \/ ~OfAgent(k) \/ AgentOf[k] = selectedAgent
                /\ InScope(k, scopeFilter)}

ScopeFilters == {"all", "global", "agent", "user"}

\* Counted whatever the filter.
ActiveKeys == {k \in Keys : list.rows[k] = "active"}

\* Under some choice of the agent and of the filter.
RevokeShown(k) ==
  /\ k \in ActiveKeys
  /\ \E a \in Agents \cup {"all"}, f \in ScopeFilters : k \in FilteredKeys(a, f)

\* What is on its way is given up once the table has been shown.
Invalidate ==
  IF fetch.at = "none" \/ list.known
  THEN fetch' = Sent /\ missed' = FALSE /\ UNCHANGED <<list, failed>>
  ELSE missed' = TRUE /\ UNCHANGED query

----------------------------------------------------------------------------
\* A key nobody holds yet is generated; the dialog names an agent or a user, not
\* both as aigw keys create may.
CreateAPIKey(s, k) ==
  /\ ~(OfAgent(k) /\ OfUser(k))
  /\ calls[s] = None /\ rows[k] = "none" /\ k \notin InCalls
  /\ calls' = [calls EXCEPT ![s] = [op |-> "create", key |-> k, at |-> "sent"]]
  /\ UNCHANGED <<rows, query, missed>>

HandleRevoke(s, k) ==
  /\ calls[s] = None /\ RevokeShown(k)
  /\ calls' = [calls EXCEPT ![s] = [op |-> "revoke", key |-> k, at |-> "sent"]]
  /\ UNCHANGED <<rows, query, missed>>

HandleCreateKey(s) ==
  /\ At(s, "sent") /\ calls[s].op = "create"
  /\ rows' = [rows EXCEPT ![calls[s].key] = "active"]
  /\ calls' = [calls EXCEPT ![s].at = "done"]
  /\ UNCHANGED <<query, missed>>

HandleRevokeKey(s) ==
  /\ At(s, "sent") /\ calls[s].op = "revoke"
  /\ rows' = [rows EXCEPT ![calls[s].key] = "revoked"]
  /\ calls' = [calls EXCEPT ![s].at = "done"]
  /\ UNCHANGED <<query, missed>>

CallFails(s) ==
  /\ At(s, "sent")
  /\ calls' = [calls EXCEPT ![s].at = "refused"]
  /\ UNCHANGED <<rows, query, missed>>

Answered(s) ==
  /\ At(s, "done")
  /\ calls' = [calls EXCEPT ![s] = None]
  /\ Invalidate
  /\ UNCHANGED rows

\* A refusal, or an answer that is lost, leaves the table as it is.
NotAnswered(s) ==
  /\ At(s, "done") \/ At(s, "refused")
  /\ calls' = [calls EXCEPT ![s] = None]
  /\ missed' = (missed \/ At(s, "done"))
  /\ UNCHANGED <<rows, query>>

\* Another administrator generates or revokes a key, in a console or with the CLI.
Elsewhere(k) ==
  /\ rows' = [rows EXCEPT ![k] = IF @ = "none" THEN "active" ELSE "revoked"]
  /\ missed' = TRUE
  /\ UNCHANGED <<calls, query>>

----------------------------------------------------------------------------
\* The page is shown, or its window gets the focus.
Focus ==
  /\ fetch.at = "none"
  /\ fetch' = Sent /\ missed' = FALSE
  /\ UNCHANGED <<rows, calls, list, failed>>

HandleListKeys ==
  /\ fetch.at = "sent"
  /\ fetch' = [at |-> "read", rows |-> rows]
  /\ UNCHANGED <<rows, calls, list, failed, missed>>

TableShown ==
  /\ fetch.at = "read"
  /\ list' = [known |-> TRUE, rows |-> fetch.rows]
  /\ failed' = FALSE /\ fetch' = NoFetch
  /\ UNCHANGED <<rows, calls, missed>>

FetchFails ==
  /\ fetch.at # "none"
  /\ failed' = TRUE /\ fetch' = NoFetch
  /\ UNCHANGED <<rows, calls, list, missed>>

Init ==
  /\ rows \in VM
  /\ calls = [s \in Slots |-> None]
  /\ list = [known |-> FALSE, rows |-> NoKeys] /\ failed = FALSE /\ fetch = Sent
  /\ missed = FALSE

Next ==
  \/ \E s \in Slots : \/ \E k \in Keys : CreateAPIKey(s, k) \/ HandleRevoke(s, k)
                      \/ HandleCreateKey(s) \/ HandleRevokeKey(s) \/ CallFails(s)
                      \/ Answered(s) \/ NotAnswered(s)
  \/ \E k \in Keys : Elsewhere(k)
  \/ Focus \/ HandleListKeys \/ TableShown \/ FetchFails

Spec == Init /\ [][Next]_vars

----------------------------------------------------------------------------
\* A table nothing is on its way for, whose last fetch did not fail, and which
\* heard of every change, shows every key as the gateway has it: none that was
\* revoked looks active, however the page's own calls overlapped
\* (keys.ts:21-30, 41-43, 55-57).
QuietTableIsTrue ==
  (/\ list.known /\ ~failed /\ fetch.at = "none" /\ ~missed
   /\ \A s \in Slots : ~At(s, "done")) => list.rows = rows

\* Choosing Global, Agent and User in turn shows every key of the unfiltered
\* table, also with an agent in scope, and shows no key twice but one that is for
\* an agent and for a user (APIKeys.tsx:71-77, cli/internal/cmd/keys.go:84-89).
FiltersCover ==
  \A a \in Agents \cup {"all"} : \A k \in FilteredKeys(a, "all") :
    LET under == {f \in ScopeFilters \ {"all"} : k \in FilteredKeys(a, f)}
    IN  IF AgentOf[k] # None /\ UserOf[k] # None THEN under = {"agent", "user"}
                                                ELSE \E f \in ScopeFilters : under = {f}
=============================================================================
