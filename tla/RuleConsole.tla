---------------------------- MODULE RuleConsole ----------------------------
(***************************************************************************)
(* The Guardrails page of the admin console: the rows of the rule list,    *)
(* the detail panel, which holds a copy of the rule it was opened for, and *)
(* the updates that switch rules on and off.                               *)
(*                                                                         *)
(* Updates are sent as soon as a switch is clicked, may be applied in any  *)
(* order, fail, or lose their answers; other administrators switch the     *)
(* same rules.                                                             *)
(***************************************************************************)
EXTENDS Naturals

CONSTANTS Rules, Agents,
          AgentOf,      \* the agent of a rule, None for a global rule
          MaxCalls,     \* bound: switches are clicked at most MaxCalls times
          None

ASSUME RuleConsoleAssumption ==
  /\ AgentOf \in [Rules -> Agents \cup {None}]
  /\ None \notin Agents /\ None \notin Rules
  /\ "all" \notin Agents
  /\ MaxCalls \in Nat

VARIABLES
  enabled,       \* the column of the gateway's table
  list,          \* the query of the rule list
  selected,      \* the panel's rule and its copy of enabled
  selectedAgent, \* the agent chosen in the sidebar, or "all"
  call,          \* call[c]: an update
  doubt,         \* history: rules whose panel cannot be expected to be right
  touched        \* history: rules with a failed update or another's update

vars == <<enabled, list, selected, selectedAgent, call, doubt, touched>>

Calls  == 1..MaxCalls
Column == [Rules -> BOOLEAN]
List   == [status : {"pending", "success", "error"},
           fetch  : {"idle", "sent", "read"},
           loaded : BOOLEAN,
           data   : Column,              \* the rows, once loaded
           seen   : Column]              \* what an answer on its way holds
Panel  == [id : Rules \cup {None}, enabled : BOOLEAN]
Call   == [phase : {"unused", "sent", "applied", "done"},
           id : Rules \cup {None}, enabled : BOOLEAN]
Closed == [id |-> None, enabled |-> FALSE]

TypeOK ==
  /\ enabled \in Column
  /\ list \in List
  /\ selected \in Panel
  /\ selectedAgent \in {"all"} \cup Agents
  /\ call \in [Calls -> Call]
  /\ doubt \subseteq Rules /\ touched \subseteq Rules

----------------------------------------------------------------------------
InFlight(r) == \E c \in Calls : call[c].id = r /\ call[c].phase \in {"sent", "applied"}

\* Guardrails shows rows only when the last fetch did not fail.
RowsShown == list.loaded /\ list.status = "success"

IsAgentMode == selectedAgent # "all"
IsGlobal(r) == AgentOf[r] = None

\* The cards of global rules show all of them, in agent mode for reference only.
Visible(r) == IsGlobal(r) \/ ~IsAgentMode \/ AgentOf[r] = selectedAgent
RowReadOnly(r)   == IsAgentMode /\ IsGlobal(r)
PanelReadOnly(r) == IsAgentMode /\ IsGlobal(r)

Refetch(l) == [status |-> l.status, fetch |-> "sent", loaded |-> l.loaded,
               data |-> l.data, seen |-> l.seen]

\* Invalidation restarts a fetch under way only if the query holds data.
InvalidateNothing(l) == l                \* mutant: another key is invalidated
Invalidate(l) == IF l.fetch = "idle" \/ l.loaded THEN Refetch(l) ELSE l

----------------------------------------------------------------------------
Select(r) ==
  /\ RowsShown /\ Visible(r)
  /\ selected' = IF selected.id = r THEN Closed
                 ELSE [id |-> r, enabled |-> list.data[r]]
  /\ doubt' = IF list.data[r] = enabled[r] /\ ~InFlight(r)
              THEN doubt \ {r} ELSE doubt \cup {r}
  /\ UNCHANGED <<enabled, list, selectedAgent, call, touched>>

ClosePanel ==
  /\ selected.id # None /\ RowsShown
  /\ selected' = Closed
  /\ UNCHANGED <<enabled, list, selectedAgent, call, doubt, touched>>

TogglePanelLater(c, r, e) ==             \* mutant: the panel waits for the list
  /\ call[c].phase = "unused"
  /\ call' = [call EXCEPT ![c] = [phase |-> "sent", id |-> r, enabled |-> e]]
  /\ doubt' = IF InFlight(r) THEN doubt \cup {r} ELSE doubt
  /\ UNCHANGED <<enabled, list, selected, selectedAgent, touched>>

\* The update is sent and, if the panel shows the rule, the copy is changed.
Toggle(c, r, e) ==
  /\ call[c].phase = "unused"
  /\ call' = [call EXCEPT ![c] = [phase |-> "sent", id |-> r, enabled |-> e]]
  /\ selected' = IF selected.id = r THEN [id |-> r, enabled |-> e] ELSE selected
  /\ doubt' = IF InFlight(r) THEN doubt \cup {r} ELSE doubt
  /\ UNCHANGED <<enabled, list, selectedAgent, touched>>

ToggleRow(c, r) ==
  /\ RowsShown /\ Visible(r) /\ ~RowReadOnly(r)
  /\ Toggle(c, r, ~list.data[r])

TogglePanel(c) ==
  /\ RowsShown /\ selected.id # None /\ ~PanelReadOnly(selected.id)
  /\ Toggle(c, selected.id, ~selected.enabled)

ChooseAgent(a) ==
  /\ selectedAgent' = a
  /\ UNCHANGED <<enabled, list, selected, call, doubt, touched>>

----------------------------------------------------------------------------
Moved(c, phase) ==
  [call EXCEPT ![c] = [phase |-> phase, id |-> call[c].id, enabled |-> call[c].enabled]]

Apply(c) ==
  /\ call[c].phase = "sent"
  /\ enabled' = [enabled EXCEPT ![call[c].id] = call[c].enabled]
  /\ call' = Moved(c, "applied")
  /\ UNCHANGED <<list, selected, selectedAgent, doubt, touched>>

Answered(c) ==
  /\ call[c].phase = "applied"
  /\ call' = Moved(c, "done")
  /\ list' = Invalidate(list)
  /\ UNCHANGED <<enabled, selected, selectedAgent, doubt, touched>>

\* The update is refused, or its answer lost: nothing on the page changes.
Fails(c) ==
  /\ call[c].phase \in {"sent", "applied"}
  /\ call' = Moved(c, "done")
  /\ doubt' = doubt \cup {call[c].id}
  /\ touched' = touched \cup {call[c].id}
  /\ UNCHANGED <<enabled, list, selected, selectedAgent>>

Elsewhere(r) ==
  /\ enabled' = [enabled EXCEPT ![r] = ~@]
  /\ doubt' = doubt \cup {r}
  /\ touched' = touched \cup {r}
  /\ UNCHANGED <<list, selected, selectedAgent, call>>

----------------------------------------------------------------------------
Focus ==
  /\ list.fetch = "idle"
  /\ list' = Refetch(list)
  /\ UNCHANGED <<enabled, selected, selectedAgent, call, doubt, touched>>

ListRead ==
  /\ list.fetch = "sent"
  /\ list' = [status |-> list.status, fetch |-> "read", loaded |-> list.loaded,
              data |-> list.data, seen |-> enabled]
  /\ UNCHANGED <<enabled, selected, selectedAgent, call, doubt, touched>>

ListShown ==
  /\ list.fetch = "read"
  /\ list' = [status |-> "success", fetch |-> "idle", loaded |-> TRUE,
              data |-> list.seen, seen |-> list.seen]
  /\ UNCHANGED <<enabled, selected, selectedAgent, call, doubt, touched>>

ListFails ==
  /\ list.fetch # "idle"
  /\ list' = [status |-> "error", fetch |-> "idle", loaded |-> list.loaded,
              data |-> list.data, seen |-> list.seen]
  /\ UNCHANGED <<enabled, selected, selectedAgent, call, doubt, touched>>

Init ==
  /\ enabled \in Column
  /\ list = [status |-> "pending", fetch |-> "sent", loaded |-> FALSE,
             data |-> enabled, seen |-> enabled]
  /\ selected = Closed
  /\ selectedAgent = "all"
  /\ call = [c \in Calls |-> [phase |-> "unused", id |-> None, enabled |-> FALSE]]
  /\ doubt = {} /\ touched = {}

Next ==
  \/ \E r \in Rules : Select(r) \/ Elsewhere(r)
  \/ ClosePanel
  \/ \E c \in Calls : \/ \E r \in Rules : ToggleRow(c, r)
                      \/ TogglePanel(c) \/ Apply(c) \/ Answered(c) \/ Fails(c)
  \/ \E a \in {"all"} \cup Agents : ChooseAgent(a)
  \/ Focus \/ ListRead \/ ListShown \/ ListFails

Spec == Init /\ [][Next]_vars

----------------------------------------------------------------------------
\* A panel opened on a true row keeps telling the truth through the page's own
\* updates, unless one of them fails, two of them cross, or another
\* administrator interferes (Guardrails.tsx:383-387).
PanelIsTrue ==
  (selected.id # None /\ selected.id \notin doubt /\ ~InFlight(selected.id))
    => selected.enabled = enabled[selected.id]

\* Once the page is quiet its rows are what the table holds, whatever the order
\* in which its own updates were applied, except for rules with a failed update
\* or another administrator's: an answer that read the
\* table before an update never outlives the update's own invalidation
\* (api/guardrails.ts:94-109).
RowsAreTrue ==
  (RowsShown /\ list.fetch = "idle") =>
    \A r \in Rules : (r \notin touched /\ ~InFlight(r)) => list.data[r] = enabled[r]

\* With an agent chosen, global rules are "reference only": neither a row nor a
\* panel that was opened before the choice sends an update for one
\* (Guardrails.tsx:503, 515, 536).
GlobalRulesAreReference ==
  [][ \A c \in Calls : (call[c].phase = "unused" /\ call'[c].phase = "sent")
                         => ~(IsAgentMode /\ IsGlobal(call'[c].id)) ]_vars

\* "Optimistically update selected panel to avoid stale state"
\* (Guardrails.tsx:385): on a quiet page the panel and its row agree.
PanelAgrees ==
  (selected.id # None /\ RowsShown /\ list.fetch = "idle" /\ ~InFlight(selected.id))
    => selected.enabled = list.data[selected.id]

\* "Agent selector — Filters views to a specific agent"
\* (docs/getting-started.md:24): the panel shows no rule of another agent.
PanelOfSelectedAgent == selected.id # None => Visible(selected.id)
=============================================================================
