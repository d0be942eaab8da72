----------------------------- MODULE RuleEvents -----------------------------
(***************************************************************************)
(* The audit log of the guardrails and what the Guardrails page makes of   *)
(* it: the fires of the last day beside every rule, and the recent fires   *)
(* in the panel of one rule.                                               *)
(*                                                                         *)
(* A fire goes through the gateway's log exporter and the collector to     *)
(* ClickHouse, and is read back by two handlers at two moments.  The       *)
(* answer names its fields as Go does, which the panel does not know:      *)
(* drawing any fire throws, and React takes the whole console down.        *)
(***************************************************************************)
EXTENDS Naturals, Sequences, FiniteSets

CONSTANTS Tenants, Rules, TenantOf,
          Limit,        \* the panel asks for so many fires
          MaxFires,     \* bound: the log holds at most MaxFires fires
          None

RuleEventsAssumption ==
  /\ TenantOf \in [Rules -> Tenants] /\ None \notin Rules
  /\ Limit \in Nat \ {0} /\ MaxFires \in Nat

VARIABLES
  stored,           \* otel_logs: the fires, by their rules, oldest first
  aged,             \* so many of the stored are older than a day
  scope,            \* the tenant in scope
  listed,           \* tenants whose rule list was fetched and did not fail last
  rows,             \* whether fires are counted beside a rule
  panel,            \* the rule of the panel, with its copy of that count
  events,           \* events[t, r]: the query behind the panel
  blank,            \* the console was taken down
  heard             \* history: how far a fetch sent for this panel has come

log  == <<stored, aged>>
page == <<scope, listed, rows, panel, blank>>
vars == <<log, page, events, heard>>

Keys    == Tenants \X Rules
Event   == 1..MaxFires      \* by its place in the log
Answers == SUBSET Event
Query   == [known : BOOLEAN, data : Answers, at : {"none", "sent", "read"}, answer : Answers]
Unasked == [known |-> FALSE, data |-> {}, at |-> "none", answer |-> {}]
Closed  == [id |-> None, fires |-> FALSE]
Panel   == [id : Rules, fires : BOOLEAN] \cup {Closed}

TypeOK ==
  /\ stored \in Seq(Rules) /\ Len(stored) <= MaxFires
  /\ aged \in 0..Len(stored)
  /\ scope \in Tenants /\ listed \subseteq Tenants
  /\ rows \in [Rules -> BOOLEAN] /\ panel \in Panel
  /\ events \in [Keys -> Query] /\ blank \in BOOLEAN
  /\ heard \in {"no", "asked", "yes"}

----------------------------------------------------------------------------
EventsKey(t, r) == <<t, r>>

\* ORDER BY Timestamp DESC LIMIT Limit
Newest(S) == {i \in S : Cardinality({j \in S : j > i}) < Limit}

OfRule(t, r) == {i \in 1..Len(stored) : stored[i] = r /\ TenantOf[r] = t}

\* mutant: the limit is applied before the rule
FiltersNewest(t, r) == Newest(1..Len(stored)) \cap OfRule(t, r)
GuardrailEvents(t, r) == Newest(OfRule(t, r))

\* Of the count of the last day only its being positive is kept.
Fires24h(r) == \E i \in (aged + 1)..Len(stored) : stored[i] = r

\* The panel is drawn under a list; a fire in it throws.
Shows(p, t, l)      == p.id # None /\ t \in l
Throws(p, t, l, ev) == Shows(p, t, l) /\ ev[EventsKey(t, p.id)].data # {}

NoEventsYet ==
  /\ ~blank /\ Shows(panel, scope, listed)
  /\ LET q == events[EventsKey(scope, panel.id)]
     IN  q.data = {} /\ (q.known \/ q.at = "none")

\* A panel that comes into view asks for its fires, unless they are on their way.
Asks(p, t, l) ==
  LET k == EventsKey(t, p.id) IN
    IF Shows(p, t, l) /\ events[k].at = "none"
    THEN events' = [events EXCEPT ![k].at = "sent"] /\ heard' = "asked"
    ELSE events' = events /\ heard' = "no"

----------------------------------------------------------------------------
\* A fire reaches the log some time after it happened, or is lost on its way
\* and never seen.
EmitGuardrailLogs(r) ==
  /\ Len(stored) < MaxFires
  /\ stored' = Append(stored, r)
  /\ UNCHANGED <<aged, page, events, heard>>

DayPasses ==
  /\ aged < Len(stored)
  /\ aged' = Len(stored)
  /\ UNCHANGED <<stored, page, events, heard>>

----------------------------------------------------------------------------
\* There are no counts when ClickHouse does not answer.  A list that appears
\* brings the panel with it.
HandleListRules ==
  /\ ~blank
  /\ \E up \in BOOLEAN :
       rows' = [r \in Rules |-> IF TenantOf[r] # scope THEN rows[r] ELSE up /\ Fires24h(r)]
  /\ listed' = listed \cup {scope}
  /\ IF scope \in listed THEN UNCHANGED <<events, heard>> ELSE Asks(panel, scope, listed')
  /\ blank' = Throws(panel, scope, listed', events)
  /\ UNCHANGED <<log, scope, panel>>

ListFails ==
  /\ ~blank
  /\ listed' = listed \ {scope}
  /\ UNCHANGED <<log, scope, rows, panel, blank, events, heard>>

Select(r) ==
  /\ ~blank /\ scope \in listed /\ TenantOf[r] = scope
  /\ panel' = IF panel.id = r THEN Closed ELSE [id |-> r, fires |-> rows[r]]
  /\ Asks(panel', scope, listed)
  /\ blank' = Throws(panel', scope, listed, events)
  /\ UNCHANGED <<log, scope, listed, rows>>

ClosePanel ==
  /\ ~blank /\ Shows(panel, scope, listed)
  /\ panel' = Closed /\ heard' = "no"
  /\ UNCHANGED <<log, scope, listed, rows, blank, events>>

\* Guardrails keeps its panel when App moves to another tenant.
TenantMoves(t) ==
  /\ ~blank /\ t # scope
  /\ scope' = t
  /\ Asks(panel, t, listed)
  /\ blank' = Throws(panel, t, listed, events)
  /\ UNCHANGED <<log, listed, rows, panel>>

Focus ==
  /\ ~blank /\ Shows(panel, scope, listed)
  /\ events[EventsKey(scope, panel.id)].at = "none"
  /\ Asks(panel, scope, listed)
  /\ UNCHANGED <<log, page>>

HandleGuardrailEvents(t, r) ==
  /\ events[EventsKey(t, r)].at = "sent"
  /\ events' = [events EXCEPT ![EventsKey(t, r)].at = "read",
                              ![EventsKey(t, r)].answer = GuardrailEvents(t, r)]
  /\ UNCHANGED <<log, page, heard>>

IsOfPanel(k) == Shows(panel, scope, listed) /\ k = EventsKey(scope, panel.id)

Answered(k) ==
  /\ ~blank /\ events[k].at = "read"
  /\ events' = [events EXCEPT ![k] =
       [known |-> TRUE, data |-> events[k].answer, at |-> "none", answer |-> {}]]
  /\ heard' = IF IsOfPanel(k) /\ heard = "asked" THEN "yes" ELSE heard
  /\ blank' = Throws(panel, scope, listed, events')
  /\ UNCHANGED <<log, scope, listed, rows, panel>>

\* The panel does not tell a failure from an empty log.
Fails(k) ==
  /\ ~blank /\ events[k].at # "none"
  /\ events' = [events EXCEPT ![k].at = "none", ![k].answer = {}]
  /\ heard' = IF IsOfPanel(k) /\ heard = "asked" THEN "no" ELSE heard
  /\ UNCHANGED <<log, page>>

Reload ==
  /\ listed' = {} /\ rows' = [r \in Rules |-> FALSE] /\ panel' = Closed
  /\ events' = [k \in Keys |-> Unasked] /\ blank' = FALSE /\ heard' = "no"
  /\ UNCHANGED <<log, scope>>

----------------------------------------------------------------------------
Init ==
  /\ stored = <<>> /\ aged = 0
  /\ scope \in Tenants /\ listed = {} /\ rows = [r \in Rules |-> FALSE]
  /\ panel = Closed /\ events = [k \in Keys |-> Unasked]
  /\ blank = FALSE /\ heard = "no"

Next ==
  \/ \E r \in Rules : EmitGuardrailLogs(r) \/ Select(r)
  \/ DayPasses \/ HandleListRules \/ ListFails \/ ClosePanel \/ Focus \/ Reload
  \/ \E t \in Tenants : \/ TenantMoves(t)
                        \/ \E r \in Rules : HandleGuardrailEvents(t, r)
  \/ \E k \in Keys : Answered(k) \/ Fails(k)

Spec == Init /\ [][Next]_vars

----------------------------------------------------------------------------
\* A panel that counts fires of its rule, and whose fetch was sent after it was
\* opened and has been answered, does not say "no events yet": the count and the
\* fires come from two queries at two moments, yet never contradict each other
\* (Guardrails.tsx:118-129, 177-178; client.go:49-59, 186-203).
CountedFiresAreFound ==
  (panel.fires /\ heard = "yes" /\ TenantOf[panel.id] = scope) => ~NoEventsYet

\* The console only goes down over a fire of the panel's own rule, in the log of
\* the tenant in scope, however late the answers for other panels arrive
\* (api/guardrails.ts:111-124).
BlankOverOwnFire ==
  blank => panel.id \in {stored[i] : i \in 1..Len(stored)} /\ TenantOf[panel.id] = scope

\* A fire has a "timestamp: string" (api/guardrails.ts:33), and the panel draws
\* it (Guardrails.tsx:189).
FiresAreShown == ~blank

\* "Everything you see below is scoped to the selected tenant"
\* (docs/getting-started.md:23).
PanelOfTenant == Shows(panel, scope, listed) => TenantOf[panel.id] = scope
=============================================================================
