----------------------------- MODULE TraceView -----------------------------
(***************************************************************************)
(* The Traces page: the table, which is fetched again every thirty seconds *)
(* and whenever the tenant or the agent in scope changes, its two filters, *)
(* and the sheet of one trace with its spans and the span chosen there.    *)
(***************************************************************************)
EXTENDS Naturals, FiniteSets

CONSTANTS Traces, Scopes,
          ScopesOf,     \* the scopes (a tenant, or an agent) a trace belongs to
          StatusOf, ModelOf,
          SpansOf,      \* the spans of a trace
          None

TraceViewAssumption ==
  /\ ScopesOf \in [Traces -> SUBSET Scopes]
  /\ None \notin Traces /\ "ALL" \notin {ModelOf[t] : t \in Traces}
  /\ DOMAIN StatusOf = Traces /\ DOMAIN ModelOf = Traces /\ DOMAIN SpansOf = Traces

Statuses == {"OK", "GUARDRAIL", "ERROR"}
ModelIds == {ModelOf[t] : t \in Traces}
AllSpans == UNION {SpansOf[t] : t \in Traces}

VARIABLES
  recorded,      \* the traces the gateway has
  scope,         \* tenant and agent chosen in the frame
  rows,          \* rows[s]: the cached answer for a scope
  asked,         \* scopes whose traces are being fetched
  failed,        \* scopes whose last fetch failed
  statusFilter, modelFilter,
  selected,      \* the trace of the sheet
  spans,         \* spans[t]: the cached spans of a trace
  askedSpans,    \* traces whose spans are being fetched
  selectedSpan   \* the span chosen in the sheet

query   == <<rows, asked, failed>>
filters == <<statusFilter, modelFilter>>
sheet   == <<selected, spans, askedSpans, selectedSpan>>
vars    == <<recorded, scope, query, filters, sheet>>

TypeOK ==
  /\ recorded \subseteq Traces /\ scope \in Scopes
  /\ rows \in [Scopes -> (SUBSET Traces) \cup {None}]
  /\ asked \subseteq Scopes /\ failed \subseteq Scopes
  /\ statusFilter \in Statuses \cup {"ALL"} /\ modelFilter \in ModelIds \cup {"ALL"}
  /\ selected \in Traces \cup {None}
  /\ spans \in [Traces -> (SUBSET AllSpans) \cup {None}]
  /\ askedSpans \subseteq Traces
  /\ selectedSpan \in AllSpans \cup {None}

----------------------------------------------------------------------------
KeyWithoutAgent(s) == CHOOSE u \in Scopes : TRUE   \* mutant: one key for all agents
TracesKey(s) == s
SpansKey(t) == t

Table == IF rows[TracesKey(scope)] = None THEN {} ELSE rows[TracesKey(scope)]

ModelsOffered == {ModelOf[t] : t \in Table}
Passes(t) == /\ statusFilter \in {"ALL", StatusOf[t]}
             /\ modelFilter \in {"ALL", ModelOf[t]}
Filtered == {t \in Table : Passes(t)}

RowsShown  == TracesKey(scope) \notin failed /\ rows[TracesKey(scope)] # None
SheetOpen  == selected # None
SpansShown == IF SheetOpen /\ spans[SpansKey(selected)] # None
              THEN spans[SpansKey(selected)] ELSE {}

\* What the sheet draws: the spans, and the attributes of the chosen one.
SpanAttributes == {selectedSpan} \ {None}
TraceDetail    == SpansShown \cup SpanAttributes

----------------------------------------------------------------------------
\* The gateway records a trace, or drops one that is too old.
Record(t) ==
  /\ recorded' = IF t \in recorded THEN recorded \ {t} ELSE recorded \cup {t}
  /\ UNCHANGED <<scope, query, filters, sheet>>

\* The scope is chosen in the frame, or moves when the tenant is gone from a new
\* list, which leaves an open sheet where it is.
ChooseScope(s) ==
  /\ scope' = s
  /\ UNCHANGED <<recorded, query, filters, sheet>>

Fetch ==
  /\ TracesKey(scope) \notin {TracesKey(s) : s \in asked}
  /\ asked' = asked \cup {scope}
  /\ failed' = IF rows[TracesKey(scope)] = None THEN failed \ {TracesKey(scope)} ELSE failed
  /\ UNCHANGED <<recorded, scope, rows, filters, sheet>>

Answered(s) ==
  /\ s \in asked
  /\ rows' = [rows EXCEPT ![TracesKey(s)] = {t \in recorded : s \in ScopesOf[t]}]
  /\ asked' = asked \ {s} /\ failed' = failed \ {TracesKey(s)}
  /\ UNCHANGED <<recorded, scope, filters, sheet>>

Fails(s) ==
  /\ s \in asked
  /\ asked' = asked \ {s} /\ failed' = failed \cup {TracesKey(s)}
  /\ UNCHANGED <<recorded, scope, rows, filters, sheet>>

SetStatusFilter(s) ==
  /\ ~SheetOpen
  /\ statusFilter' = s
  /\ UNCHANGED <<recorded, scope, query, modelFilter, sheet>>

\* A card of the status strip sets its filter, and clears it when set.
ClickStatus(s) ==
  /\ ~SheetOpen
  /\ statusFilter' = IF statusFilter = s THEN "ALL" ELSE s
  /\ UNCHANGED <<recorded, scope, query, modelFilter, sheet>>

SetModelFilter(m) ==
  /\ ~SheetOpen /\ m \in ModelsOffered \cup {"ALL"}
  /\ modelFilter' = m
  /\ UNCHANGED <<recorded, scope, query, statusFilter, sheet>>

OpenTrace(t) ==
  /\ ~SheetOpen /\ RowsShown /\ t \in Filtered
  /\ selected' = t
  /\ UNCHANGED <<recorded, scope, query, filters, spans, askedSpans, selectedSpan>>

\* The detail of the trace is unmounted with its choice of a span.
CloseSheet ==
  /\ SheetOpen
  /\ selected' = None /\ selectedSpan' = None
  /\ UNCHANGED <<recorded, scope, query, filters, spans, askedSpans>>

FetchSpans ==
  /\ SheetOpen
  /\ SpansKey(selected) \notin {SpansKey(t) : t \in askedSpans}
  /\ askedSpans' = askedSpans \cup {selected}
  /\ UNCHANGED <<recorded, scope, query, filters, selected, spans, selectedSpan>>

\* Spans are exported in batches: an answer may hold some of them, and holds
\* none when the scope has left the trace's tenant.
SpansAnswered(t) ==
  /\ t \in askedSpans
  /\ \E s \in SUBSET SpansOf[t] : spans' = [spans EXCEPT ![SpansKey(t)] = s]
  /\ askedSpans' = askedSpans \ {t}
  /\ UNCHANGED <<recorded, scope, query, filters, selected, selectedSpan>>

SelectSpan(x) ==
  /\ x \in SpansShown
  /\ selectedSpan' = x
  /\ UNCHANGED <<recorded, scope, query, filters, selected, spans, askedSpans>>

----------------------------------------------------------------------------
Init ==
  /\ recorded = {} /\ scope \in Scopes
  /\ rows = [s \in Scopes |-> None] /\ asked = {} /\ failed = {}
  /\ statusFilter = "ALL" /\ modelFilter = "ALL"
  /\ selected = None /\ spans = [t \in Traces |-> None] /\ askedSpans = {}
  /\ selectedSpan = None

Next ==
  \/ \E t \in Traces : Record(t) \/ OpenTrace(t) \/ SpansAnswered(t)
  \/ \E s \in Scopes : ChooseScope(s) \/ Answered(s) \/ Fails(s)
  \/ SetStatusFilter("ALL")
  \/ \E s \in Statuses : SetStatusFilter(s) \/ ClickStatus(s)
  \/ \E m \in ModelIds \cup {"ALL"} : SetModelFilter(m)
  \/ Fetch \/ CloseSheet \/ FetchSpans
  \/ \E x \in AllSpans : SelectSpan(x)

Spec == Init /\ [][Next]_vars

----------------------------------------------------------------------------
\* The table never shows the traces of another tenant or agent, however late
\* an answer for an earlier choice arrives (api/traces.ts:29-43).
RowsOfScope == \A t \in Table : scope \in ScopesOf[t]

\* The waterfall, and the span whose attributes are shown below it, belong to
\* the trace of the sheet, whatever is cached, on its way or was chosen in an
\* earlier sheet (Traces.tsx:171-173, 225-230, 391-405).
SpansOfSelected == TraceDetail \subseteq IF SheetOpen THEN SpansOf[selected] ELSE {}
=============================================================================
