-------------------------- MODULE UpstreamConsole --------------------------
(***************************************************************************)
(* The provider keys of one tenant: the Upstreams page with its dialog,    *)
(* another client of the admin API, the handlers that write the table of   *)
(* upstreams and then change the router, the deletion of the tenant, and   *)
(* the restart that builds the router again.                               *)
(*                                                                         *)
(* A handler runs step by step beside the others.  Credentials and base    *)
(* URLs are left out; a key is its label, its provider and its models.     *)
(***************************************************************************)
EXTENDS Naturals, FiniteSets

CONSTANTS Labels,       \* key identifiers
          Providers,
          Models,
          ProviderOf,   \* the provider whose listing holds a model
          MaxRows,      \* bound: rows ever inserted
          MaxCalls,     \* bound: calls ever sent
          None

\* A row of the table, as far as the router needs it.
Row == [label : Labels, provider : Providers, models : SUBSET Models]

\* What a call sends: an update may leave out provider and models.
Body == [label : Labels, provider : Providers \cup {None}, models : SUBSET Models]

UpstreamAssumption ==
  /\ ProviderOf \in [Models -> Providers]
  /\ None \notin Labels \cup Providers /\ None \notin Row
  /\ MaxRows \in Nat \ {0} /\ MaxCalls \in Nat

VARIABLES
  rows,       \* rows[i]: the upstream with primary key i, None if deleted or unused
  nextId,     \* the next primary key
  endpoints,  \* the endpoints of the router
  deleting,   \* the handler that deletes the tenant is running
  left,       \* the labels it has yet to take from the router
  call,       \* call[c]: a call of the API and the handler that serves it
  list,       \* the rows the page shows
  form,       \* the dialog
  latest,     \* the last creation and the last update the page sent
  crossed,    \* history: labels that were used twice or served twice at once
  emptied,    \* history: labels whose last update named no models, since the restart
  retyped     \* history: an update named another provider and no models

server == <<rows, nextId, endpoints, deleting, left, crossed, emptied>>
page   == <<list, form, latest, retyped>>
vars   == <<server, call, page>>

Ids   == 1..MaxRows
Calls == 1..MaxCalls
Kinds == {"create", "update", "delete"}
Route == [label : Labels, provider : Providers, model : Models]
Call  == [kind : Kinds, phase : {"unused", "sent", "found", "written", "removed", "done", "over"},
          label : Labels \cup {None}, body : Body \cup {None},
          id : Ids \cup {0}, row : Row \cup {None}]
Form  == [open : BOOLEAN, editing : Labels \cup {None}, label : Labels \cup {None},
          provider : Providers, models : SUBSET Models]

TypeOK ==
  /\ rows \in [Ids -> Row \cup {None}] /\ nextId \in 1..(MaxRows + 1)
  /\ endpoints \subseteq Route
  /\ deleting \in BOOLEAN /\ left \subseteq Labels
  /\ call \in [Calls -> Call]
  /\ list \subseteq Row
  /\ form \in Form
  /\ latest \in [Kinds \ {"delete"} -> Calls \cup {0}]
  /\ crossed \subseteq Labels /\ emptied \subseteq Labels /\ retyped \in BOOLEAN

----------------------------------------------------------------------------
Live == {i \in Ids : rows[i] # None}
RowsOf(l) == {i \in Live : rows[i].label = l}
First(l)  == CHOOSE i \in RowsOf(l) : \A j \in RowsOf(l) : i <= j

Routes(r, models) == {[label |-> r.label, provider |-> r.provider, model |-> m] : m \in models}
EndpointsOf(r) == Routes(r, r.models)
Routed  == UNION {EndpointsOf(rows[i]) : i \in Live}
Add(r)  == endpoints \cup EndpointsOf(r)
RemoveNothing(l) == endpoints            \* mutant: the router is not told
Remove(l) == {e \in endpoints : e.label # l}

\* A handler is running once it has read the table.
Running(c) == call[c].phase \in {"found", "written", "removed"}
Busy(l) == \E c \in Calls : Running(c) /\ call[c].label = l

Step(c, phase) == call' = [call EXCEPT ![c].phase = phase]

\* A call that has not been sent, and what is left of one that is over.
Unused == [kind |-> "create", phase |-> "unused", label |-> None, body |-> None,
           id |-> 0, row |-> None]
Gone   == [Unused EXCEPT !.phase = "over"]
Ends(c) == call' = [call EXCEPT ![c] = Gone]

\* A label is crossed when a handler finds another one at work on it.
Cross(l, used) == crossed' = IF Busy(l) \/ deleting \/ used THEN crossed \cup {l} ELSE crossed

CreateInserts(c) ==
  /\ call[c].kind = "create" /\ call[c].phase = "sent" /\ nextId \in Ids
  /\ rows' = [rows EXCEPT ![nextId] = call[c].body]
  /\ nextId' = nextId + 1
  /\ Step(c, "written")
  /\ Cross(call[c].label, RowsOf(call[c].label) # {})
  /\ UNCHANGED <<endpoints, deleting, left, emptied, page>>

CreateAdds(c) ==
  /\ call[c].kind = "create" /\ call[c].phase = "written"
  /\ endpoints' = Add(call[c].body)
  /\ Step(c, "done")
  /\ emptied' = emptied \ {call[c].label}
  /\ UNCHANGED <<rows, nextId, deleting, left, crossed, page>>

\* An update changes of the row it found what its body says.
Merged(r, b) == [label    |-> r.label,
                 provider |-> IF b.provider = None THEN r.provider ELSE b.provider,
                 models   |-> IF b.models = {} THEN r.models ELSE b.models]

\* Updates and deletions look for the first row with the label.
Finds(c) ==
  LET first == First(call[c].label)
      row   == IF call[c].kind = "update" THEN Merged(rows[first], call[c].body) ELSE None
  IN  /\ call[c].kind # "create" /\ call[c].phase = "sent"
      /\ RowsOf(call[c].label) # {}
      /\ call' = [call EXCEPT ![c] = [@ EXCEPT !.phase = "found", !.id = first, !.row = row]]
      /\ Cross(call[c].label, FALSE)
      /\ UNCHANGED <<rows, nextId, endpoints, deleting, left, emptied, page>>

NotFound(c) ==
  /\ call[c].kind # "create" /\ call[c].phase = "sent"
  /\ RowsOf(call[c].label) = {}
  /\ Ends(c)
  /\ UNCHANGED <<server, page>>

\* Save inserts the row again if a deletion came between.
UpdateSaves(c) ==
  /\ call[c].kind = "update" /\ call[c].phase = "found"
  /\ rows' = [rows EXCEPT ![call[c].id] = call[c].row]
  /\ Step(c, "written")
  /\ UNCHANGED <<nextId, endpoints, deleting, left, crossed, emptied, page>>

DeleteDeletes(c) ==
  /\ call[c].kind = "delete" /\ call[c].phase = "found"
  /\ rows' = [rows EXCEPT ![call[c].id] = None]
  /\ Step(c, "written")
  /\ UNCHANGED <<nextId, endpoints, deleting, left, crossed, emptied, page>>

Removes(c) ==
  /\ call[c].kind # "create" /\ call[c].phase = "written"
  /\ endpoints' = Remove(call[c].label)
  /\ Step(c, IF call[c].kind = "update" THEN "removed" ELSE "done")
  /\ UNCHANGED <<rows, nextId, deleting, left, crossed, emptied, page>>

\* The router is given the models of the body, not those of the row.
UpdateAdds(c) ==
  /\ call[c].phase = "removed"
  /\ endpoints' = endpoints \cup Routes(call[c].row, call[c].body.models)
  /\ Step(c, "done")
  /\ emptied' = IF call[c].body.models = {} THEN emptied \cup {call[c].label}
                                            ELSE emptied \ {call[c].label}
  /\ UNCHANGED <<rows, nextId, deleting, left, crossed, page>>

\* The tenant is deleted: its labels leave the router, then its rows go.  A
\* deletion that fails at the tenant itself may be asked for again.
TenantFinds ==
  /\ ~deleting
  /\ deleting' = TRUE
  /\ left' = {rows[i].label : i \in Live}
  /\ crossed' = crossed \cup {l \in Labels : Busy(l)}
  /\ UNCHANGED <<rows, nextId, endpoints, emptied, call, page>>

TenantRemoves(l) ==
  /\ l \in left
  /\ endpoints' = Remove(l)
  /\ left' = left \ {l}
  /\ UNCHANGED <<rows, nextId, deleting, crossed, emptied, call, page>>

TenantDeletes ==
  /\ deleting /\ left = {}
  /\ deleting' = FALSE
  /\ rows' = [i \in Ids |-> None]
  /\ UNCHANGED <<nextId, endpoints, left, crossed, emptied, call, page>>

\* Handlers die where they are; the router is built from the table.
Restart ==
  /\ endpoints' = Routed
  /\ call' = [c \in Calls |-> IF Running(c) THEN Gone ELSE call[c]]
  /\ deleting' = FALSE /\ left' = {}
  /\ crossed' = {l \in Labels : Cardinality(RowsOf(l)) > 1}
  /\ emptied' = {}
  /\ UNCHANGED <<rows, nextId, page>>

----------------------------------------------------------------------------

Closed == [open |-> FALSE, editing |-> None, label |-> None,
           provider |-> CHOOSE p \in Providers : TRUE, models |-> {}]

FormOf(r) == [open |-> TRUE, editing |-> r.label, label |-> r.label,
              provider |-> r.provider, models |-> r.models]

Shows(f) == form' = f /\ UNCHANGED <<server, call, list, latest, retyped>>

AddProviderKey == ~form.open /\ Shows([form EXCEPT !.open = TRUE])

HandleEdit == ~form.open /\ \E r \in list : Shows(FormOf(r))

ResetForm == form.open /\ Shows(Closed)

ChooseLabel(l) ==
  form.open /\ form.editing = None /\ Shows([form EXCEPT !.label = l])

HandleProviderChange(p) ==
  form.open /\ Shows([form EXCEPT !.provider = p, !.models = {}])

\* The models listed are those of the provider in the form.
Offered == {m \in Models : ProviderOf[m] = form.provider}

ToggleModel(m) ==
  /\ form.open /\ m \in Offered
  /\ Shows([form EXCEPT !.models = IF m \in @ THEN @ \ {m} ELSE @ \cup {m}])

\* A new key needs its secret too, which is left out.
SubmitEnabled == form.open /\ form.label # None /\ form.models # {}

Send(c, k, l, b) ==
  /\ call[c].phase = "unused"
  /\ \A d \in Calls : call[d].phase = "unused" => c <= d
  /\ call' = [call EXCEPT ![c] = [kind |-> k, phase |-> "sent", label |-> l, body |-> b,
                                  id |-> 0, row |-> None]]
  /\ UNCHANGED <<server, list, form>>

\* The dialog sends, and its mutation answers to its last call only.
Submit(c, k, l, b) == Send(c, k, l, b) /\ latest' = [latest EXCEPT ![k] = c]

\* Another client of the API updates a key without naming models: its secret,
\* its base URL or its provider.
UpdatePartly(c) ==
  \E l \in Labels, p \in Providers \cup {None} :
    /\ Send(c, "update", l, [label |-> l, provider |-> p, models |-> {}])
    /\ retyped' = (retyped \/ p # None)
    /\ UNCHANGED latest

HandleSubmit(c) ==
  LET body == [label |-> form.label, provider |-> form.provider, models |-> form.models]
  IN  /\ SubmitEnabled
      /\ IF form.editing # None THEN Submit(c, "update", form.editing, body)
                                ELSE Submit(c, "create", form.label, body)
      /\ UNCHANGED retyped

HandleDelete(c) ==
  /\ ~form.open
  /\ \E r \in list : Send(c, "delete", r.label, None)
  /\ UNCHANGED <<latest, retyped>>

\* The answer of the page's last call of its kind closes the dialog.
Answered(c) ==
  /\ call[c].phase = "done"
  /\ Ends(c)
  /\ form' = IF call[c].kind # "delete" /\ latest[call[c].kind] = c THEN Closed ELSE form
  /\ UNCHANGED <<server, list, latest, retyped>>

Lost(c) ==
  /\ call[c].phase \in {"sent", "done"}
  /\ Ends(c)
  /\ UNCHANGED <<server, page>>

\* The list is fetched after every answer and whenever the page is looked at.
ListShown ==
  /\ list' = {rows[i] : i \in Live}
  /\ UNCHANGED <<server, call, form, latest, retyped>>

----------------------------------------------------------------------------
Init ==
  /\ \E r \in Row : /\ r.models # {} /\ \A m \in r.models : ProviderOf[m] = r.provider
                    /\ rows = [i \in Ids |-> IF i = 1 THEN r ELSE None]
                    /\ endpoints = EndpointsOf(r)
                    /\ list = {r}
  /\ nextId = 2
  /\ call = [c \in Calls |-> Unused]
  /\ form = Closed
  /\ latest = [k \in Kinds \ {"delete"} |-> 0]
  /\ deleting = FALSE /\ left = {}
  /\ crossed = {} /\ emptied = {} /\ retyped = FALSE

Next ==
  \/ \E c \in Calls :
       \/ CreateInserts(c) \/ CreateAdds(c) \/ Finds(c) \/ NotFound(c)
       \/ UpdateSaves(c) \/ DeleteDeletes(c) \/ Removes(c) \/ UpdateAdds(c)
       \/ HandleSubmit(c) \/ HandleDelete(c) \/ UpdatePartly(c) \/ Answered(c) \/ Lost(c)
  \/ AddProviderKey \/ HandleEdit \/ ResetForm
  \/ \E l \in Labels : ChooseLabel(l)
  \/ \E p \in Providers : HandleProviderChange(p)
  \/ \E m \in Models : ToggleModel(m)
  \/ TenantFinds \/ TenantDeletes \/ \E l \in Labels : TenantRemoves(l)
  \/ ListShown \/ Restart

Spec == Init /\ [][Next]_vars

----------------------------------------------------------------------------
\* A label whose handlers never overlapped and that was never used twice is
\* routed exactly as its row says, once no handler is running, whatever
\* sequence of additions, edits, deletions and restarts led there; except that
\* an update that named no models leaves the row its models and the label
\* unrouted, until an update that names some or a restart (server.go:553-582,
\* 1054-1151, main.go:88-115).
InSync ==
  \A l \in Labels \ crossed : ~Busy(l) /\ ~deleting =>
    {e \in endpoints : e.label = l}
      = IF l \in emptied THEN {} ELSE {e \in Routed : e.label = l}

\* A row never mixes the models of two providers, through stale rows, changes
\* of mind in the dialog and overlapping updates (Upstreams.tsx:81-91), as long
\* as no client of the API changes the provider alone.
ModelsOfItsProvider ==
  retyped \/ \A i \in Live : \A m \in rows[i].models : ProviderOf[m] = rows[i].provider

\* "Unique label" (docs/upstreams.md:36).
UniqueLabel == \A l \in Labels : Cardinality(RowsOf(l)) <= 1

\* "Click the trash icon to remove a provider key.  The router immediately
\* stops routing to it" (docs/upstreams.md:59).
DeletedIsNotRouted ==
  \A e \in endpoints : \A c \in Calls :
    call[c].kind = "delete" /\ call[c].phase = "done" /\ call[c].label = e.label
      => RowsOf(e.label) # {} \/ Busy(e.label)

\* "Every provider key you add becomes an endpoint" (docs/upstreams.md:69); an
\* update without models takes its endpoints away.
EveryKeyIsAnEndpoint ==
  \A i \in Live : Busy(rows[i].label) \/ EndpointsOf(rows[i]) \subseteq endpoints
=============================================================================
