------------------------- MODULE MCConsoleSession -------------------------
(***************************************************************************)
(* The console around its pages, for TLC: sessions and the list of tenants,*)
(* and beside them the frame that chooses what is shown, the Traces page,  *)
(* the tree of a trace, and the theme.  The parts share no variable, so    *)
(* one of them moves in a behaviour, and the others stay where they start. *)
(***************************************************************************)
EXTENDS ConsoleSession, TLC

CONSTANTS Parts,   \* the parts that may move
          t1, t2, ann, ben, acme, orbit, bot, aide,          \* those of the run
          None, Organizations, Agents, TenantOf,             \* ConsoleNav
          Traces, Scopes, ScopesOf, StatusOf, ModelOf, SpansOf,   \* TraceView
          MaxSpans, MaxStart, Tabs                           \* SpanTree, ThemeChoice

VARIABLES
  moving,
  tenants, known, signedIn, isSuperAdmin, page, activeTenantId, selectedAgent,
  agents, fetching, deleteConfirm, awaited, sent, moved,            \* ConsoleNav
  recorded, scope, rows, asked, failed, statusFilter, modelFilter,
  selected, spans, askedSpans, selectedSpan,                        \* TraceView
  answer, next, nodeMap, linked, roots, stack, ordered,             \* SpanTree
  stored, prefers, theme, drawn, root, chosen                       \* ThemeChoice

navVars   == <<tenants, known, signedIn, isSuperAdmin, page, activeTenantId,
               selectedAgent, agents, fetching, deleteConfirm, awaited, sent, moved>>
traceVars == <<recorded, scope, rows, asked, failed, statusFilter, modelFilter,
               selected, spans, askedSpans, selectedSpan>>
treeVars  == <<answer, next, nodeMap, linked, roots, stack, ordered>>
themeVars == <<stored, prefers, theme, drawn, root, chosen>>

(* A token for each user. *)
Issued == t1 :> ann @@ t2 :> ben

(* Two tenants with one agent each. *)
Registered == bot :> acme @@ aide :> orbit

(* A trace of each tenant, of one model, and of one span each. *)
InScope   == [t \in Traces |-> IF t = "first" THEN {acme} ELSE {orbit}]
Outcome   == [t \in Traces |-> IF t = "first" THEN "OK" ELSE "ERROR"]
ModelName == [t \in Traces |-> "gpt"]
Spanned   == [t \in Traces |-> IF t = "first" THEN {"s1"} ELSE {"s2"}]

Nav    == INSTANCE ConsoleNav WITH Tenants <- Organizations, list <- known
View   == INSTANCE TraceView
Tree   == INSTANCE SpanTree WITH spans <- answer
Themes == INSTANCE ThemeChoice

ASSUME NavAssumption  == Nav!NavAssumption
ASSUME ViewAssumption == View!TraceViewAssumption
ASSUME TreeAssumption == Tree!SpanTreeAssumption
ASSUME ThemeAssumption == Themes!ThemeAssumption

MCInit ==
  /\ moving \in Parts
  /\ Init      /\ (moving # "session" => member = [u \in Users |-> {}])
  /\ Nav!Init  /\ (moving # "nav" => known.first = acme /\ isSuperAdmin)
  /\ View!Init /\ (moving # "traces" => scope = acme)
  /\ IF moving = "tree" THEN Tree!Init
     ELSE /\ answer = <<>> /\ next = 1 /\ nodeMap = <<>> /\ linked = FALSE
          /\ roots = <<>> /\ stack = <<>> /\ ordered = <<>>
  /\ Themes!Init /\ (moving # "theme" => prefers = "dark")

MCNext ==
  \/ moving = "session" /\ Next
     /\ UNCHANGED <<moving, navVars, traceVars, treeVars, themeVars>>
  \/ moving = "nav"     /\ Nav!Next
     /\ UNCHANGED <<moving, vars, traceVars, treeVars, themeVars>>
  \/ moving = "traces"  /\ View!Next
     /\ UNCHANGED <<moving, vars, navVars, treeVars, themeVars>>
  \/ moving = "tree"    /\ Tree!Next
     /\ UNCHANGED <<moving, vars, navVars, traceVars, themeVars>>
  \/ moving = "theme"   /\ Themes!Next
     /\ UNCHANGED <<moving, vars, navVars, traceVars, treeVars>>

MCSpec == MCInit /\ [][MCNext]_<<moving, vars, navVars, traceVars, treeVars, themeVars>>

-----------------------------------------------------------------------------
(***************************************************************************)
(* What is shown is of the scope that was chosen: an agent of the tenant,  *)
(* traces of the scope, and spans of the trace of the sheet; and a         *)
(* confirmation is closed by its own answer only (App.tsx:64-72,           *)
(* Tenants.tsx:43-46, Traces.tsx:171-230, 391-405).                        *)
(***************************************************************************)
ShownIsOfScope ==
  /\ Nav!TypeOK  /\ Nav!AgentChosenInScope /\ Nav!ConfirmationIsOwn
  /\ View!TypeOK /\ View!RowsOfScope /\ View!SpansOfSelected

(***************************************************************************)
(* The rows of a trace are its spans, each once, indented below its parent *)
(* and by start among its siblings; a cycle of parents hangs nothing       *)
(* (Traces.tsx:45-68).                                                     *)
(***************************************************************************)
TreeIsWhole ==
  Tree!TypeOK /\ Tree!ShownOnce /\ Tree!IndentedUnderParent /\ Tree!SiblingsByStart

(***************************************************************************)
(* Every tab wears exactly the theme its buttons say, and one that loads   *)
(* takes the choice made last in any tab (theme-provider.tsx:29-58).       *)
(***************************************************************************)
ThemeIsChosen == [](Themes!TypeOK /\ Themes!RaisedIsWorn) /\ Themes!LoadTakesLastChoice
=============================================================================
