--------------------------- MODULE MCRuleConsole ---------------------------
(***************************************************************************)
(* The Guardrails page for TLC: the list with its switches and the panel   *)
(* of a rule, and beside it the dialog that makes a rule, and the fires    *)
(* the panel counts.  The parts share no variable, so one of them moves    *)
(* in a behaviour, and the others stay where they start.                   *)
(***************************************************************************)
EXTENDS RuleConsole, FiniteSets, TLC

CONSTANTS Parts,   \* the parts that may move
          secret, custom, bot, aide, acme, orbit, Texts, Slots,   \* those of the run
          Tenants, TenantOf, Limit, MaxFires                      \* RuleEvents

VARIABLES
  moving,
  chosen, isError, isNewRuleOpen, draft, isPending, requests, made, used,
  asked, announced,                                                \* NewRule
  stored, aged, scope, listed, rows, panel, events, blank, heard   \* RuleEvents

newVars   == <<chosen, isError, isNewRuleOpen, draft, isPending, requests, made,
               used, asked, announced>>
eventVars == <<stored, aged, scope, listed, rows, panel, events, blank, heard>>

Symmetry == Permutations(Texts) \cup Permutations(Slots)

(* A global rule and a rule of the agent bot. *)
OwnerOf == secret :> None @@ custom :> bot

(* Two agents to choose from, and two drafts. *)
NewRules == INSTANCE NewRule
  WITH selectedAgent <- chosen, calls <- requests, rows <- made

(* Two rules of one tenant, and a second tenant. *)
Owner == [r \in {secret, custom} |-> acme]
Events == INSTANCE RuleEvents

ASSUME NewRulesAssumption == NewRules!NewRuleAssumption
ASSUME EventsAssumption   == Events!RuleEventsAssumption

(* One rule is on at the start, and the other off. *)
Mixed == [r \in Rules |-> r = secret]

(* Bound: fetches of fires under way at a time. *)
Bounded == Cardinality({k \in DOMAIN events : events[k].at # "none"}) <= 1

MCInit ==
  /\ moving \in Parts
  /\ Init /\ enabled = Mixed
  /\ NewRules!Init
  /\ Events!Init /\ (moving # "events" => scope = acme)

MCNext ==
  \/ moving = "list"   /\ Next          /\ UNCHANGED <<moving, newVars, eventVars>>
  \/ moving = "dialog" /\ NewRules!Next /\ UNCHANGED <<moving, vars, eventVars>>
  \/ moving = "events" /\ Events!Next   /\ UNCHANGED <<moving, vars, newVars>>

MCSpec == MCInit /\ [][MCNext]_<<moving, vars, newVars, eventVars>>

-----------------------------------------------------------------------------
(***************************************************************************)
(* A rule is made for whom the dialog named on the click, a dialog that    *)
(* opens is blank, and what it has heard was made is not offered again     *)
(* (Guardrails.tsx:246-276, 350-355).                                      *)
(***************************************************************************)
RulesAreForWhomShown ==
  /\ NewRules!TypeOK /\ NewRules!RulesAreForWhomShown
  /\ NewRules!NothingIsLeftBehind /\ NewRules!CreatedIsNotOffered

(***************************************************************************)
(* A panel that counts fires and has been answered shows some, and only a  *)
(* fire of its own rule takes the console down (Guardrails.tsx:118-189).   *)
(***************************************************************************)
CountedFiresAreFound ==
  Events!TypeOK /\ Events!CountedFiresAreFound /\ Events!BlankOverOwnFire
=============================================================================
