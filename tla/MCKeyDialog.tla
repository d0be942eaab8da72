---------------------------- MODULE MCKeyDialog ----------------------------
(***************************************************************************)
(* The console's pages around keys and models, for TLC: the dialog that    *)
(* creates keys, and beside it the table of the keys, the integration      *)
(* guide with its copy buttons, and the picker of a provider's models.     *)
(* The parts share no variable, so one of them moves in a behaviour, and   *)
(* the others stay where they start.                                       *)
(***************************************************************************)
EXTENDS KeyDialog, FiniteSets, TLC

CONSTANTS Parts,   \* the parts that may move
          acme, bot, ann, kb, ku, k1, k2,                    \* those of the run
          Keys, AgentOf, UserOf, Slots,                      \* KeyTable
          Life, MaxTimers,                                   \* IntegrationGuide
          Providers, Urls, ApiKeys, Models, DefaultUrl,
          ConfigKey, ConfigUrl, Custom                       \* ModelPicker

VARIABLES
  moving,
  rows, calls, list, failed, fetch, missed,                        \* KeyTable
  tenantId, onPage, isGuideOpen, tab, copied, timers, writes,
  clipboard, refused, last, since,                                 \* IntegrationGuide
  editing, row, past, draft, selected, data, flight, cache, listed \* ModelPicker

tableVars  == <<rows, calls, list, failed, fetch, missed>>
guideVars  == <<tenantId, onPage, isGuideOpen, tab, copied, timers, writes,
                clipboard, refused, last, since>>
pickerVars == <<editing, row, past, draft, selected, data, flight, cache, listed>>

(* Two tenants: one with an agent and a member, one without. *)
BelongsTo == bot :> acme @@ ann :> acme

(* A key of an agent and a user, and one of a user only. *)
OfBot == kb :> bot @@ ku :> None
OfAnn == kb :> ann @@ ku :> ann

(* A provider with a URL of its own and one with any URL; the gateway's    *)
(* file has a key for the first, other than the one that is typed.         *)
OwnUrl  == [p \in Providers |-> IF p = Custom THEN "" ELSE "u1"]
FileKey == [p \in Providers |-> IF p = Custom THEN None ELSE k2]

Table  == INSTANCE KeyTable WITH Users <- Members
Guide  == INSTANCE IntegrationGuide
Picker == INSTANCE ModelPicker WITH Keys <- ApiKeys, form <- draft

ASSUME TableAssumption  == Table!KeyTableAssumption
ASSUME GuideAssumption  == Guide!GuideAssumption
ASSUME PickerAssumption == Picker!PickerAssumption

Held(f) == {x \in DOMAIN f : f[x] # None}

(* Bounds of the picker: three calls under way and lists kept, at most one  *)
(* of those in Redis; two accounts that list; one key that is typed; and a  *)
(* row with that key or the file's, changed or deleted and made again.  Of  *)
(* the guide's tabs, one whose code names the tenant and one other.         *)
Bounded ==
  /\ Cardinality(Held(flight)) + Cardinality(Held(data)) + Cardinality(Held(cache)) <= 3
  /\ Cardinality(Held(cache)) <= 1
  /\ Cardinality({a \in DOMAIN listed : listed[a] # {}}) <= 2
  /\ draft.key # k2 /\ Cardinality(past) <= 2
  /\ \A r \in past \ {None} : r.key # None /\ r.url = "u1"
  /\ tab \in {"python", "curl"}

MCInit ==
  /\ moving \in Parts
  /\ Init        /\ (moving # "dialog" => tenant = acme)
  /\ Table!Init  /\ (moving # "table" => rows = Table!NoKeys)
  /\ Guide!Init  /\ (moving # "guide" => tenantId = acme)
  /\ Picker!Init /\ (editing => (moving = "picker" /\ row = [key |-> k1, url |-> "u1"]))

MCNext ==
  \/ moving = "dialog" /\ Next
     /\ UNCHANGED <<moving, tableVars, guideVars, pickerVars>>
  \/ moving = "table"  /\ Table!Next
     /\ UNCHANGED <<moving, vars, guideVars, pickerVars>>
  \/ moving = "guide"  /\ Guide!Next
     /\ UNCHANGED <<moving, vars, tableVars, pickerVars>>
  \/ moving = "picker" /\ Picker!Next
     /\ UNCHANGED <<moving, vars, tableVars, guideVars>>

MCSpec == MCInit /\ [][MCNext]_<<moving, vars, tableVars, guideVars, pickerVars>>

-----------------------------------------------------------------------------
(***************************************************************************)
(* The table of keys is the gateway's when nothing is on its way, and the  *)
(* guide's check mark is fresh and tells what the clipboard holds          *)
(* (keys.ts:21-57, IntegrationGuide.tsx:15-23, 72-202).                    *)
(***************************************************************************)
PageIsTrue ==
  /\ Table!TypeOK /\ Table!QuietTableIsTrue /\ Table!FiltersCover
  /\ Guide!TypeOK /\ Guide!MarkIsFresh /\ Guide!MarkIsTrue

(***************************************************************************)
(* The models offered, and those ticked, are ones the provider has listed, *)
(* whatever answers for earlier forms arrive late and whatever the cache   *)
(* was left with (Upstreams.tsx:133-194, models.go:57-130).                *)
(***************************************************************************)
ModelsWereListed ==
  Picker!TypeOK /\ Picker!OfferedWasListed /\ Picker!TickedOfProvider
=============================================================================
