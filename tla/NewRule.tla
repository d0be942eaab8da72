------------------------------ MODULE NewRule ------------------------------
(***************************************************************************)
(* The dialog in which a guardrail rule is created.  It belongs to the     *)
(* Guardrails page, which takes it away with all it holds when the list of *)
(* rules cannot be fetched, and brings it back, still open, when it can.   *)
(*                                                                         *)
(* The rest of the page is out of reach while the dialog is shown, but not *)
(* the call it has sent, and not the agent chosen in the sidebar once the  *)
(* list has failed.                                                        *)
(***************************************************************************)
EXTENDS Naturals, FiniteSets

CONSTANTS Agents,
          Texts,   \* what is typed: name, patterns, action; no text is typed twice
          Slots,   \* bound: calls under way at a time
          None

NewRuleAssumption ==
  /\ None \notin Agents \cup Texts \cup Slots /\ "all" \notin Agents

VARIABLES
  selectedAgent,
  isError,       \* the page shows that the list failed
  isNewRuleOpen, \* kept by the page, not by the dialog
  draft,         \* kept by the dialog
  isPending,     \* the call the dialog waits for
  calls,
  rows,          \* the rules in the gateway's table
  used,          \* history: texts typed so far
  asked,         \* history: text and agent as the dialog showed them on the click
  announced      \* history: texts whose creation the dialog has heard of

dialog  == <<isNewRuleOpen, draft, isPending>>
history == <<used, asked, announced>>
vars == <<selectedAgent, isError, dialog, calls, rows, history>>

Directions == {"input", "output"}
Rule  == [text : Texts, agent : Agents \cup {None}]
Draft == [text : Texts \cup {None}, scope : SUBSET Directions, agentScoped : BOOLEAN]
Call  == [rule : Rule, at : {"sent", "done", "refused"}]
Blank == [text |-> None, scope |-> {"input"}, agentScoped |-> FALSE]

TypeOK ==
  /\ selectedAgent \in Agents \cup {"all"} /\ isError \in BOOLEAN
  /\ isNewRuleOpen \in BOOLEAN /\ draft \in Draft /\ isPending \in Slots \cup {None}
  /\ calls \in [Slots -> Call \cup {None}] /\ rows \subseteq Rule
  /\ used \subseteq Texts /\ announced \subseteq Texts
  /\ asked \subseteq Texts \X (Agents \cup {None})

----------------------------------------------------------------------------
Shown == isNewRuleOpen /\ ~isError

IsAgentMode == selectedAgent # "all"

Valid == draft.text # None /\ draft.scope # {}

\* The switch beside the agent's name is there in agent mode only.
RequestForAgent ==                         \* mutant: agent mode is enough
  [text |-> draft.text,
   agent |-> IF IsAgentMode THEN selectedAgent ELSE None]
Request ==
  [text |-> draft.text,
   agent |-> IF IsAgentMode /\ draft.agentScoped THEN selectedAgent ELSE None]

At(s, at)   == calls[s] # None /\ calls[s].at = at
Goes(s, at) == calls' = [calls EXCEPT ![s].at = at]

----------------------------------------------------------------------------
OpenNewRule ==
  /\ ~isNewRuleOpen /\ ~isError
  /\ isNewRuleOpen' = TRUE
  /\ UNCHANGED <<selectedAgent, isError, draft, isPending, calls, rows, history>>

TypeText(t) ==
  /\ Shown /\ t \notin used
  /\ draft' = [draft EXCEPT !.text = t]
  /\ used' = used \cup {t}
  /\ UNCHANGED <<selectedAgent, isError, isNewRuleOpen, isPending, calls, rows, asked, announced>>

ToggleScope(d) ==
  /\ Shown
  /\ draft' = [draft EXCEPT !.scope = IF d \in @ THEN @ \ {d} ELSE @ \cup {d}]
  /\ UNCHANGED <<selectedAgent, isError, isNewRuleOpen, isPending, calls, rows, history>>

ToggleAgentScoped ==
  /\ Shown /\ IsAgentMode
  /\ draft' = [draft EXCEPT !.agentScoped = ~@]
  /\ UNCHANGED <<selectedAgent, isError, isNewRuleOpen, isPending, calls, rows, history>>

\* reset and onClose; the call goes on.
Dismiss ==
  /\ Shown
  /\ draft' = Blank /\ isNewRuleOpen' = FALSE
  /\ UNCHANGED <<selectedAgent, isError, isPending, calls, rows, history>>

HandleSubmit(s) ==
  /\ Shown /\ Valid /\ isPending = None /\ calls[s] = None
  /\ calls' = [calls EXCEPT ![s] = [rule |-> Request, at |-> "sent"]]
  /\ isPending' = s
  /\ asked' = asked \cup {<<draft.text, IF IsAgentMode /\ draft.agentScoped
                                        THEN selectedAgent ELSE None>>}
  /\ UNCHANGED <<selectedAgent, isError, isNewRuleOpen, draft, rows, used, announced>>

----------------------------------------------------------------------------
Insert(s) ==
  /\ At(s, "sent")
  /\ rows' = rows \cup {calls[s].rule}
  /\ Goes(s, "done")
  /\ UNCHANGED <<selectedAgent, isError, dialog, history>>

InsertFails(s) ==
  /\ At(s, "sent")
  /\ Goes(s, "refused")
  /\ UNCHANGED <<selectedAgent, isError, dialog, rows, history>>

\* A dialog that was taken away does not hear of the call.
Created(s) ==
  /\ At(s, "done")
  /\ calls' = [calls EXCEPT ![s] = None]
  /\ IF isPending = s
     THEN /\ draft' = Blank /\ isNewRuleOpen' = FALSE /\ isPending' = None
          /\ announced' = announced \cup {calls[s].rule.text}
     ELSE UNCHANGED <<dialog, announced>>
  /\ UNCHANGED <<selectedAgent, isError, rows, used, asked>>

\* The answer is a refusal, or lost; the dialog shows neither.
NotCreated(s) ==
  /\ At(s, "refused") \/ At(s, "done")
  /\ calls' = [calls EXCEPT ![s] = None]
  /\ isPending' = IF isPending = s THEN None ELSE isPending
  /\ UNCHANGED <<selectedAgent, isError, isNewRuleOpen, draft, rows, history>>

----------------------------------------------------------------------------
ListFails ==
  /\ isError' = TRUE
  /\ draft' = Blank /\ isPending' = None
  /\ UNCHANGED <<selectedAgent, isNewRuleOpen, calls, rows, history>>

ListFetched ==
  /\ isError' = FALSE
  /\ UNCHANGED <<selectedAgent, dialog, calls, rows, history>>

ChooseAgent(a) ==
  /\ ~Shown
  /\ selectedAgent' = a
  /\ UNCHANGED <<isError, dialog, calls, rows, history>>

\* Leaving for another page and coming back.
Leave ==
  /\ ~Shown
  /\ isNewRuleOpen' = FALSE /\ draft' = Blank /\ isPending' = None
  /\ UNCHANGED <<selectedAgent, isError, calls, rows, history>>

Init ==
  /\ selectedAgent = "all" /\ isError = FALSE
  /\ isNewRuleOpen = FALSE /\ draft = Blank /\ isPending = None
  /\ calls = [s \in Slots |-> None] /\ rows = {}
  /\ used = {} /\ asked = {} /\ announced = {}

Next ==
  \/ OpenNewRule \/ ToggleAgentScoped \/ Dismiss
  \/ \E t \in Texts : TypeText(t)
  \/ \E d \in Directions : ToggleScope(d)
  \/ \E s \in Slots : HandleSubmit(s) \/ Insert(s) \/ InsertFails(s) \/ Created(s) \/ NotCreated(s)
  \/ ListFails \/ ListFetched \/ Leave
  \/ \E a \in Agents \cup {"all"} : ChooseAgent(a)

Spec == Init /\ [][Next]_vars

----------------------------------------------------------------------------
\* A rule is for the agent the dialog named on the click, or for all, although
\* the agent may change under an open dialog, and the switch outlives clicks
\* (Guardrails.tsx:246-271, 350-355).
RulesAreForWhomShown == \A r \in rows : <<r.text, r.agent>> \in asked

\* A dialog that is not shown holds nothing of what was typed: the next one
\* that opens is blank, however the last one ended (Guardrails.tsx:250-276).
NothingIsLeftBehind == ~Shown => draft = Blank

\* What the dialog has heard was created is not offered to be created again,
\* although it may have been dismissed, reopened or taken away meanwhile.
CreatedIsNotOffered == Shown => draft.text \notin announced
=============================================================================
