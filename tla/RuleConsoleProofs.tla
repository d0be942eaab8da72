------------------------- MODULE RuleConsoleProofs -------------------------
(***************************************************************************)
(* What the Guardrails page keeps for any rules, agents and number of      *)
(* updates; beside it the dialog that makes a rule, for any texts and      *)
(* calls, and the fires a panel shows, for any log and limit.              *)
(***************************************************************************)
EXTENDS MCRuleConsole, Sequences, FiniteSetTheorems, WellFoundedInduction, TLAPS

Flying(c) == call[c].phase \in {"sent", "applied"}

\* An update is only sent from rows that are loaded, and names a rule.
UpdatesHaveRows ==
  \A c \in Calls : call[c].phase # "unused" => list.loaded /\ call[c].id \in Rules

\* Rows, and an answer that has read the table, show the table.
AnswerIsTrue(r) ==
  (r \notin touched /\ ~InFlight(r)) =>
    /\ list.fetch = "read" => list.seen[r] = enabled[r]
    /\ (list.fetch = "idle" /\ list.loaded /\ list.status = "success")
         => list.data[r] = enabled[r]

\* A panel that is not in doubt agrees with the one update under way.
PanelAgreesWithUpdate ==
  (selected.id # None /\ selected.id \notin doubt) =>
    \A c \in Calls : (Flying(c) /\ call[c].id = selected.id) =>
      /\ call[c].enabled = selected.enabled
      /\ call[c].phase = "applied" => enabled[selected.id] = selected.enabled
      /\ \A d \in Calls : (Flying(d) /\ call[d].id = selected.id) => d = c

IInv == /\ TypeOK /\ UpdatesHaveRows
        /\ \A r \in Rules : AnswerIsTrue(r)
        /\ PanelAgreesWithUpdate /\ PanelIsTrue

\* The invariant holds when the rules page opens (Guardrails.tsx).
LEMMA InitIInv == Init => IInv
<1> SUFFICES ASSUME Init PROVE IInv
  OBVIOUS
<1> USE RuleConsoleAssumption DEF Init
<1>1. enabled \in Column /\ list \in List
  BY DEF List
<1>2. TypeOK
  BY <1>1 DEF TypeOK, Closed, Panel, Call
<1>3. UpdatesHaveRows /\ \A r \in Rules : AnswerIsTrue(r)
  BY DEF UpdatesHaveRows, AnswerIsTrue
<1>4. PanelAgreesWithUpdate /\ PanelIsTrue
  BY DEF PanelAgreesWithUpdate, PanelIsTrue, Closed
<1> QED
  BY <1>2, <1>3, <1>4 DEF IInv

\* A refetch or an invalidation of the list keeps its type.
LEMMA ListTyping ==
  ASSUME NEW l \in List
  PROVE  /\ Refetch(l) \in List /\ Invalidate(l) \in List
         /\ Refetch(l).fetch = "sent" /\ Refetch(l).loaded = l.loaded
         /\ Invalidate(l).loaded = l.loaded
BY DEF Refetch, Invalidate, List

\* A call that goes on to its next phase keeps its rule and the value it sends.
LEMMA MovedTyping ==
  ASSUME TypeOK, NEW c \in Calls, NEW p \in {"unused", "sent", "applied", "done"}
  PROVE  /\ Moved(c, p) \in [Calls -> Call]
         /\ Moved(c, p)[c].phase = p
         /\ \A d \in Calls : /\ Moved(c, p)[d].id = call[d].id
                             /\ Moved(c, p)[d].enabled = call[d].enabled
                             /\ d # c => Moved(c, p)[d] = call[d]
BY DEF TypeOK, Moved, Call

\* Switching a rule, from a row or from the panel.
LEMMA ToggleStep ==
  ASSUME IInv, NEW c \in Calls, NEW r \in Rules, NEW e \in BOOLEAN, RowsShown,
         Toggle(c, r, e)
  PROVE  IInv'
<1> USE DEF IInv, TypeOK
<1> DEFINE sent == [phase |-> "sent", id |-> r, enabled |-> e]
<1>1. /\ call' \in [Calls -> Call] /\ call'[c] = sent
      /\ \A d \in Calls : d # c => call'[d] = call[d]
  BY DEF Toggle, Call
<1>2. selected' \in Panel /\ doubt' \subseteq Rules
  BY DEF Toggle, Panel
<1>3. TypeOK'
  BY <1>1, <1>2 DEF Toggle
<1>4. UpdatesHaveRows'
  BY <1>1 DEF Toggle, RowsShown, UpdatesHaveRows
<1>5. \A s \in Rules : InFlight(s) => InFlight(s)'
  BY <1>1 DEF Toggle, InFlight
<1>6. InFlight(r)'
  BY <1>1 DEF InFlight
<1>7. \A s \in Rules : AnswerIsTrue(s)'
  BY <1>5 DEF Toggle, AnswerIsTrue
<1>8. PanelIsTrue'
  BY <1>5, <1>6 DEF Toggle, PanelIsTrue, Panel
<1>9. PanelAgreesWithUpdate'
  <2> SUFFICES ASSUME selected'.id # None, selected'.id \notin doubt'
               PROVE  \A d \in Calls : (Flying(d)' /\ call'[d].id = selected'.id) =>
                        /\ call'[d].enabled = selected'.enabled
                        /\ call'[d].phase = "applied" => enabled'[selected'.id] = selected'.enabled
                        /\ \A f \in Calls : (Flying(f)' /\ call'[f].id = selected'.id) => f = d
    BY DEF PanelAgreesWithUpdate
  <2>1. CASE selected.id = r
    <3>1. ~InFlight(r) /\ selected'.id = r /\ selected'.enabled = e
      BY <2>1 DEF Toggle
    <3>2. \A d \in Calls : (Flying(d)' /\ call'[d].id = r) => d = c
      BY <3>1, <1>1 DEF InFlight, Flying
    <3> QED
      BY <3>1, <3>2, <1>1
  <2>2. CASE selected.id # r
    <3>1. selected' = selected /\ enabled' = enabled /\ selected.id \notin doubt
      BY <2>2 DEF Toggle
    <3>2. \A d \in Calls : (Flying(d)' /\ call'[d].id = selected.id) =>
                              d # c /\ Flying(d) /\ call[d].id = selected.id
      BY <2>2, <1>1 DEF Flying
    <3> QED
      BY <3>1, <3>2, <1>1 DEF PanelAgreesWithUpdate
  <2> QED
    BY <2>1, <2>2
<1> QED
  BY <1>3, <1>4, <1>7, <1>8, <1>9

\* What the user does on the page keeps the invariant.
LEMMA ViewStep ==
  ASSUME IInv, \/ \E r \in Rules : Select(r) \/ Elsewhere(r)
               \/ ClosePanel
               \/ \E a \in {"all"} \cup Agents : ChooseAgent(a)
  PROVE  IInv'
<1> USE RuleConsoleAssumption DEF IInv, TypeOK
<1>1. ASSUME NEW r \in Rules, Select(r) PROVE IInv'
  <2>1. selected' \in Panel /\ doubt' \subseteq Rules
    BY <1>1 DEF Select, Closed, Panel, List, Column
  <2>2. TypeOK'
    BY <1>1, <2>1 DEF Select
  <2>3. UNCHANGED <<enabled, list, selectedAgent, call, touched>>
    BY <1>1 DEF Select
  <2>4. UpdatesHaveRows' /\ \A s \in Rules : AnswerIsTrue(s)'
    BY <2>3 DEF UpdatesHaveRows, AnswerIsTrue, InFlight
  <2>5. CASE selected'.id = None
    BY <2>2, <2>4, <2>5 DEF PanelAgreesWithUpdate, PanelIsTrue
  <2>6. CASE selected'.id # None
    <3>1. selected' = [id |-> r, enabled |-> list.data[r]]
      BY <1>1, <2>6 DEF Select, Closed
    <3>2. r \notin doubt' => list.data[r] = enabled[r] /\ ~InFlight(r)
      BY <1>1 DEF Select
    <3>3. PanelIsTrue'
      BY <2>3, <3>1, <3>2 DEF PanelIsTrue
    <3>4. ~InFlight(r) => \A c \in Calls : ~(Flying(c)' /\ call'[c].id = r)
      BY <2>3 DEF InFlight, Flying
    <3>5. PanelAgreesWithUpdate'
      BY <3>1, <3>2, <3>4 DEF PanelAgreesWithUpdate
    <3> QED
      BY <2>2, <2>4, <3>3, <3>5
  <2> QED
    BY <2>5, <2>6
<1>2. ASSUME NEW r \in Rules, Elsewhere(r) PROVE IInv'
  <2>1. enabled' \in Column /\ \A s \in Rules \ {r} : enabled'[s] = enabled[s]
    BY <1>2 DEF Elsewhere, Column
  <2>2. /\ UNCHANGED <<list, selected, selectedAgent, call>>
        /\ doubt' = doubt \cup {r} /\ touched' = touched \cup {r}
    BY <1>2 DEF Elsewhere
  <2>3. TypeOK'
    BY <2>1, <2>2
  <2>4. UpdatesHaveRows'
    BY <2>2 DEF UpdatesHaveRows
  <2>5. \A s \in Rules : AnswerIsTrue(s)'
    BY <2>1, <2>2 DEF AnswerIsTrue, InFlight
  <2>6. PanelIsTrue'
    BY <2>1, <2>2 DEF PanelIsTrue, InFlight, Panel
  <2>7. PanelAgreesWithUpdate'
    BY <2>1, <2>2 DEF PanelAgreesWithUpdate, Flying, Panel
  <2> QED
    BY <2>3, <2>4, <2>5, <2>6, <2>7
<1>3. CASE ClosePanel
  <2>1. selected' \in Panel /\ selected'.id = None
    BY <1>3 DEF ClosePanel, Closed, Panel
  <2> QED
    BY <1>3, <2>1 DEF ClosePanel, UpdatesHaveRows, AnswerIsTrue, InFlight,
       PanelAgreesWithUpdate, PanelIsTrue
<1>4. ASSUME NEW a \in {"all"} \cup Agents, ChooseAgent(a) PROVE IInv'
  BY <1>4 DEF ChooseAgent, UpdatesHaveRows, AnswerIsTrue, InFlight,
     PanelAgreesWithUpdate, PanelIsTrue, Flying
<1> QED
  BY <1>1, <1>2, <1>3, <1>4

\* A change the server applies keeps the invariant.
LEMMA ApplyStep ==
  ASSUME IInv, NEW c \in Calls, Apply(c)
  PROVE  IInv'
<1> USE RuleConsoleAssumption DEF IInv, TypeOK
<1> DEFINE r == call[c].id
<1>1. r \in Rules /\ call[c].phase = "sent" /\ call[c].enabled \in BOOLEAN
  BY DEF Apply, UpdatesHaveRows, Call
<1>2. /\ enabled' \in Column /\ enabled'[r] = call[c].enabled
      /\ \A s \in Rules : s # r => enabled'[s] = enabled[s]
  BY <1>1 DEF Apply, Column
<1>3. /\ call' \in [Calls -> Call] /\ call'[c].phase = "applied"
      /\ \A d \in Calls : /\ call'[d].id = call[d].id /\ call'[d].enabled = call[d].enabled
                          /\ d # c => call'[d].phase = call[d].phase
  BY MovedTyping DEF Apply
<1>4. UNCHANGED <<list, selected, selectedAgent, doubt, touched>>
  BY DEF Apply
<1>5. TypeOK'
  BY <1>2, <1>3, <1>4
<1>6. UpdatesHaveRows'
  BY <1>1, <1>3, <1>4 DEF UpdatesHaveRows
<1>7. \A d \in Calls : Flying(d)' <=> Flying(d)
  BY <1>1, <1>3 DEF Flying
<1>8. \A s \in Rules : InFlight(s)' <=> InFlight(s)
  BY <1>3, <1>7 DEF InFlight, Flying
<1>9. InFlight(r)
  BY <1>1 DEF InFlight
<1>10. \A s \in Rules : AnswerIsTrue(s)'
  BY <1>2, <1>4, <1>8, <1>9 DEF AnswerIsTrue
<1>11. PanelIsTrue'
  BY <1>2, <1>4, <1>8, <1>9 DEF PanelIsTrue, Panel
<1>12. PanelAgreesWithUpdate'
  <2> SUFFICES ASSUME selected.id # None, selected.id \notin doubt,
                      NEW d \in Calls, Flying(d), call[d].id = selected.id
               PROVE  /\ call'[d].enabled = selected.enabled
                      /\ call'[d].phase = "applied" => enabled'[selected.id] = selected.enabled
                      /\ \A f \in Calls : (Flying(f) /\ call[f].id = selected.id) => f = d
    BY <1>3, <1>4, <1>7 DEF PanelAgreesWithUpdate
  <2>1. /\ call[d].enabled = selected.enabled
        /\ call[d].phase = "applied" => enabled[selected.id] = selected.enabled
        /\ \A f \in Calls : (Flying(f) /\ call[f].id = selected.id) => f = d
    BY DEF PanelAgreesWithUpdate
  <2>2. CASE d = c
    BY <2>1, <2>2, <1>2, <1>3
  <2>3. CASE d # c
    <3>1. Flying(c)
      BY <1>1 DEF Flying
    <3>2. r # selected.id
      BY <2>1, <2>3, <3>1
    <3> QED
      BY <2>1, <2>3, <3>2, <1>2, <1>3 DEF Panel
  <2> QED
    BY <2>2, <2>3
<1> QED
  BY <1>5, <1>6, <1>10, <1>11, <1>12

\* The answer of a change, and what it refetches, keep the invariant.
LEMMA AnswerStep ==
  ASSUME IInv, NEW c \in Calls, Answered(c) \/ Fails(c)
  PROVE  IInv'
<1> USE RuleConsoleAssumption DEF IInv, TypeOK
<1> DEFINE r == call[c].id
<1>1. r \in Rules /\ list.loaded /\ Flying(c)
  BY DEF Answered, Fails, UpdatesHaveRows, Call, Flying
<1>2. /\ call' \in [Calls -> Call] /\ call'[c].phase = "done"
      /\ \A d \in Calls : /\ call'[d].id = call[d].id /\ call'[d].enabled = call[d].enabled
                          /\ d # c => call'[d].phase = call[d].phase
  BY MovedTyping DEF Answered, Fails
<1>3. UNCHANGED <<enabled, selected, selectedAgent>> /\ doubt \subseteq doubt'
  BY DEF Answered, Fails
<1>4. \A d \in Calls : Flying(d)' => Flying(d) /\ d # c
  BY <1>2 DEF Flying
<1>5. \A s \in Rules : s # r => (InFlight(s)' <=> InFlight(s))
  BY <1>2 DEF InFlight
<1>6. InFlight(r)
  BY <1>1 DEF InFlight, Flying
<1>7. PanelAgreesWithUpdate'
  <2> SUFFICES ASSUME selected.id # None, selected.id \notin doubt,
                      NEW d \in Calls, Flying(d)', call[d].id = selected.id
               PROVE  /\ call'[d].enabled = selected.enabled
                      /\ call'[d].phase = "applied" => enabled[selected.id] = selected.enabled
                      /\ \A f \in Calls : (Flying(f)' /\ call'[f].id = selected.id) => f = d
    BY <1>2, <1>3 DEF PanelAgreesWithUpdate
  <2>1. Flying(d) /\ d # c
    BY <1>4
  <2>2. /\ call[d].enabled = selected.enabled
        /\ call[d].phase = "applied" => enabled[selected.id] = selected.enabled
        /\ \A f \in Calls : (Flying(f) /\ call[f].id = selected.id) => f = d
    BY <2>1 DEF PanelAgreesWithUpdate
  <2> QED
    BY <2>1, <2>2, <1>2, <1>4
<1>8. CASE Answered(c)
  <2>1. list' = Invalidate(list) /\ UNCHANGED <<doubt, touched>> /\ call[c].phase = "applied"
    BY <1>8 DEF Answered
  <2>2. list' \in List /\ list'.loaded /\ list'.fetch = "sent"
    BY <2>1, <1>1, ListTyping DEF Invalidate
  <2>3. TypeOK'
    BY <1>2, <1>3, <2>1, <2>2
  <2>4. UpdatesHaveRows'
    BY <1>1, <1>2, <2>2 DEF UpdatesHaveRows
  <2>5. \A s \in Rules : AnswerIsTrue(s)'
    BY <2>2 DEF AnswerIsTrue
  <2>6. PanelIsTrue'
    <3>1. CASE selected.id = r
      BY <1>1, <1>3, <2>1, <3>1 DEF PanelAgreesWithUpdate, PanelIsTrue
    <3>2. CASE selected.id # r
      BY <1>3, <1>5, <2>1, <3>2 DEF PanelIsTrue, Panel
    <3> QED
      BY <3>1, <3>2
  <2> QED
    BY <1>7, <2>3, <2>4, <2>5, <2>6
<1>9. CASE Fails(c)
  <2>1. /\ doubt' = doubt \cup {r} /\ touched' = touched \cup {r}
        /\ list' = list
    BY <1>9 DEF Fails
  <2>2. TypeOK'
    BY <1>1, <1>2, <1>3, <2>1
  <2>3. UpdatesHaveRows'
    BY <1>1, <1>2, <2>1 DEF UpdatesHaveRows
  <2>4. \A s \in Rules : AnswerIsTrue(s)'
    BY <1>3, <1>5, <2>1 DEF AnswerIsTrue
  <2>5. PanelIsTrue'
    BY <1>3, <1>5, <2>1 DEF PanelIsTrue, Panel
  <2> QED
    BY <1>7, <2>2, <2>3, <2>4, <2>5
<1> QED
  BY <1>8, <1>9

\* A list the server sends and the page shows keep the invariant.
LEMMA ListStep ==
  ASSUME IInv, Focus \/ ListRead \/ ListShown \/ ListFails
  PROVE  IInv'
<1> USE DEF IInv, TypeOK
<1>1. UNCHANGED <<enabled, selected, selectedAgent, call, doubt, touched>>
  BY DEF Focus, ListRead, ListShown, ListFails
<1>2. list' \in List /\ (list.loaded => list'.loaded)
  <2>1. CASE Focus
    BY <2>1, ListTyping DEF Focus
  <2>2. CASE ListRead
    BY <2>2 DEF ListRead, List
  <2>3. CASE ListShown
    BY <2>3 DEF ListShown, List
  <2>4. CASE ListFails
    BY <2>4 DEF ListFails, List
  <2> QED
    BY <2>1, <2>2, <2>3, <2>4
<1>3. TypeOK' /\ UpdatesHaveRows'
  BY <1>1, <1>2 DEF UpdatesHaveRows
<1>4. PanelAgreesWithUpdate' /\ PanelIsTrue'
  BY <1>1 DEF PanelAgreesWithUpdate, PanelIsTrue, InFlight, Flying
<1>5. \A r \in Rules : InFlight(r)' <=> InFlight(r)
  BY <1>1 DEF InFlight
<1>6. \A r \in Rules : AnswerIsTrue(r)'
  <2>1. CASE Focus
    BY <1>1, <1>5, <2>1, ListTyping DEF Focus, AnswerIsTrue
  <2>2. CASE ListRead
    BY <1>1, <1>5, <2>2 DEF ListRead, AnswerIsTrue
  <2>3. CASE ListShown
    BY <1>1, <1>5, <2>3 DEF ListShown, AnswerIsTrue
  <2>4. CASE ListFails
    BY <1>1, <1>5, <2>4 DEF ListFails, AnswerIsTrue
  <2> QED
    BY <2>1, <2>2, <2>3, <2>4
<1> QED
  BY <1>3, <1>4, <1>6

\* Every step of page and server keeps the invariant.
LEMMA NextStep == IInv /\ [Next]_vars => IInv'
<1> SUFFICES ASSUME IInv, [Next]_vars PROVE IInv'
  OBVIOUS
<1>1. ASSUME NEW c \in Calls, NEW r \in Rules, ToggleRow(c, r) PROVE IInv'
  <2>1. list.data[r] \in BOOLEAN
    BY DEF IInv, TypeOK, List, Column
  <2> QED
    BY <1>1, <2>1, ToggleStep DEF ToggleRow
<1>2. ASSUME NEW c \in Calls, TogglePanel(c) PROVE IInv'
  <2>1. selected.id \in Rules /\ (~selected.enabled) \in BOOLEAN
    BY <1>2 DEF IInv, TypeOK, Panel, TogglePanel
  <2> QED
    BY <1>2, <2>1, ToggleStep DEF TogglePanel
<1>3. CASE UNCHANGED vars
  BY <1>3 DEF vars, IInv, TypeOK, UpdatesHaveRows, AnswerIsTrue, PanelAgreesWithUpdate,
     PanelIsTrue, InFlight, Flying
<1> QED
  BY <1>1, <1>2, <1>3, ViewStep, ApplyStep, AnswerStep, ListStep DEF Next

\* The strengthened invariant holds in every reachable state.
LEMMA Invariance == Spec => []IInv
BY InitIInv, NextStep, PTL DEF Spec

\* The page's state is well typed.
THEOREM RuleConsoleTypeCorrect == Spec => []TypeOK
<1>1. IInv => TypeOK
  BY DEF IInv
<1> QED
  BY <1>1, Invariance, PTL

\* A panel opened on a true row stays true through the page's own updates.
THEOREM PanelsAreTrue == Spec => []PanelIsTrue
<1>1. IInv => PanelIsTrue
  BY DEF IInv
<1> QED
  BY <1>1, Invariance, PTL

\* The rows of a quiet page are what the gateway holds.
THEOREM QuietRowsAreTrue == Spec => []RowsAreTrue
<1>1. IInv => RowsAreTrue
  BY DEF IInv, AnswerIsTrue, RowsAreTrue, RowsShown
<1> QED
  BY <1>1, Invariance, PTL

\* No update of a global rule is sent while an agent is chosen.
THEOREM GlobalRulesAreSafe == Spec => GlobalRulesAreReference
<1> DEFINE Sent == \A c \in Calls : (call[c].phase = "unused" /\ call'[c].phase = "sent")
                         => ~(IsAgentMode /\ IsGlobal(call'[c].id))
<1>1. IInv /\ [Next]_vars => [Sent]_vars
  <2> SUFFICES ASSUME IInv, Next PROVE Sent
    OBVIOUS
  <2> USE DEF IInv, TypeOK
  <2>1. ASSUME NEW c \in Calls, NEW r \in Rules, ToggleRow(c, r) PROVE Sent
    BY <2>1 DEF ToggleRow, Toggle, RowReadOnly, Call
  <2>2. ASSUME NEW c \in Calls, TogglePanel(c) PROVE Sent
    BY <2>2 DEF TogglePanel, Toggle, PanelReadOnly, Call
  <2>3. ASSUME NEW c \in Calls, Apply(c) \/ Answered(c) \/ Fails(c) PROVE Sent
    BY <2>3, MovedTyping DEF Apply, Answered, Fails
  <2>4. ASSUME UNCHANGED call PROVE Sent
    BY <2>4
  <2> QED
    BY <2>1, <2>2, <2>3, <2>4
       DEF Next, Select, Elsewhere, ClosePanel, ChooseAgent, Focus, ListRead, ListShown, ListFails
<1> QED
  BY <1>1, Invariance, PTL DEF Spec, GlobalRulesAreReference

-----------------------------------------------------------------------------
(***************************************************************************)
(* The dialog that makes a rule.  A rule on its way is one the dialog was  *)
(* asked for, and every text was typed once: what is shown is not what has *)
(* been announced.                                                         *)
(***************************************************************************)
CallsWereAsked ==
  \A s \in Slots : requests[s] # None =>
    <<requests[s].rule.text, requests[s].rule.agent>> \in asked

TextsWereTyped ==
  /\ \A s \in Slots : requests[s] # None => requests[s].rule.text \in used
  /\ announced \subseteq used
  /\ draft.text # None => draft.text \in used

NewRuleInv ==
  /\ NewRules!TypeOK /\ CallsWereAsked /\ TextsWereTyped
  /\ NewRules!RulesAreForWhomShown /\ NewRules!NothingIsLeftBehind
  /\ NewRules!CreatedIsNotOffered

\* Nothing is asked for at first, and the dialog is closed.
LEMMA NewRuleInit == NewRules!Init => NewRuleInv
<1>1. NewRules!Blank \in NewRules!Draft /\ NewRules!Blank.text = None
  BY DEF NewRules!Blank, NewRules!Draft, NewRules!Directions
<1> QED
  BY <1>1 DEF NewRules!Init, NewRuleInv, NewRules!TypeOK, CallsWereAsked, TextsWereTyped,
       NewRules!RulesAreForWhomShown, NewRules!NothingIsLeftBehind, NewRules!CreatedIsNotOffered,
       NewRules!Shown

\* Every step of the dialog, its page and the gateway keeps the invariant.
LEMMA NewRuleStep == NewRuleInv /\ [NewRules!Next]_NewRules!vars => NewRuleInv'
<1> SUFFICES ASSUME NewRuleInv, [NewRules!Next]_NewRules!vars
             PROVE  NewRuleInv'
  OBVIOUS
<1> USE NewRulesAssumption
    DEF NewRules!NewRuleAssumption, NewRuleInv, NewRules!TypeOK, CallsWereAsked, TextsWereTyped,
        NewRules!RulesAreForWhomShown, NewRules!NothingIsLeftBehind,
        NewRules!CreatedIsNotOffered, NewRules!Shown, NewRules!dialog, NewRules!history
<1>1. /\ draft \in NewRules!Draft /\ draft.text \in Texts \cup {None}
      /\ NewRules!Blank \in NewRules!Draft /\ NewRules!Blank.text = None
  BY DEF NewRules!Draft, NewRules!Blank, NewRules!Directions
<1>2. CASE NewRules!OpenNewRule \/ NewRules!ListFails \/ NewRules!ListFetched \/ NewRules!Leave
           \/ NewRules!Dismiss \/ UNCHANGED NewRules!vars
  <2>1. draft' = draft \/ draft' = NewRules!Blank
    BY <1>2 DEF NewRules!OpenNewRule, NewRules!ListFails, NewRules!ListFetched,
                NewRules!Leave, NewRules!Dismiss, NewRules!vars
  <2>2. UNCHANGED <<requests, made, used, asked, announced>>
    BY <1>2 DEF NewRules!OpenNewRule, NewRules!ListFails, NewRules!ListFetched,
                NewRules!Leave, NewRules!Dismiss, NewRules!vars
  <2>3. /\ NewRules!TypeOK' /\ CallsWereAsked' /\ TextsWereTyped'
        /\ NewRules!RulesAreForWhomShown'
    BY <1>1, <1>2, <2>1, <2>2 DEF NewRules!OpenNewRule, NewRules!ListFails, NewRules!ListFetched,
                    NewRules!Leave, NewRules!Dismiss, NewRules!vars
  <2>4. NewRules!NothingIsLeftBehind' /\ NewRules!CreatedIsNotOffered'
    BY <1>1, <1>2, <2>1, <2>2 DEF NewRules!OpenNewRule, NewRules!ListFails, NewRules!ListFetched,
                    NewRules!Leave, NewRules!Dismiss, NewRules!vars
  <2> QED
    BY <2>3, <2>4
<1>3. CASE NewRules!ToggleAgentScoped \/ \E d \in NewRules!Directions : NewRules!ToggleScope(d)
  <2>1. draft' \in NewRules!Draft /\ draft'.text = draft.text
    BY <1>1, <1>3 DEF NewRules!ToggleAgentScoped, NewRules!ToggleScope, NewRules!Draft
  <2> QED
    BY <1>1, <1>3, <2>1 DEF NewRules!ToggleAgentScoped, NewRules!ToggleScope
<1>4. ASSUME NEW t \in Texts, NewRules!TypeText(t)
      PROVE  NewRuleInv'
  <2>1. draft' \in NewRules!Draft /\ draft'.text = t
    BY <1>1, <1>4 DEF NewRules!TypeText, NewRules!Draft
  <2> QED
    BY <1>1, <1>4, <2>1 DEF NewRules!TypeText
<1>5. ASSUME NEW s \in Slots, NewRules!HandleSubmit(s)
      PROVE  NewRuleInv'
  <2> DEFINE c == [rule |-> NewRules!Request, at |-> "sent"]
  <2>1. /\ draft.text \in Texts /\ NewRules!Request \in NewRules!Rule
        /\ NewRules!Request.text = draft.text
        /\ asked' = asked \cup {<<draft.text, NewRules!Request.agent>>}
    BY <1>1, <1>5 DEF NewRules!HandleSubmit, NewRules!Valid, NewRules!Request, NewRules!Rule,
                      NewRules!IsAgentMode
  <2>2. c \in NewRules!Call /\ c.rule = NewRules!Request /\ NewRules!Request.agent \in Agents \cup {None}
    BY <2>1 DEF NewRules!Call, NewRules!Rule
  <2>3. requests' = [requests EXCEPT ![s] = c]
    BY <1>5 DEF NewRules!HandleSubmit
  <2> HIDE DEF c
  <2> QED
    BY <1>1, <1>5, <2>1, <2>2, <2>3 DEF NewRules!HandleSubmit
<1>6. ASSUME NEW s \in Slots, NewRules!Insert(s) \/ NewRules!InsertFails(s)
      PROVE  NewRuleInv'
  <2>1. requests[s] \in NewRules!Call /\ requests[s] # None /\ requests[s].rule \in NewRules!Rule
    BY <1>6 DEF NewRules!Insert, NewRules!InsertFails, NewRules!At, NewRules!Call
  <2>2. PICK a \in {"done", "refused"} : requests' = [requests EXCEPT ![s].at = a]
    BY <1>6 DEF NewRules!Insert, NewRules!InsertFails, NewRules!Goes
  <2>3. /\ requests'[s] \in NewRules!Call /\ requests'[s].rule = requests[s].rule
        /\ \A r \in Slots : r # s => requests'[r] = requests[r]
        /\ requests' \in [Slots -> NewRules!Call \cup {None}]
    BY <2>1, <2>2 DEF NewRules!Call
  <2> QED
    BY <1>1, <1>6, <2>1, <2>3 DEF NewRules!Insert, NewRules!InsertFails
<1>7. ASSUME NEW s \in Slots, NewRules!Created(s) \/ NewRules!NotCreated(s)
      PROVE  NewRuleInv'
  <2>1. /\ requests[s] # None /\ requests[s] \in NewRules!Call /\ requests[s].rule.text \in Texts
        /\ requests' = [requests EXCEPT ![s] = None]
    BY <1>7 DEF NewRules!Created, NewRules!NotCreated, NewRules!At, NewRules!Call, NewRules!Rule
  <2>2. CASE NewRules!Created(s) /\ isPending = s
    <3>1. /\ draft' = NewRules!Blank /\ isNewRuleOpen' = FALSE /\ isPending' = None
          /\ announced' = announced \cup {requests[s].rule.text}
          /\ UNCHANGED <<chosen, isError, made, used, asked>>
      BY <2>2 DEF NewRules!Created
    <3>2. NewRules!TypeOK' /\ NewRules!NothingIsLeftBehind' /\ NewRules!CreatedIsNotOffered'
      BY <1>1, <2>1, <3>1
    <3>3. CallsWereAsked' /\ TextsWereTyped' /\ NewRules!RulesAreForWhomShown'
      BY <1>1, <2>1, <3>1
    <3> QED
      BY <3>2, <3>3
  <2>3. CASE ~(NewRules!Created(s) /\ isPending = s)
    <3>1. /\ UNCHANGED <<chosen, isError, isNewRuleOpen, draft, made, used, asked, announced>>
          /\ isPending' \in {isPending, None}
      BY <1>7, <2>3 DEF NewRules!Created, NewRules!NotCreated
    <3> QED
      BY <1>1, <2>1, <3>1
  <2> QED
    BY <2>2, <2>3
<1>8. ASSUME NEW a \in Agents \cup {"all"}, NewRules!ChooseAgent(a)
      PROVE  NewRuleInv'
  BY <1>1, <1>8 DEF NewRules!ChooseAgent
<1> QED
  BY <1>2, <1>3, <1>4, <1>5, <1>6, <1>7, <1>8 DEF NewRules!Next

(* A rule is made for whom the dialog showed, for any agents, texts and    *)
(* calls, and whichever of the dialogs is dismissed or taken away.         *)
THEOREM NewRulesAreAsShown == MCSpec => []RulesAreForWhomShown
<1>1. MCInit => NewRuleInv
  BY NewRuleInit DEF MCInit
<1>2. NewRuleInv /\ [MCNext]_<<moving, vars, newVars, eventVars>> => NewRuleInv'
  <2>1. [MCNext]_<<moving, vars, newVars, eventVars>> => [NewRules!Next]_NewRules!vars
    BY DEF MCNext, newVars, NewRules!vars, NewRules!dialog, NewRules!history
  <2> QED
    BY <2>1, NewRuleStep
<1>3. NewRuleInv => RulesAreForWhomShown
  BY DEF NewRuleInv, RulesAreForWhomShown
<1> QED
  BY <1>1, <1>2, <1>3, PTL DEF MCSpec

-----------------------------------------------------------------------------
(***************************************************************************)
(* The fires behind the panel.  An answer holds fires of its own rule that *)
(* are in the log, a count is of fires in the log, and a fetch that was    *)
(* sent for the panel finds the fires that the panel counted, because the  *)
(* log only grows.                                                         *)
(***************************************************************************)
Logged(r) == \E i \in 1 .. Len(stored) : stored[i] = r

AnswersAreOwn ==
  \A t \in Tenants, r \in Rules :
    /\ events[<<t, r>>].data \subseteq Events!OfRule(t, r)
    /\ events[<<t, r>>].answer \subseteq Events!OfRule(t, r)

CountsAreTrue ==
  /\ \A r \in Rules : rows[r] => Logged(r)
  /\ panel.fires => panel.id \in Rules /\ Logged(panel.id)

Counted == panel.fires /\ TenantOf[panel.id] = scope

HearingInv ==
  Events!Shows(panel, scope, listed) =>
    /\ heard = "asked" =>
         /\ events[<<scope, panel.id>>].at \in {"sent", "read"}
         /\ events[<<scope, panel.id>>].at = "read" /\ Counted
              => events[<<scope, panel.id>>].answer # {}
    /\ heard = "yes" =>
         /\ events[<<scope, panel.id>>].at = "none"
         /\ Counted => events[<<scope, panel.id>>].data # {}

EventsInv ==
  /\ Events!TypeOK /\ AnswersAreOwn /\ CountsAreTrue /\ HearingInv
  /\ blank => Events!Throws(panel, scope, listed, events)

\* That a set of numbers has a least one, from its being well-founded.
LEMMA LeastNumber ==
  ASSUME NEW S \in SUBSET Nat, S # {}
  PROVE  \E n \in S : \A m \in S : n <= m
<1> DEFINE R == OpToRel(<, Nat)
<1>1. IsWellFoundedOn(R, Nat)
  BY NatLessThanWellFounded
<1>2. \A x, y \in Nat : <<y, x>> \in R <=> y < x
  BY DEF OpToRel
<1> HIDE DEF R
<1>3. PICK x \in S : \A y \in S : ~ (<<y, x>> \in R)
  BY <1>1, WFMin
<1>4. \A y \in S : ~ (y < x)
  BY <1>2, <1>3
<1>5. \A y \in S : x <= y
  BY <1>4
<1> QED
  BY <1>5

\* The last of some fires is among the newest of them.
LEMMA NewestFound ==
  ASSUME NEW n \in Nat, NEW S \in SUBSET (1 .. n), S # {}
  PROVE  Events!Newest(S) # {}
<1> DEFINE D == {n - i : i \in S}
<1>1. D \in SUBSET Nat /\ D # {}
  <2>1. \A i \in S : n - i \in Nat
    OBVIOUS
  <2>2. PICK i \in S : TRUE
    OBVIOUS
  <2>3. n - i \in D
    OBVIOUS
  <2> QED
    BY <2>1, <2>3
<1>2. PICK d \in D : \A e \in D : d <= e
  BY <1>1, LeastNumber
<1>3. PICK i \in S : d = n - i
  BY <1>2
<1>4. \A j \in S : ~(j > i)
  BY <1>2, <1>3
<1>5. {j \in S : j > i} = {}
  BY <1>4
<1>6. Events!Cardinality({}) = 0
  <2>1. Events!Cardinality({}) = Cardinality({})
    BY DEF Events!Cardinality, Cardinality, Events!IsFiniteSet, IsFiniteSet
  <2> QED
    BY <2>1, FS_EmptySet, Zenon
<1>7. 0 < Limit
  BY EventsAssumption DEF Events!RuleEventsAssumption
<1> QED
  BY <1>5, <1>6, <1>7 DEF Events!Newest

\* The fires of a rule that is in the log are found there.
LEMMA FiresAreFound ==
  ASSUME NEW r \in Rules, stored \in Seq(Rules), Logged(r)
  PROVE  Events!GuardrailEvents(TenantOf[r], r) # {}
<1>1. Events!OfRule(TenantOf[r], r) # {}
  BY DEF Logged, Events!OfRule
<1>2. Events!OfRule(TenantOf[r], r) \in SUBSET (1 .. Len(stored)) /\ Len(stored) \in Nat
  BY DEF Events!OfRule
<1> QED
  BY <1>1, <1>2, NewestFound DEF Events!GuardrailEvents

\* Nothing is on the page at first, and the log is empty.
LEMMA EventsInit == Events!Init => EventsInv
<1> SUFFICES ASSUME Events!Init PROVE EventsInv
  OBVIOUS
<1> USE EventsAssumption DEF Events!RuleEventsAssumption
<1>1. Events!Unasked \in Events!Query /\ Events!Unasked.data = {} /\ Events!Unasked.answer = {}
  BY DEF Events!Unasked, Events!Query, Events!Answers
<1>2. \A k \in Events!Keys : events[k] = Events!Unasked
  BY DEF Events!Init
<1>3. events \in [Events!Keys -> Events!Query]
  BY <1>1, <1>2 DEF Events!Init
<1>4. panel = Events!Closed /\ panel \in Events!Panel /\ panel.id = None /\ ~panel.fires
  BY DEF Events!Init, Events!Closed, Events!Panel
<1>5. Events!TypeOK
  <2>1. stored \in Seq(Rules) /\ Len(stored) = 0 /\ aged = 0
    BY DEF Events!Init
  <2>2. Len(stored) <= MaxFires /\ aged \in 0 .. Len(stored)
    BY <2>1
  <2>3. rows \in [Rules -> BOOLEAN] /\ scope \in Tenants /\ listed \subseteq Tenants
        /\ blank \in BOOLEAN /\ heard \in {"no", "asked", "yes"}
    BY DEF Events!Init
  <2> QED
    BY <1>3, <1>4, <2>1, <2>2, <2>3 DEF Events!TypeOK
<1>6. AnswersAreOwn
  BY <1>1, <1>2 DEF AnswersAreOwn, Events!Keys
<1> QED
  BY <1>4, <1>5, <1>6 DEF Events!Init, EventsInv, CountsAreTrue, HearingInv, Events!Shows

\* A step that leaves the log alone and takes no answer off the page or puts
\* one there keeps the answers their rules' own.
LEMMA OwnKeeps ==
  ASSUME AnswersAreOwn, UNCHANGED stored,
         \A k \in Events!Keys : events'[k].data \in {events[k].data, events[k].answer, {}}
                             /\ events'[k].answer \in {events[k].answer, {}}
  PROVE  AnswersAreOwn'
BY DEF AnswersAreOwn, Events!OfRule, Events!Keys

\* A panel that comes into view has been answered nothing yet.
LEMMA AskingHears ==
  ASSUME Events!TypeOK, AnswersAreOwn, NEW p \in Events!Panel, NEW t \in Tenants, NEW l,
         Events!Asks(p, t, l)
  PROVE  /\ events' \in [Events!Keys -> Events!Query]
         /\ heard' \in {"no", "asked"}
         /\ heard' = "asked" => Events!Shows(p, t, l) /\ events'[<<t, p.id>>].at = "sent"
         /\ \A k \in Events!Keys :
              events'[k].data = events[k].data /\ events'[k].answer = events[k].answer
<1>1. events \in [Events!Keys -> Events!Query]
  BY DEF Events!TypeOK
<1>2. CASE Events!Shows(p, t, l) /\ events[<<t, p.id>>].at = "none"
  <2> DEFINE k == <<t, p.id>>
  <2>1. p.id \in Rules
    BY <1>2 DEF Events!Shows, Events!Panel, Events!Closed
  <2>2. k \in Events!Keys
    BY <2>1 DEF Events!Keys
  <2> HIDE DEF k
  <2>3. /\ events' = [events EXCEPT ![k] = [events[k] EXCEPT !.at = "sent"]]
        /\ heard' = "asked"
    BY <1>2 DEF Events!Asks, Events!EventsKey, k
  <2>4. events[k] \in Events!Query
    BY <1>1, <2>2
  <2>5. /\ [events[k] EXCEPT !.at = "sent"] \in Events!Query
        /\ [events[k] EXCEPT !.at = "sent"].at = "sent"
        /\ [events[k] EXCEPT !.at = "sent"].data = events[k].data
        /\ [events[k] EXCEPT !.at = "sent"].answer = events[k].answer
    BY <2>4 DEF Events!Query
  <2>6. /\ events'[k] = [events[k] EXCEPT !.at = "sent"]
        /\ \A j \in Events!Keys : j # k => events'[j] = events[j]
        /\ events' \in [Events!Keys -> Events!Query]
    BY <1>1, <2>2, <2>3, <2>5
  <2>7. events'[<<t, p.id>>].at = "sent"
    BY <2>5, <2>6 DEF k
  <2> QED
    BY <1>2, <2>3, <2>5, <2>6, <2>7
<1>3. CASE ~(Events!Shows(p, t, l) /\ events[<<t, p.id>>].at = "none")
  BY <1>1, <1>3 DEF Events!Asks, Events!EventsKey
<1> QED
  BY <1>2, <1>3


\* What the page draws, with the answers it has, is of the panel's own rule.
LEMMA PanelKey ==
  ASSUME NEW p \in Events!Panel, NEW t \in Tenants, NEW l, Events!Shows(p, t, l)
  PROVE  p.id \in Rules /\ <<t, p.id>> \in Events!Keys
<1>1. p.id \in Rules
  BY DEF Events!Shows, Events!Panel, Events!Closed
<1> QED
  BY <1>1 DEF Events!Keys

\* A step of the page keeps the invariant if it asks for a panel that came
\* into view, and is taken down by a fire of it.
LEMMA AskingKeepsEvents ==
  ASSUME EventsInv, UNCHANGED <<stored, aged>>,
         scope' \in Tenants, listed' \subseteq Tenants, panel' \in Events!Panel,
         rows' \in [Rules -> BOOLEAN], CountsAreTrue',
         Events!Asks(panel', scope', listed'),
         blank' = Events!Throws(panel', scope', listed', events)
  PROVE  EventsInv'
<1> USE DEF EventsInv
<1>1. /\ events' \in [Events!Keys -> Events!Query] /\ heard' \in {"no", "asked"}
      /\ heard' = "asked" =>
           Events!Shows(panel', scope', listed') /\ events'[<<scope', panel'.id>>].at = "sent"
      /\ \A k \in Events!Keys :
           events'[k].data = events[k].data /\ events'[k].answer = events[k].answer
  <2>1. Events!TypeOK /\ AnswersAreOwn
    OBVIOUS
  <2> QED
    BY <2>1, AskingHears
<1>2. blank' \in BOOLEAN
  BY DEF Events!Throws, Events!Shows
<1>3. Events!TypeOK'
  BY <1>1, <1>2 DEF Events!TypeOK
<1>4. AnswersAreOwn'
  BY <1>1, OwnKeeps
<1>5. HearingInv'
  BY <1>1 DEF HearingInv
<1>6. blank' => Events!Throws(panel', scope', listed', events')
  BY <1>1, PanelKey DEF Events!Throws, Events!EventsKey
<1> QED
  BY <1>3, <1>4, <1>5, <1>6

\* A change of one query.
LEMMA QueryChanges ==
  ASSUME Events!TypeOK, NEW k \in Events!Keys, NEW q \in Events!Query,
         events' = [events EXCEPT ![k] = q]
  PROVE  /\ events' \in [Events!Keys -> Events!Query] /\ events'[k] = q
         /\ events[k] \in Events!Query
         /\ \A j \in Events!Keys : j # k => events'[j] = events[j]
BY DEF Events!TypeOK

\* Every step of gateway, log and page keeps the invariant.
LEMMA EventsStep ==
  ASSUME EventsInv, [Events!Next]_Events!vars
  PROVE  EventsInv'
<1> USE EventsAssumption DEF Events!RuleEventsAssumption
<1>0. /\ stored \in Seq(Rules) /\ Len(stored) <= MaxFires /\ Len(stored) \in Nat
      /\ aged \in 0 .. Len(stored)
      /\ scope \in Tenants /\ listed \subseteq Tenants /\ panel \in Events!Panel
      /\ rows \in [Rules -> BOOLEAN] /\ blank \in BOOLEAN
      /\ heard \in {"no", "asked", "yes"}
      /\ events \in [Events!Keys -> Events!Query] /\ Events!TypeOK
      /\ AnswersAreOwn /\ CountsAreTrue /\ HearingInv
      /\ blank => Events!Throws(panel, scope, listed, events)
  BY DEF EventsInv, Events!TypeOK
<1>1. CASE UNCHANGED <<scope, listed, panel, events, heard, blank, rows>>
           /\ stored' \in Seq(Rules) /\ Len(stored') <= MaxFires /\ aged' \in 0 .. Len(stored')
           /\ Len(stored) <= Len(stored')
           /\ \A j \in 1 .. Len(stored) : stored'[j] = stored[j]
  <2>1. \A t, r : Events!OfRule(t, r) \subseteq Events!OfRule(t, r)'
    <3>1. Len(stored') \in Nat
      BY <1>1
    <3> QED
      BY <1>0, <1>1, <3>1 DEF Events!OfRule
  <2>2. \A r : Logged(r) => Logged(r)'
    <3>1. Len(stored') \in Nat
      BY <1>1
    <3> QED
      BY <1>0, <1>1, <3>1 DEF Logged
  <2>3. AnswersAreOwn' /\ CountsAreTrue'
    BY <1>0, <1>1, <2>1, <2>2 DEF AnswersAreOwn, CountsAreTrue
  <2>4. Events!TypeOK'
    BY <1>0, <1>1 DEF Events!TypeOK
  <2>5. HearingInv' /\ (blank' => Events!Throws(panel', scope', listed', events'))
    BY <1>0, <1>1 DEF HearingInv, Counted, Events!Shows, Events!Throws, Events!EventsKey
  <2> QED
    BY <2>3, <2>4, <2>5 DEF EventsInv
<1>2. ASSUME NEW r \in Rules, Events!EmitGuardrailLogs(r)
      PROVE  EventsInv'
  <2>1. /\ Len(stored) < MaxFires /\ stored' = Append(stored, r) /\ aged' = aged
        /\ UNCHANGED <<scope, listed, panel, events, heard, blank, rows>>
    BY <1>2 DEF Events!EmitGuardrailLogs, Events!page
  <2>2. /\ stored' \in Seq(Rules) /\ Len(stored') = Len(stored) + 1
        /\ \A j \in 1 .. Len(stored) : stored'[j] = stored[j]
    BY <1>0, <2>1
  <2> QED
    BY <1>0, <1>1, <2>1, <2>2
<1>3. CASE Events!DayPasses
  <2>1. /\ stored' = stored /\ aged' = Len(stored)
        /\ UNCHANGED <<scope, listed, panel, events, heard, blank, rows>>
    BY <1>3 DEF Events!DayPasses, Events!page
  <2> QED
    BY <1>0, <1>1, <2>1
<1>4. CASE Events!HandleListRules
  <2>1. PICK up \in BOOLEAN :
          rows' = [r \in Rules |-> IF TenantOf[r] # scope THEN rows[r]
                                   ELSE up /\ Events!Fires24h(r)]
    BY <1>4 DEF Events!HandleListRules
  <2>2. /\ ~blank /\ listed' = listed \cup {scope} /\ UNCHANGED <<stored, aged, scope, panel>>
        /\ blank' = Events!Throws(panel, scope, listed', events)
        /\ IF scope \in listed THEN UNCHANGED <<events, heard>>
           ELSE Events!Asks(panel, scope, listed')
    BY <1>4 DEF Events!HandleListRules, Events!log
  <2>3. \A r \in Rules : Events!Fires24h(r) \in BOOLEAN /\ (Events!Fires24h(r) => Logged(r))
    BY <1>0 DEF Events!Fires24h, Logged
  <2>4. rows' \in [Rules -> BOOLEAN] /\ \A r \in Rules : rows'[r] => Logged(r)
    BY <1>0, <2>1, <2>3 DEF CountsAreTrue
  <2>5. CountsAreTrue'
    BY <1>0, <2>2, <2>4 DEF CountsAreTrue, Logged
  <2>6. CASE scope \notin listed
    <3>1. Events!Asks(panel', scope', listed')
          /\ blank' = Events!Throws(panel', scope', listed', events)
      BY <2>2, <2>6
    <3> QED
      BY <1>0, <2>2, <2>4, <2>5, <3>1, AskingKeepsEvents DEF EventsInv
  <2>7. CASE scope \in listed
    <3>1. UNCHANGED <<stored, aged, scope, listed, panel, events, heard>>
      BY <2>2, <2>7
    <3>2. blank' \in BOOLEAN /\ Events!TypeOK'
      BY <1>0, <2>2, <2>4, <3>1 DEF Events!TypeOK, Events!Throws, Events!Shows
    <3>3. AnswersAreOwn' /\ HearingInv'
      BY <1>0, <3>1 DEF AnswersAreOwn, HearingInv, Events!OfRule, Counted, Events!Shows
    <3>4. blank' => Events!Throws(panel', scope', listed', events')
      BY <2>2, <3>1
    <3> QED
      BY <2>5, <3>2, <3>3, <3>4 DEF EventsInv
  <2> QED
    BY <2>6, <2>7
<1>5. CASE Events!ListFails
  <2>1. /\ ~blank /\ listed' = listed \ {scope}
        /\ UNCHANGED <<stored, aged, scope, rows, panel, blank, events, heard>>
    BY <1>5 DEF Events!ListFails, Events!log
  <2>2. Events!TypeOK' /\ AnswersAreOwn' /\ CountsAreTrue'
    BY <1>0, <2>1 DEF Events!TypeOK, AnswersAreOwn, CountsAreTrue, Events!OfRule, Logged
  <2>3. HearingInv'
    BY <1>0, <2>1 DEF HearingInv, Events!Shows
  <2> QED
    BY <2>1, <2>2, <2>3 DEF EventsInv
<1>6. ASSUME NEW r \in Rules, Events!Select(r)
      PROVE  EventsInv'
  <2>1. /\ UNCHANGED <<stored, aged, scope, listed, rows>>
        /\ panel' = IF panel.id = r THEN Events!Closed ELSE [id |-> r, fires |-> rows[r]]
        /\ Events!Asks(panel', scope, listed)
        /\ blank' = Events!Throws(panel', scope, listed, events)
    BY <1>6 DEF Events!Select, Events!log
  <2>2. panel' \in Events!Panel
    BY <1>0, <2>1 DEF Events!Panel
  <2>3. CountsAreTrue'
    BY <1>0, <2>1 DEF CountsAreTrue, Logged, Events!Closed
  <2>4. /\ Events!Asks(panel', scope', listed')
        /\ blank' = Events!Throws(panel', scope', listed', events)
    BY <2>1
  <2> QED
    BY <1>0, <2>1, <2>2, <2>3, <2>4, AskingKeepsEvents
<1>7. CASE Events!ClosePanel
  <2>1. /\ ~blank /\ panel' = Events!Closed /\ heard' = "no"
        /\ UNCHANGED <<stored, aged, scope, listed, rows, blank, events>>
    BY <1>7 DEF Events!ClosePanel, Events!log
  <2>2. panel' \in Events!Panel /\ ~panel'.fires
    BY <2>1 DEF Events!Panel, Events!Closed
  <2>3. Events!TypeOK' /\ AnswersAreOwn' /\ CountsAreTrue' /\ HearingInv'
    BY <1>0, <2>1, <2>2 DEF Events!TypeOK, AnswersAreOwn, CountsAreTrue, Events!OfRule, Logged,
       HearingInv
  <2> QED
    BY <2>1, <2>3 DEF EventsInv
<1>8. ASSUME NEW t \in Tenants, Events!TenantMoves(t)
      PROVE  EventsInv'
  <2>1. /\ UNCHANGED <<stored, aged, listed, rows, panel>> /\ scope' = t
        /\ Events!Asks(panel, t, listed)
        /\ blank' = Events!Throws(panel, t, listed, events)
    BY <1>8 DEF Events!TenantMoves, Events!log
  <2>2. CountsAreTrue'
    BY <1>0, <2>1 DEF CountsAreTrue, Logged
  <2>3. /\ Events!Asks(panel', scope', listed')
        /\ blank' = Events!Throws(panel', scope', listed', events)
    BY <2>1
  <2> QED
    BY <1>0, <2>1, <2>2, <2>3, AskingKeepsEvents
<1>9. CASE Events!Focus
  <2>1. /\ UNCHANGED <<stored, aged, scope, listed, rows, panel, blank>> /\ ~blank
        /\ Events!Asks(panel, scope, listed)
    BY <1>9 DEF Events!Focus, Events!log, Events!page
  <2>2. CountsAreTrue'
    BY <1>0, <2>1 DEF CountsAreTrue, Logged
  <2>3. /\ events' \in [Events!Keys -> Events!Query] /\ heard' \in {"no", "asked"}
        /\ heard' = "asked" =>
             Events!Shows(panel, scope, listed) /\ events'[<<scope, panel.id>>].at = "sent"
        /\ \A k \in Events!Keys :
             events'[k].data = events[k].data /\ events'[k].answer = events[k].answer
    BY <1>0, <2>1, AskingHears
  <2>4. Events!TypeOK' /\ HearingInv'
    BY <1>0, <2>1, <2>3 DEF Events!TypeOK, HearingInv
  <2>5. AnswersAreOwn'
    BY <1>0, <2>1, <2>3, OwnKeeps
  <2> QED
    BY <2>1, <2>2, <2>4, <2>5 DEF EventsInv
<1>10. ASSUME NEW t \in Tenants, NEW r \in Rules, Events!HandleGuardrailEvents(t, r)
       PROVE  EventsInv'
  <2> DEFINE k == <<t, r>>
             a == Events!GuardrailEvents(t, r)
             q == [[events[k] EXCEPT !.at = "read"] EXCEPT !.answer = a]
  <2>1. k \in Events!Keys /\ events[k] \in Events!Query
    BY <1>0 DEF Events!Keys
  <2>2. a \in SUBSET Events!OfRule(t, r) /\ a \in Events!Answers
    <3>1. a \in SUBSET Events!OfRule(t, r)
      BY DEF Events!GuardrailEvents, Events!Newest
    <3>2. Events!OfRule(t, r) \in SUBSET Events!Event
      BY <1>0 DEF Events!OfRule, Events!Event
    <3> QED
      BY <3>1, <3>2 DEF Events!Answers
  <2>3. /\ events[k].at = "sent" /\ events' = [events EXCEPT ![k] = q]
        /\ UNCHANGED <<stored, aged, scope, listed, rows, panel, blank, heard>>
    BY <1>0, <1>10, <2>1
      DEF Events!HandleGuardrailEvents, Events!EventsKey, Events!log, Events!page
  <2> HIDE DEF a
  <2>4. q \in Events!Query /\ q.at = "read" /\ q.answer = a /\ q.data = events[k].data
    BY <2>1, <2>2 DEF Events!Query
  <2> HIDE DEF q
  <2>5. /\ events' \in [Events!Keys -> Events!Query] /\ events'[k] = q
        /\ \A j \in Events!Keys : j # k => events'[j] = events[j]
    BY <1>0, <2>1, <2>3, <2>4, QueryChanges
  <2> HIDE DEF k
  <2>6. Events!TypeOK' /\ CountsAreTrue'
    BY <1>0, <2>3, <2>5 DEF Events!TypeOK, CountsAreTrue, Logged
  <2>7. AnswersAreOwn'
    <3>1. \A u, x : Events!OfRule(u, x)' = Events!OfRule(u, x)
      BY <2>3 DEF Events!OfRule
    <3> SUFFICES ASSUME NEW u \in Tenants, NEW x \in Rules
                 PROVE  /\ events'[<<u, x>>].data \subseteq Events!OfRule(u, x)
                        /\ events'[<<u, x>>].answer \subseteq Events!OfRule(u, x)
      BY <3>1 DEF AnswersAreOwn
    <3>2. /\ events[<<u, x>>].data \subseteq Events!OfRule(u, x)
          /\ events[<<u, x>>].answer \subseteq Events!OfRule(u, x)
          /\ <<u, x>> \in Events!Keys
      BY <1>0 DEF AnswersAreOwn, Events!Keys
    <3>3. CASE <<u, x>> = k
      <4>1. u = t /\ x = r
        BY <3>3 DEF k
      <4> QED
        BY <2>2, <2>4, <2>5, <3>2, <3>3, <4>1
    <3>4. CASE <<u, x>> # k
      BY <2>5, <3>2, <3>4
    <3> QED
      BY <3>3, <3>4
  <2>8. HearingInv'
    <3> SUFFICES ASSUME Events!Shows(panel, scope, listed) PROVE HearingInv'
      BY <2>3 DEF HearingInv, Events!Shows
    <3>1. panel.id \in Rules /\ <<scope, panel.id>> \in Events!Keys
      BY <1>0, PanelKey
    <3>2. CASE <<scope, panel.id>> # k
      BY <1>0, <2>3, <2>5, <3>1, <3>2 DEF HearingInv, Counted
    <3>3. CASE <<scope, panel.id>> = k
      <4>1. scope = t /\ panel.id = r
        BY <3>3 DEF k
      <4>2. Counted => a # {}
        BY <1>0, <4>1, FiresAreFound DEF Counted, CountsAreTrue, a
      <4>3. heard # "yes"
        BY <1>0, <2>3, <3>3 DEF HearingInv
      <4> QED
        BY <2>3, <2>4, <2>5, <3>3, <4>2, <4>3 DEF HearingInv, Counted
    <3> QED
      BY <3>2, <3>3
  <2>9. blank' => Events!Throws(panel', scope', listed', events')
    <3>1. blank => <<scope, panel.id>> \in Events!Keys
      BY <1>0, PanelKey DEF Events!Throws
    <3> QED
      BY <1>0, <2>3, <2>4, <2>5, <3>1 DEF Events!Throws, Events!Shows, Events!EventsKey
  <2> QED
    BY <2>6, <2>7, <2>8, <2>9 DEF EventsInv
<1>11. ASSUME NEW k \in Events!Keys, Events!Answered(k)
       PROVE  EventsInv'
  <2> DEFINE q == [known |-> TRUE, data |-> events[k].answer, at |-> "none", answer |-> {}]
  <2>1. /\ events[k].at = "read" /\ events' = [events EXCEPT ![k] = q]
        /\ heard' = IF Events!IsOfPanel(k) /\ heard = "asked" THEN "yes" ELSE heard
        /\ blank' = Events!Throws(panel, scope, listed, events')
        /\ UNCHANGED <<stored, aged, scope, listed, rows, panel>>
    BY <1>11 DEF Events!Answered, Events!log
  <2>2. q \in Events!Query /\ q.at = "none" /\ q.answer = {} /\ q.data = events[k].answer
    BY <1>0 DEF Events!Query, Events!Answers
  <2> HIDE DEF q
  <2>3. /\ events' \in [Events!Keys -> Events!Query] /\ events'[k] = q
        /\ \A j \in Events!Keys : j # k => events'[j] = events[j]
    BY <1>0, <2>1, <2>2, QueryChanges
  <2>4. Events!TypeOK' /\ CountsAreTrue'
    BY <1>0, <2>1, <2>3 DEF Events!TypeOK, CountsAreTrue, Logged, Events!Throws, Events!Shows
  <2>5. AnswersAreOwn'
    BY <1>0, <2>1, <2>2, <2>3, OwnKeeps
  <2>6. HearingInv'
    <3> SUFFICES ASSUME Events!Shows(panel, scope, listed) PROVE HearingInv'
      BY <2>1 DEF HearingInv, Events!Shows
    <3>1. panel.id \in Rules /\ <<scope, panel.id>> \in Events!Keys
      BY <1>0, PanelKey
    <3>2. CASE <<scope, panel.id>> # k
      BY <1>0, <2>1, <2>3, <3>1, <3>2 DEF HearingInv, Counted, Events!IsOfPanel, Events!EventsKey
    <3>3. CASE <<scope, panel.id>> = k
      BY <1>0, <2>1, <2>2, <2>3, <3>3 DEF HearingInv, Counted, Events!IsOfPanel, Events!EventsKey
    <3> QED
      BY <3>2, <3>3
  <2> QED
    BY <2>1, <2>4, <2>5, <2>6 DEF EventsInv
<1>12. ASSUME NEW k \in Events!Keys, Events!Fails(k)
       PROVE  EventsInv'
  <2> DEFINE q == [[events[k] EXCEPT !.at = "none"] EXCEPT !.answer = {}]
  <2>1. /\ ~blank /\ events[k].at # "none" /\ events' = [events EXCEPT ![k] = q]
        /\ heard' = IF Events!IsOfPanel(k) /\ heard = "asked" THEN "no" ELSE heard
        /\ UNCHANGED <<stored, aged, scope, listed, rows, panel, blank>>
    BY <1>0, <1>12 DEF Events!Fails, Events!log, Events!page
  <2>2. q \in Events!Query /\ q.at = "none" /\ q.answer = {} /\ q.data = events[k].data
    BY <1>0 DEF Events!Query, Events!Answers
  <2> HIDE DEF q
  <2>3. /\ events' \in [Events!Keys -> Events!Query] /\ events'[k] = q
        /\ \A j \in Events!Keys : j # k => events'[j] = events[j]
    BY <1>0, <2>1, <2>2, QueryChanges
  <2>4. Events!TypeOK' /\ CountsAreTrue'
    BY <1>0, <2>1, <2>3 DEF Events!TypeOK, CountsAreTrue, Logged
  <2>5. AnswersAreOwn'
    BY <1>0, <2>1, <2>2, <2>3, OwnKeeps
  <2>6. HearingInv'
    <3> SUFFICES ASSUME Events!Shows(panel, scope, listed) PROVE HearingInv'
      BY <2>1 DEF HearingInv, Events!Shows
    <3>1. panel.id \in Rules /\ <<scope, panel.id>> \in Events!Keys
      BY <1>0, PanelKey
    <3>2. CASE <<scope, panel.id>> # k
      BY <1>0, <2>1, <2>3, <3>1, <3>2 DEF HearingInv, Counted, Events!IsOfPanel, Events!EventsKey
    <3>3. CASE <<scope, panel.id>> = k
      BY <1>0, <2>1, <2>2, <2>3, <3>3 DEF HearingInv, Counted, Events!IsOfPanel, Events!EventsKey
    <3> QED
      BY <3>2, <3>3
  <2> QED
    BY <2>1, <2>4, <2>5, <2>6 DEF EventsInv
<1>13. CASE Events!Reload
  <2>1. /\ listed' = {} /\ rows' = [r \in Rules |-> FALSE] /\ panel' = Events!Closed
        /\ events' = [k \in Events!Keys |-> Events!Unasked] /\ blank' = FALSE /\ heard' = "no"
        /\ UNCHANGED <<stored, aged, scope>>
    BY <1>13 DEF Events!Reload, Events!log
  <2>2. Events!Unasked \in Events!Query /\ Events!Unasked.data = {} /\ Events!Unasked.answer = {}
    BY DEF Events!Unasked, Events!Query, Events!Answers
  <2>3. panel' \in Events!Panel /\ ~panel'.fires
    BY <2>1 DEF Events!Panel, Events!Closed
  <2>4. Events!TypeOK'
    BY <1>0, <2>1, <2>2, <2>3 DEF Events!TypeOK
  <2>5. AnswersAreOwn' /\ CountsAreTrue' /\ HearingInv'
    BY <2>1, <2>2, <2>3 DEF AnswersAreOwn, CountsAreTrue, HearingInv, Events!Keys
  <2> QED
    BY <2>1, <2>4, <2>5 DEF EventsInv
<1>14. CASE UNCHANGED Events!vars
  <2>1. UNCHANGED <<stored, aged, scope, listed, rows, panel, events, blank, heard>>
    BY <1>14 DEF Events!vars, Events!log, Events!page
  <2> QED
    BY <1>0, <1>1, <2>1
<1> QED
  BY <1>2, <1>3, <1>4, <1>5, <1>6, <1>7, <1>8, <1>9, <1>10, <1>11, <1>12, <1>13, <1>14
    DEF Events!Next

(* A panel that counts fires and has been answered shows some, and only a  *)
(* fire of its own rule takes the console down, for any tenants, rules and *)
(* limit, and however late an answer for another panel arrives.            *)
THEOREM CountsAreBorneOut == MCSpec => []CountedFiresAreFound
<1>1. MCInit => EventsInv
  BY EventsInit DEF MCInit
<1>2. EventsInv /\ [MCNext]_<<moving, vars, newVars, eventVars>> => EventsInv'
  <2>1. [MCNext]_<<moving, vars, newVars, eventVars>> => [Events!Next]_Events!vars
    BY DEF MCNext, eventVars, Events!vars, Events!log, Events!page
  <2> QED
    BY <2>1, EventsStep
<1>3. EventsInv => CountedFiresAreFound
  <2> SUFFICES ASSUME EventsInv PROVE CountedFiresAreFound
    OBVIOUS
  <2>1. Events!CountedFiresAreFound
    BY DEF EventsInv, HearingInv, Counted, Events!CountedFiresAreFound, Events!NoEventsYet,
       Events!EventsKey
  <2>2. Events!BlankOverOwnFire
    <3> SUFFICES ASSUME blank
                 PROVE  /\ panel.id \in {stored[i] : i \in 1 .. Len(stored)}
                        /\ TenantOf[panel.id] = scope
      BY DEF Events!BlankOverOwnFire
    <3>1. /\ Events!Shows(panel, scope, listed) /\ events[<<scope, panel.id>>].data # {}
          /\ panel \in Events!Panel /\ scope \in Tenants
      BY DEF EventsInv, Events!Throws, Events!EventsKey, Events!TypeOK
    <3>2. panel.id \in Rules
      BY <3>1, PanelKey
    <3>3. events[<<scope, panel.id>>].data \subseteq Events!OfRule(scope, panel.id)
      BY <3>1, <3>2 DEF EventsInv, AnswersAreOwn
    <3> QED
      BY <3>1, <3>3 DEF Events!OfRule
  <2> QED
    BY <2>1, <2>2 DEF EventsInv, CountedFiresAreFound
<1> QED
  BY <1>1, <1>2, <1>3, PTL DEF MCSpec

=============================================================================
