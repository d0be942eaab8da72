-------------------------- MODULE KeyDialogProofs --------------------------
(***************************************************************************)
(* What the pages around keys keep: the dialog for any tenants, agents,    *)
(* members and number of calls, and beside it the table of keys, the       *)
(* integration guide and the picker of models.                             *)
(***************************************************************************)
EXTENDS MCKeyDialog, SequenceTheorems, TLAPS

\* The strengthening: a secret is held only after its answer, a body obeys the
\* scope it was generated with, and the latest call has been sent.
HeldIsAnswered == createdKey # 0 => phase[createdKey] = "done"
BodiesObeyScope ==
  \A c \in Calls : phase[c] # "unused" =>
    /\ body[c].scope = "agent" => body[c].agent # None
    /\ body[c].scope = "user" => body[c].user # None
    /\ body[c].agent # None => body[c].user = None
LiveIsUsed == \A c \in Calls : live[c] # "none" => phase[c] # "unused"
DismissedIsDone == \A c \in Calls : dismissed[c] # "no" => phase[c] = "done"
PendingIsLatest ==
  \A c \in Calls : (phase[c] \in {"sent", "stored"} /\ c \notin disturbed)
                      => latest = c
NothingHeldWhilePending ==
  (latest # 0 /\ phase[latest] \in {"sent", "stored"}) => createdKey = 0
HeldIsShown == (open /\ createdKey # 0) => createdKey \in shown

IInv == /\ TypeOK /\ HeldIsAnswered /\ BodiesObeyScope /\ LiveIsUsed
        /\ DismissedIsDone /\ PendingIsLatest /\ HeldIsShown
        /\ NothingHeldWhilePending /\ ClosedStaysHidden /\ SecretReachesUser

\* The invariant holds when the page opens (APIKeys.tsx:53-58).
LEMMA InitIInv == Init => IInv
<1> SUFFICES ASSUME Init PROVE IInv
  OBVIOUS
<1> USE KeyDialogAssumption DEF Init, Calls, Blank, BodyOf
<1>1. TypeOK
  BY DEF TypeOK, Form, Body, Scopes, Phases
<1>2. HeldIsAnswered /\ BodiesObeyScope /\ LiveIsUsed /\ DismissedIsDone
  BY DEF HeldIsAnswered, BodiesObeyScope, LiveIsUsed, DismissedIsDone
<1>3. /\ PendingIsLatest /\ HeldIsShown /\ NothingHeldWhilePending
      /\ ClosedStaysHidden /\ SecretReachesUser
  BY DEF PendingIsLatest, HeldIsShown, NothingHeldWhilePending, ClosedStaysHidden, SecretReachesUser
<1> QED
  BY <1>1, <1>2, <1>3 DEF IInv

\* Every step of the page and its calls keeps the types.
LEMMA TypeStep == ASSUME TypeOK, [Next]_vars PROVE TypeOK'
<1> USE KeyDialogAssumption DEF TypeOK, Calls, Form, Body, Scopes, Phases, serverVars
<1>1. CASE OpenDialog
  BY <1>1 DEF OpenDialog, Seen
<1>2. CASE CloseDialog
  BY <1>2 DEF CloseDialog
<1>3. CASE Cancel
  BY <1>3 DEF Cancel, FormShown
<1>4. CASE IHaveSavedTheKey
  BY <1>4 DEF IHaveSavedTheKey, SecretShown
<1>5. ASSUME NEW s \in Scopes, ChooseScope(s) PROVE TypeOK'
  BY <1>5 DEF ChooseScope
<1>6. ASSUME NEW a \in Agents, ChooseAgent(a) PROVE TypeOK'
  BY <1>6 DEF ChooseAgent
<1>7. ASSUME NEW u \in Members, ChooseUser(u) PROVE TypeOK'
  BY <1>7 DEF ChooseUser
<1>8. ASSUME NEW c \in Calls, HandleCreateKey(c) PROVE TypeOK'
  <2>1. BodyOf(form) \in Body
    BY DEF BodyOf
  <2>2. Pending \subseteq Calls
    BY DEF Pending
  <2> QED
    BY <1>8, <2>1, <2>2 DEF HandleCreateKey
<1>9. ASSUME NEW c \in Calls, ServerCreates(c) PROVE TypeOK'
  BY <1>9 DEF ServerCreates
<1>10. ASSUME NEW c \in Calls, CallFails(c) PROVE TypeOK'
  BY <1>10 DEF CallFails
<1>11. ASSUME NEW c \in Calls, Answered(c) PROVE TypeOK'
  <2>1. Blank \in Form /\ c # 0
    BY DEF Blank
  <2>2. phase' \in [Calls -> Phases] /\ createdKey' \in {0} \cup Calls /\ form' \in Form
    BY <1>11, <2>1 DEF Answered
  <2>3. shown' \subseteq Calls
    BY <1>11 DEF Answered, Seen
  <2> QED
    BY <1>11, <2>2, <2>3 DEF Answered
<1>12. ASSUME NEW c \in Calls, HandleRevoke(c) PROVE TypeOK'
  BY <1>12 DEF HandleRevoke
<1>13. CASE Remount
  BY <1>13 DEF Remount, Pending, Blank
<1>14. ASSUME NEW t \in Tenants, TenantChanges(t) PROVE TypeOK'
  BY <1>14 DEF TenantChanges
<1>15. CASE UNCHANGED vars
  BY <1>15 DEF vars
<1> QED
  BY <1>1, <1>2, <1>3, <1>4, <1>5, <1>6, <1>7, <1>8, <1>9, <1>10, <1>11, <1>12,
     <1>13, <1>14, <1>15 DEF Next

\* The bodies and the rows.
LEMMA BodyStep ==
  ASSUME TypeOK, BodiesObeyScope, LiveIsUsed, [Next]_vars
  PROVE  BodiesObeyScope' /\ LiveIsUsed'
<1> USE DEF TypeOK, BodiesObeyScope, LiveIsUsed, serverVars
<1>1. ASSUME UNCHANGED serverVars PROVE BodiesObeyScope' /\ LiveIsUsed'
  BY <1>1
<1>2. ASSUME NEW c \in Calls, HandleCreateKey(c) PROVE BodiesObeyScope' /\ LiveIsUsed'
  <2>1. /\ BodyOf(form).scope = "agent" => BodyOf(form).agent # None
        /\ BodyOf(form).scope = "user" => BodyOf(form).user # None
        /\ BodyOf(form).agent # None => BodyOf(form).user = None
    BY <1>2 DEF HandleCreateKey, GenerateEnabled, BodyOf, Form
  <2> QED
    BY <1>2, <2>1 DEF HandleCreateKey
<1>3. ASSUME NEW c \in Calls, ServerCreates(c) \/ CallFails(c) \/ Answered(c) \/ HandleRevoke(c)
      PROVE  BodiesObeyScope' /\ LiveIsUsed'
  BY <1>3 DEF ServerCreates, CallFails, Answered, HandleRevoke, Pending
<1> QED
  BY <1>1, <1>2, <1>3 DEF Next, OpenDialog, CloseDialog, Cancel, IHaveSavedTheKey,
     ChooseScope, ChooseAgent, ChooseUser, Remount, TenantChanges, vars

\* The secret the page holds.
HeldInv == HeldIsAnswered /\ DismissedIsDone /\ PendingIsLatest /\ HeldIsShown
             /\ NothingHeldWhilePending /\ ClosedStaysHidden /\ SecretReachesUser

\* Every step keeps what the dialog shows and holds of a new secret.
LEMMA HeldStep ==
  ASSUME TypeOK, HeldInv, [Next]_vars
  PROVE  HeldInv'
<1> USE DEF TypeOK, HeldInv, HeldIsAnswered, DismissedIsDone, PendingIsLatest,
            HeldIsShown, NothingHeldWhilePending, ClosedStaysHidden, SecretReachesUser, serverVars
<1> 0 \notin Calls
  BY DEF Calls
<1>1. CASE OpenDialog
  BY <1>1 DEF OpenDialog, Seen
<1>2. CASE CloseDialog
  BY <1>2 DEF CloseDialog
<1>3. CASE Cancel
  BY <1>3 DEF Cancel, FormShown
<1>4. CASE IHaveSavedTheKey
  BY <1>4 DEF IHaveSavedTheKey, SecretShown
<1>5. ASSUME NEW s \in Scopes, ChooseScope(s) PROVE HeldInv'
  BY <1>5 DEF ChooseScope
<1>6. ASSUME NEW a \in Agents, ChooseAgent(a) PROVE HeldInv'
  BY <1>6 DEF ChooseAgent
<1>7. ASSUME NEW u \in Members, ChooseUser(u) PROVE HeldInv'
  BY <1>7 DEF ChooseUser
<1>8. ASSUME NEW c \in Calls, HandleCreateKey(c) PROVE HeldInv'
  BY <1>8 DEF HandleCreateKey, GenerateEnabled, FormShown, Pending
<1>9. ASSUME NEW c \in Calls, ServerCreates(c) PROVE HeldInv'
  BY <1>9 DEF ServerCreates
<1>10. ASSUME NEW c \in Calls, CallFails(c) PROVE HeldInv'
  BY <1>10 DEF CallFails, Pending
<1>11. ASSUME NEW c \in Calls, Answered(c) PROVE HeldInv'
  <2> USE <1>11 DEF Answered, Seen
  <2>1. HeldIsAnswered' /\ DismissedIsDone'
    OBVIOUS
  <2>2. PendingIsLatest' /\ NothingHeldWhilePending'
    OBVIOUS
  <2>3. HeldIsShown'
    OBVIOUS
  <2>4. dismissed[c] = "no"
    OBVIOUS
  <2>5. ClosedStaysHidden'
    BY <2>4
  <2>6. c \in disturbed \/ latest = c
    OBVIOUS
  <2>7. SecretReachesUser'
    <3>1. CASE latest # c
      BY <3>1, <2>6
    <3>2. CASE latest = c
      <4> SUFFICES ASSUME NEW d \in Calls, phase'[d] = "done", d \notin disturbed
                   PROVE  d \in shown' \/ createdKey' = d
        OBVIOUS
      <4>1. CASE d = c
        BY <4>1, <3>2
      <4>2. CASE d # c
        BY <4>2, <3>2
      <4> QED
        BY <4>1, <4>2
    <3> QED
      BY <3>1, <3>2
  <2> QED
    BY <2>1, <2>2, <2>3, <2>5, <2>7
<1>12. ASSUME NEW c \in Calls, HandleRevoke(c) PROVE HeldInv'
  BY <1>12 DEF HandleRevoke
<1>13. CASE Remount
  BY <1>13 DEF Remount, Pending
<1>14. ASSUME NEW t \in Tenants, TenantChanges(t) PROVE HeldInv'
  BY <1>14 DEF TenantChanges
<1>15. CASE UNCHANGED vars
  BY <1>15 DEF vars
<1> QED
  BY <1>1, <1>2, <1>3, <1>4, <1>5, <1>6, <1>7, <1>8, <1>9, <1>10, <1>11, <1>12,
     <1>13, <1>14, <1>15 DEF Next

\* The bodies sent and the secret held stay as the dialog means them (APIKeys.tsx:53-112).
THEOREM KeyDialogInvariant == Spec => []IInv
<1>1. IInv /\ [Next]_vars => IInv'
  BY TypeStep, BodyStep, HeldStep DEF IInv, HeldInv
<1> QED
  BY InitIInv, <1>1, PTL DEF Spec

\* The page and its calls keep their types (APIKeys.tsx:53-96).
THEOREM KeyDialogTypeCorrect == Spec => []TypeOK
<1>1. IInv => TypeOK
  BY DEF IInv
<1> QED
  BY KeyDialogInvariant, <1>1, PTL

\* No key is wider than the scope its form showed (APIKeys.tsx:79-83, 195).
THEOREM KeysAreNotWidened == Spec => []NeverWiderThanChosen
<1>1. IInv => NeverWiderThanChosen
  BY DEF IInv, NeverWiderThanChosen, BodiesObeyScope, LiveIsUsed
<1> QED
  BY KeyDialogInvariant, <1>1, PTL

\* A secret that was closed stays hidden (APIKeys.tsx:109-112).
THEOREM ClosedSecretsStayHidden == Spec => []ClosedStaysHidden
<1>1. IInv => ClosedStaysHidden
  BY DEF IInv
<1> QED
  BY KeyDialogInvariant, <1>1, PTL

\* An undisturbed call's secret reaches the user (APIKeys.tsx:85-93).
THEOREM SecretsReachTheUser == Spec => []SecretReachesUser
<1>1. IInv => SecretReachesUser
  BY DEF IInv
<1> QED
  BY KeyDialogInvariant, <1>1, PTL

-----------------------------------------------------------------------------
(***************************************************************************)
(* The table of keys.  While the page has heard of every change and no     *)
(* call of its own waits to be answered, what a fetch has read and what is *)
(* shown are the gateway's rows.                                           *)
(***************************************************************************)
AllHeard == ~missed /\ \A s \in Slots : ~Table!At(s, "done")

TableInv ==
  /\ Table!TypeOK
  /\ AllHeard =>
       /\ fetch.at = "read" => fetch.rows = rows
       /\ list.known /\ ~failed /\ fetch.at = "none" => list.rows = rows

\* The rows are not known at first.
LEMMA TableInit == Table!Init => TableInv
<1>1. /\ Table!Sent \in Table!Fetch /\ Table!Sent.at = "sent"
      /\ [known |-> FALSE, rows |-> Table!NoKeys] \in Table!Listed
  BY DEF Table!Sent, Table!Fetch, Table!NoKeys, Table!VM, Table!States, Table!Listed
<1> QED
  BY <1>1 DEF Table!Init, TableInv, AllHeard, Table!TypeOK

\* Every step of the page, its calls and the gateway keeps the invariant.
LEMMA TableStep == TableInv /\ [Table!Next]_Table!vars => TableInv'
<1> SUFFICES ASSUME TableInv, [Table!Next]_Table!vars
             PROVE  TableInv'
  OBVIOUS
<1> USE TableAssumption DEF Table!KeyTableAssumption, TableInv, AllHeard, Table!TypeOK, Table!query, Table!At
<1>0. /\ Table!Sent \in Table!Fetch /\ Table!Sent.at = "sent"
      /\ Table!NoFetch \in Table!Fetch /\ Table!NoFetch.at = "none"
      /\ \A r \in Table!VM : [at |-> "read", rows |-> r] \in Table!Fetch
      /\ \A r \in Table!VM : [known |-> TRUE, rows |-> r] \in Table!Listed
      /\ fetch.rows \in Table!VM
  BY DEF Table!Sent, Table!NoFetch, Table!Fetch, Table!NoKeys, Table!VM, Table!States, Table!Listed
<1>1. ASSUME NEW s \in Slots, NEW k \in Keys, Table!CreateAPIKey(s, k) \/ Table!HandleRevoke(s, k)
      PROVE  TableInv'
  <2>1. PICK o \in {"create", "revoke"} :
           calls' = [calls EXCEPT ![s] = [op |-> o, key |-> k, at |-> "sent"]]
    BY <1>1 DEF Table!CreateAPIKey, Table!HandleRevoke
  <2>2. calls[s] = None /\ UNCHANGED <<rows, list, failed, fetch, missed>>
    BY <1>1 DEF Table!CreateAPIKey, Table!HandleRevoke
  <2>3. [op |-> o, key |-> k, at |-> "sent"] \in Table!Call
    BY DEF Table!Call
  <2>4. calls' \in [Slots -> Table!Call \cup {None}] /\ (AllHeard' => AllHeard)
    BY <2>1, <2>2, <2>3
  <2> QED
    BY <2>2, <2>4
<1>2. ASSUME NEW s \in Slots, Table!HandleCreateKey(s) \/ Table!HandleRevokeKey(s)
      PROVE  TableInv'
  <2>1. /\ calls[s] \in Table!Call /\ calls' = [calls EXCEPT ![s].at = "done"]
        /\ UNCHANGED <<list, failed, fetch, missed>>
    BY <1>2 DEF Table!HandleCreateKey, Table!HandleRevokeKey
  <2>2. rows' \in Table!VM
    BY <1>2, <2>1 DEF Table!HandleCreateKey, Table!HandleRevokeKey, Table!VM, Table!States, Table!Call
  <2>3. /\ [calls[s] EXCEPT !.at = "done"] \in Table!Call
        /\ [calls[s] EXCEPT !.at = "done"].at = "done"
    BY <2>1 DEF Table!Call
  <2>4. calls' \in [Slots -> Table!Call \cup {None}] /\ ~AllHeard'
    BY <2>1, <2>3
  <2> QED
    BY <2>1, <2>2, <2>4
<1>3. ASSUME NEW s \in Slots, Table!CallFails(s)
      PROVE  TableInv'
  <2>1. /\ calls[s] \in Table!Call /\ calls' = [calls EXCEPT ![s].at = "refused"]
        /\ calls[s].at = "sent" /\ UNCHANGED <<rows, list, failed, fetch, missed>>
    BY <1>3 DEF Table!CallFails
  <2>2. [calls[s] EXCEPT !.at = "refused"] \in Table!Call
    BY <2>1 DEF Table!Call
  <2>3. calls' \in [Slots -> Table!Call \cup {None}] /\ (AllHeard' => AllHeard)
    BY <2>1, <2>2
  <2> QED
    BY <2>1, <2>3
<1>4. ASSUME NEW s \in Slots, Table!Answered(s) \/ Table!NotAnswered(s)
      PROVE  TableInv'
  BY <1>0, <1>4 DEF Table!Answered, Table!NotAnswered, Table!Invalidate
<1>5. ASSUME NEW k \in Keys, Table!Elsewhere(k)
      PROVE  TableInv'
  BY <1>5 DEF Table!Elsewhere, Table!VM, Table!States
<1>6. CASE Table!Focus \/ Table!HandleListKeys \/ Table!TableShown \/ Table!FetchFails
           \/ UNCHANGED Table!vars
  <2>1. CASE Table!Focus \/ UNCHANGED Table!vars
    BY <1>0, <2>1 DEF Table!Focus, Table!vars
  <2>2. CASE Table!HandleListKeys
    <3>1. fetch' = [at |-> "read", rows |-> rows] /\ UNCHANGED <<rows, calls, list, failed, missed>>
      BY <2>2 DEF Table!HandleListKeys
    <3>2. fetch' \in Table!Fetch /\ fetch'.at = "read" /\ fetch'.rows = rows
      BY <1>0, <3>1
    <3> QED
      BY <3>1, <3>2
  <2>3. CASE Table!TableShown
    <3>1. /\ fetch.at = "read" /\ list' = [known |-> TRUE, rows |-> fetch.rows]
          /\ fetch' = Table!NoFetch /\ failed' = FALSE /\ UNCHANGED <<rows, calls, missed>>
      BY <2>3 DEF Table!TableShown
    <3>2. list' \in Table!Listed /\ list'.rows = fetch.rows
      BY <1>0, <3>1
    <3> QED
      BY <1>0, <3>1, <3>2
  <2>4. CASE Table!FetchFails
    BY <1>0, <2>4 DEF Table!FetchFails
  <2> QED
    BY <1>6, <2>1, <2>2, <2>3, <2>4
<1> QED
  BY <1>1, <1>2, <1>3, <1>4, <1>5, <1>6 DEF Table!Next

\* A key for neither an agent nor a user is under one filter, one for either under
\* one, and one for both under two.
LEMMA FiltersAreRight == Table!FiltersCover
<1> SUFFICES ASSUME NEW a \in Agents \cup {"all"}, NEW k \in Table!FilteredKeys(a, "all")
             PROVE  LET F == {f \in Table!ScopeFilters \ {"all"} : k \in Table!FilteredKeys(a, f)}
                    IN  IF AgentOf[k] # None /\ UserOf[k] # None THEN F = {"agent", "user"}
                        ELSE \E f \in Table!ScopeFilters : F = {f}
  BY DEF Table!FiltersCover
<1> DEFINE F == {f \in Table!ScopeFilters \ {"all"} : k \in Table!FilteredKeys(a, f)}
<1>1. F = {f \in {"global", "agent", "user"} : Table!InScope(k, f)}
  BY DEF Table!FilteredKeys, Table!ScopeFilters
<1>2. CASE Table!OfAgent(k) /\ Table!OfUser(k)
  <2>1. F = {"agent", "user"}
    BY <1>1, <1>2 DEF Table!InScope
  <2> QED
    BY <1>2, <2>1 DEF Table!OfAgent, Table!OfUser
<1>3. ASSUME ~(Table!OfAgent(k) /\ Table!OfUser(k))
      PROVE  \E f \in {"global", "agent", "user"} : F = {f}
  <2>1. CASE Table!OfAgent(k)
    <3>1. F = {"agent"}
      BY <1>1, <1>3, <2>1 DEF Table!InScope
    <3> QED
      BY <3>1
  <2>2. CASE Table!OfUser(k)
    <3>1. F = {"user"}
      BY <1>1, <1>3, <2>2 DEF Table!InScope
    <3> QED
      BY <3>1
  <2>3. CASE ~Table!OfAgent(k) /\ ~Table!OfUser(k)
    <3>1. F = {"global"}
      BY <1>1, <2>3 DEF Table!InScope
    <3> QED
      BY <3>1
  <2> QED
    BY <2>1, <2>2, <2>3
<1> QED
  BY <1>2, <1>3 DEF Table!OfAgent, Table!OfUser, Table!ScopeFilters

-----------------------------------------------------------------------------
(***************************************************************************)
(* The integration guide.  The youngest timer is that of the check mark,   *)
(* and what the clipboard will hold once the writes under way are done is  *)
(* the text of the last click, or a secret copied since.                   *)
(***************************************************************************)
Settled == IF writes = <<>> THEN clipboard ELSE writes[Len(writes)]

MarkHasTimer == copied # None => timers # <<>> /\ timers[Len(timers)] = Life - since

MarkIsOfLast ==
  copied # None => copied = last.of /\ (~refused => Settled \in {last, Guide!Secret})

GuideInv == Guide!TypeOK /\ MarkHasTimer /\ MarkIsOfLast

\* The guide is closed at first.
LEMMA GuideInit == Guide!Init => GuideInv
<1> USE GuideAssumption DEF Guide!GuideAssumption
<1>1. Guide!Other \in Guide!Text
  BY DEF Guide!Other, Guide!Text
<1>2. "python" \in Guide!Tabs /\ 0 \in 0 .. Life + 1
  BY DEF Guide!Tabs
<1>3. /\ <<>> \in Seq(0 .. Life) /\ <<>> \in Seq(Guide!Text)
      /\ Len(<<>>) <= MaxTimers /\ Len(<<>>) <= MaxTimers + 1
  OBVIOUS
<1> QED
  BY <1>1, <1>2, <1>3 DEF Guide!Init, GuideInv, MarkHasTimer, MarkIsOfLast, Guide!TypeOK

\* A copied text names its button.
LEMMA TextTyping ==
  ASSUME NEW b \in Guide!Buttons, NEW t \in Tenants
  PROVE  Guide!TextOf(b, t) \in Guide!Text /\ Guide!TextOf(b, t).of = b
BY DEF Guide!TextOf, Guide!Text

\* A queue that loses its head keeps its last element, if it has two.
LEMMA LastOfTail ==
  ASSUME NEW S, NEW q \in Seq(S), q # <<>>
  PROVE  /\ Head(q) \in S /\ Tail(q) \in Seq(S) /\ Len(Tail(q)) = Len(q) - 1
         /\ Tail(q) = <<>> => Head(q) = q[Len(q)]
         /\ Tail(q) # <<>> => Tail(q)[Len(Tail(q))] = q[Len(q)]
<1>1. /\ Head(q) = q[1] /\ Head(q) \in S /\ Len(q) \in Nat \ {0}
      /\ Tail(q) \in Seq(S) /\ Len(Tail(q)) = Len(q) - 1
      /\ \A i \in 1 .. Len(Tail(q)) : Tail(q)[i] = q[i + 1]
  OBVIOUS
<1>2. CASE Len(q) = 1
  <2>1. Tail(q) = <<>>
    <3> DEFINE r == Tail(q)
    <3>1. r \in Seq(S) /\ Len(r) = 0
      BY <1>1, <1>2
    <3> HIDE DEF r
    <3>2. r = <<>>
      BY <3>1, EmptySeq
    <3> QED
      BY <3>2 DEF r
  <2> QED
    BY <1>1, <1>2, <2>1
<1>3. CASE Len(q) # 1
  <2>1. Len(Tail(q)) \in 1 .. Len(Tail(q)) /\ Len(Tail(q)) + 1 = Len(q)
    BY <1>1, <1>3
  <2>2. Tail(q)[Len(Tail(q))] = q[Len(q)] /\ Tail(q) # <<>>
    BY <1>1, <2>1
  <2> QED
    BY <1>1, <2>2
<1> QED
  BY <1>2, <1>3

\* A queue that gains an element has it last.
LEMMA LastOfAppend ==
  ASSUME NEW S, NEW q \in Seq(S), NEW e \in S
  PROVE  /\ Append(q, e) \in Seq(S) /\ Len(Append(q, e)) = Len(q) + 1
         /\ Append(q, e) # <<>> /\ Append(q, e)[Len(Append(q, e))] = e
OBVIOUS

\* Every step of the page, its timers and the browser keeps the invariant.
LEMMA GuideStep == GuideInv /\ [Guide!Next]_Guide!vars => GuideInv'
<1> SUFFICES ASSUME GuideInv, [Guide!Next]_Guide!vars
             PROVE  GuideInv'
  OBVIOUS
<1> USE GuideAssumption DEF Guide!GuideAssumption, GuideInv, Guide!TypeOK, Guide!page, Guide!browser,
                            Guide!history
<1>1. CASE \/ Guide!OpenGuide \/ Guide!CloseGuide \/ Guide!EnterPage \/ UNCHANGED Guide!vars
           \/ \E t \in Guide!Tabs : Guide!ChooseTab(t)
           \/ \E t \in Tenants : Guide!TenantMoves(t)
  BY <1>1 DEF Guide!OpenGuide, Guide!CloseGuide, Guide!EnterPage, Guide!vars, Guide!ChooseTab,
     Guide!TenantMoves, Guide!Tabs, MarkHasTimer, MarkIsOfLast, Settled
<1>2. ASSUME NEW b \in Guide!Buttons, Guide!CopyToClipboard(b)
      PROVE  GuideInv'
  <2> DEFINE x == Guide!TextOf(b, tenantId)
  <2>1. x \in Guide!Text /\ x.of = b
    BY TextTyping
  <2>2. /\ writes' = Append(writes, x) /\ timers' = Append(timers, Life)
        /\ copied' = b /\ last' = x /\ since' = 0
        /\ Len(timers) < MaxTimers /\ Len(writes) < MaxTimers
        /\ UNCHANGED <<tenantId, onPage, isGuideOpen, tab, clipboard, refused>>
    BY <1>2 DEF Guide!CopyToClipboard, Guide!Mark
  <2> HIDE DEF x
  <2>3. /\ writes' \in Seq(Guide!Text) /\ Len(writes') = Len(writes) + 1
        /\ writes' # <<>> /\ writes'[Len(writes')] = x
    BY <2>1, <2>2, LastOfAppend
  <2>4. /\ timers' \in Seq(0 .. Life) /\ Len(timers') = Len(timers) + 1
        /\ timers' # <<>> /\ timers'[Len(timers')] = Life
    <3> DEFINE Left == 0 .. Life
    <3>1. Life \in Left /\ timers \in Seq(Left)
      OBVIOUS
    <3> HIDE DEF Left
    <3>2. /\ Append(timers, Life) \in Seq(Left) /\ Len(Append(timers, Life)) = Len(timers) + 1
          /\ Append(timers, Life) # <<>>
          /\ Append(timers, Life)[Len(Append(timers, Life))] = Life
      BY <3>1, LastOfAppend, Zenon
    <3> QED
      BY <2>2, <3>2 DEF Left
  <2>5. Guide!TypeOK'
    BY <2>1, <2>2, <2>3, <2>4
  <2>6. MarkHasTimer'
    BY <2>2, <2>4 DEF MarkHasTimer
  <2>7. MarkIsOfLast'
    BY <2>1, <2>2, <2>3 DEF MarkIsOfLast, Settled
  <2> QED
    BY <2>5, <2>6, <2>7
<1>3. CASE Guide!CopySecret
  <2>1. Guide!Secret \in Guide!Text
    BY DEF Guide!Secret, Guide!Text
  <2>2. /\ writes' = Append(writes, Guide!Secret) /\ Len(writes) < MaxTimers
        /\ UNCHANGED <<tenantId, onPage, isGuideOpen, tab, copied, timers, clipboard, refused,
                       last, since>>
    BY <1>3 DEF Guide!CopySecret
  <2>3. /\ writes' \in Seq(Guide!Text) /\ Len(writes') = Len(writes) + 1
        /\ writes' # <<>> /\ writes'[Len(writes')] = Guide!Secret
    BY <2>1, <2>2, LastOfAppend
  <2>4. Guide!TypeOK' /\ MarkHasTimer'
    BY <2>2, <2>3 DEF MarkHasTimer
  <2>5. MarkIsOfLast'
    BY <2>2, <2>3 DEF MarkIsOfLast, Settled
  <2> QED
    BY <2>4, <2>5
<1>4. CASE Guide!WriteText \/ Guide!WriteTextRefused
  <2>1. /\ writes # <<>> /\ writes' = Tail(writes)
        /\ UNCHANGED <<tenantId, onPage, isGuideOpen, tab, copied, timers, last, since>>
        /\ \/ refused' = TRUE /\ clipboard' = clipboard
           \/ refused' = refused /\ clipboard' = Head(writes)
    BY <1>4 DEF Guide!WriteText, Guide!WriteTextRefused
  <2>2. /\ Head(writes) \in Guide!Text /\ writes' \in Seq(Guide!Text)
        /\ Len(writes') = Len(writes) - 1
        /\ writes' = <<>> => Head(writes) = writes[Len(writes)]
        /\ writes' # <<>> => writes'[Len(writes')] = writes[Len(writes)]
    BY <2>1, LastOfTail
  <2>3. /\ clipboard' \in Guide!Text /\ refused' \in BOOLEAN
        /\ Len(writes') <= MaxTimers + 1
    <3>1. Len(writes) \in Nat /\ Len(writes) <= MaxTimers + 1 /\ MaxTimers \in Nat
      OBVIOUS
    <3>2. Len(writes') <= MaxTimers + 1
      BY <2>2, <3>1
    <3> QED
      BY <2>1, <2>2, <3>2
  <2>4. Guide!TypeOK' /\ MarkHasTimer'
    BY <2>1, <2>2, <2>3 DEF MarkHasTimer
  <2>5. MarkIsOfLast'
    BY <2>1, <2>2 DEF MarkIsOfLast, Settled
  <2> QED
    BY <2>4, <2>5
<1>5. CASE Guide!Fire
  <2>1. /\ timers # <<>> /\ timers' = Tail(timers) /\ copied' = None
        /\ UNCHANGED <<tenantId, onPage, isGuideOpen, tab, writes, clipboard, refused, last, since>>
    BY <1>5 DEF Guide!Fire
  <2>2. timers' \in Seq(0 .. Life) /\ Len(timers') = Len(timers) - 1
    BY <2>1, LastOfTail
  <2> QED
    BY <2>1, <2>2 DEF MarkHasTimer, MarkIsOfLast
<1>6. CASE Guide!LeavePage
  <2>1. <<>> \in Seq(0 .. Life) /\ Len(<<>>) <= MaxTimers
    OBVIOUS
  <2> QED
    BY <1>6, <2>1 DEF Guide!LeavePage, MarkHasTimer, MarkIsOfLast
<1>7. CASE Guide!Tick
  <2>1. /\ \A i \in 1 .. Len(timers) : timers[i] > 0
        /\ timers' = [i \in 1 .. Len(timers) |-> timers[i] - 1]
        /\ since' = IF since > Life THEN since ELSE since + 1
        /\ UNCHANGED <<tenantId, onPage, isGuideOpen, tab, copied, writes, clipboard, refused, last>>
    BY <1>7 DEF Guide!Tick
  <2>2. timers' \in Seq(0 .. Life) /\ Len(timers') = Len(timers)
    BY <2>1
  <2>3. Guide!TypeOK'
    BY <2>1, <2>2
  <2>4. MarkHasTimer'
    <3>1. ASSUME copied # None
          PROVE  timers' # <<>> /\ timers'[Len(timers')] = Life - since'
      <4>1. /\ timers # <<>> /\ Len(timers) \in 1 .. Len(timers)
            /\ timers[Len(timers)] = Life - since
        BY <3>1 DEF MarkHasTimer
      <4>2. since < Life
        BY <2>1, <4>1
      <4>3. timers'[Len(timers)] = Life - since - 1
        BY <2>1, <4>1
      <4> QED
        BY <2>1, <2>2, <4>1, <4>2, <4>3
    <3> QED
      BY <2>1, <3>1 DEF MarkHasTimer
  <2>5. MarkIsOfLast'
    BY <2>1 DEF MarkIsOfLast, Settled
  <2> QED
    BY <2>3, <2>4, <2>5
<1> QED
  BY <1>1, <1>2, <1>3, <1>4, <1>5, <1>6, <1>7 DEF Guide!Next

(* A quiet table shows the gateway's keys, each under a filter and under   *)
(* two only if it is an agent's and a user's, and the check mark is fresh  *)
(* and true, for any keys, owners, calls and timers.                       *)
THEOREM PageIsAlwaysTrue == MCSpec => []PageIsTrue
<1>1. MCInit => TableInv /\ GuideInv
  BY TableInit, GuideInit DEF MCInit
<1>2. TableInv /\ GuideInv /\ [MCNext]_<<moving, vars, tableVars, guideVars, pickerVars>>
        => TableInv' /\ GuideInv'
  <2>1. [MCNext]_<<moving, vars, tableVars, guideVars, pickerVars>>
           => [Table!Next]_Table!vars /\ [Guide!Next]_Guide!vars
    BY DEF MCNext, tableVars, guideVars, Table!vars, Table!query, Guide!vars, Guide!page,
           Guide!browser, Guide!history
  <2> QED
    BY <2>1, TableStep, GuideStep
<1>3. TableInv /\ GuideInv => PageIsTrue
  <2>1. TableInv => Table!TypeOK /\ Table!QuietTableIsTrue
    BY DEF TableInv, AllHeard, Table!QuietTableIsTrue
  <2>2. GuideInv => Guide!TypeOK /\ Guide!MarkIsFresh
    <3>1. ASSUME GuideInv, copied # None
          PROVE  Life - since \in 0 .. Life
      <4>1. timers \in Seq(0 .. Life) /\ timers # <<>> /\ timers[Len(timers)] = Life - since
        BY <3>1 DEF GuideInv, MarkHasTimer, Guide!TypeOK
      <4>2. Len(timers) \in 1 .. Len(timers)
        BY <4>1
      <4>3. timers[Len(timers)] \in 0 .. Life
        BY <4>1, <4>2, ElementOfSeq
      <4> QED
        BY <4>1, <4>3
    <3> QED
      BY <3>1, GuideAssumption DEF GuideInv, Guide!MarkIsFresh, Guide!TypeOK, Guide!GuideAssumption
  <2>3. GuideInv => Guide!MarkIsTrue
    BY DEF GuideInv, MarkIsOfLast, Settled, Guide!MarkIsTrue
  <2> QED
    BY <2>1, <2>2, <2>3, FiltersAreRight DEF PageIsTrue
<1> QED
  BY <1>1, <1>2, <1>3, PTL DEF MCSpec

-----------------------------------------------------------------------------
(***************************************************************************)
(* The picker of models.  A list, of the page or of the cache, holds what  *)
(* the account it was asked with has listed, and what has been listed      *)
(* stays listed.  The account is one the handler comes to for the query's  *)
(* form and a row that there has been, and what there has been stays.      *)
(***************************************************************************)
PageListed ==
  \A q \in Picker!Form : data[q] # None =>
    \E r \in past : /\ Picker!HandlerKey(q, r) # None
                    /\ data[q][1] \subseteq listed[Picker!AccountFor(q, r)]

CacheListed == \A a \in Picker!Account : cache[a] # None => cache[a][1] \subseteq listed[a]

AskedForRow ==
  \A q \in Picker!Form : flight[q] \notin {None, <<>>} =>
    \E r \in past : /\ Picker!HandlerKey(q, r) # None
                    /\ flight[q] = <<Picker!AccountFor(q, r)>>

PickerInv == /\ Picker!TypeOK /\ row \in past
             /\ PageListed /\ CacheListed /\ AskedForRow /\ Picker!TickedOfProvider

\* Lists and calls are told from their absence.
LEMMA PickerNone ==
  /\ None \notin ApiKeys \cup Picker!Account \cup Picker!Rows /\ Custom \in Providers
  /\ None # <<>> /\ \A s \in SUBSET Models : None # <<s>>
  /\ \A a \in Picker!Account : None # <<a>>
  /\ DefaultUrl \in [Providers -> Urls \cup {""}]
  /\ ConfigKey \in [Providers -> ApiKeys \cup {None}]
  /\ ConfigUrl \in [Providers -> Urls \cup {""}]
BY PickerAssumption DEF Picker!PickerAssumption

\* A form that has a key to ask with, under a row, stands for an account of its
\* provider.
LEMMA AccountTyping ==
  ASSUME NEW q \in Picker!Form, NEW r \in Picker!Rows \cup {None},
         Picker!HandlerKey(q, r) # None
  PROVE  /\ Picker!AccountFor(q, r) \in Picker!Account
         /\ Picker!AccountFor(q, r).provider = q.provider
<1>1. /\ q.provider \in Providers /\ q.key \in ApiKeys \cup {None} /\ q.url \in Urls \cup {""}
      /\ r # None => r.key \in ApiKeys \cup {None} /\ r.url \in Urls \cup {""}
  BY DEF Picker!Form, Picker!Rows
<1>2. Picker!HandlerKey(q, r) \in ApiKeys
  BY <1>1, PickerNone DEF Picker!HandlerKey
<1>3. Picker!HandlerUrl(q, r) \in Urls \cup {""}
  BY <1>1, PickerNone DEF Picker!HandlerUrl
<1> QED
  BY <1>1, <1>2, <1>3 DEF Picker!AccountFor, Picker!Account

\* Nothing is listed at first, or the models of the row that is edited.
LEMMA PickerInit == Picker!Init => PickerInv
<1> SUFFICES ASSUME Picker!Init PROVE PickerInv
  OBVIOUS
<1>0. /\ data = [f \in Picker!Form |-> None] /\ flight = [f \in Picker!Form |-> None]
      /\ cache = [a \in Picker!Account |-> None] /\ past = {row}
  BY DEF Picker!Init
<1>1. CASE /\ editing = FALSE /\ row = None /\ selected = {}
           /\ listed = [a \in Picker!Account |-> {}]
           /\ \E p \in Providers \ {Custom} :
                draft = [provider |-> p, key |-> None, url |-> DefaultUrl[p]]
  <2>1. draft \in Picker!Form
    <3>1. PICK p \in Providers : draft = [provider |-> p, key |-> None, url |-> DefaultUrl[p]]
      BY <1>1
    <3>2. DefaultUrl[p] \in Urls \cup {""}
      BY PickerNone
    <3> QED
      BY <3>1, <3>2 DEF Picker!Form
  <2> QED
    BY <1>0, <1>1, <2>1 DEF PickerInv, Picker!TypeOK, PageListed, CacheListed, AskedForRow,
       Picker!TickedOfProvider, Picker!Lists, Picker!Flights
<1>2. CASE /\ editing = TRUE /\ row \in Picker!Rows
           /\ \E p \in Providers : draft = [provider |-> p, key |-> None, url |-> row.url]
           /\ Picker!HandlerKey(draft, row) # None
           /\ selected \in (SUBSET Models) \ {{}}
           /\ listed = [a \in Picker!Account |->
                          IF a = Picker!AccountFor(draft, row) THEN selected ELSE {}]
  <2>1. draft \in Picker!Form
    <3>1. PICK p \in Providers : draft = [provider |-> p, key |-> None, url |-> row.url]
      BY <1>2
    <3>2. row.url \in Urls \cup {""}
      BY <1>2 DEF Picker!Rows
    <3> QED
      BY <3>1, <3>2 DEF Picker!Form
  <2> DEFINE b == Picker!AccountFor(draft, row)
  <2>2. b \in Picker!Account /\ b.provider = draft.provider
    BY <1>2, <2>1, AccountTyping
  <2>3. listed = [a \in Picker!Account |-> IF a = b THEN selected ELSE {}]
    BY <1>2
  <2> HIDE DEF b
  <2> QED
    BY <1>0, <1>2, <2>1, <2>2, <2>3 DEF PickerInv, Picker!TypeOK, PageListed, CacheListed,
       AskedForRow, Picker!TickedOfProvider, Picker!Lists, Picker!Flights
<1> QED
  BY <1>1, <1>2 DEF Picker!Init

\* The form is all that changes on the page until a list is asked for.
LEMMA PickerForm ==
  ASSUME PickerInv, NEW f \in Picker!Form, NEW s \in SUBSET Models, Picker!Shows(f, s),
         \A m \in s : \/ f.provider = draft.provider /\ m \in selected
                      \/ \E a \in Picker!Account : a.provider = f.provider /\ m \in listed[a]
  PROVE  PickerInv'
<1> USE DEF PickerInv, Picker!Shows, Picker!page, Picker!table
<1>1. Picker!TypeOK' /\ (row \in past)'
  BY DEF Picker!TypeOK
<1>2. PageListed' /\ CacheListed' /\ AskedForRow'
  BY DEF PageListed, CacheListed, AskedForRow
<1>3. Picker!TickedOfProvider'
  BY DEF Picker!TickedOfProvider
<1> QED
  BY <1>1, <1>2, <1>3

\* Every step of the dialog, the handler, the provider and the other administrators
\* keeps the invariant.
LEMMA PickerStep == PickerInv /\ [Picker!Next]_Picker!vars => PickerInv'
<1> SUFFICES ASSUME PickerInv, [Picker!Next]_Picker!vars
             PROVE  PickerInv'
  OBVIOUS
<1> USE PickerNone DEF PickerInv, Picker!page, Picker!table, Picker!QueryKey, Picker!CacheKey
<1>0. /\ Picker!TypeOK /\ draft \in Picker!Form
      /\ \A l \in Picker!Lists \ {None} : l[1] \in SUBSET Models
      /\ \A s \in SUBSET Models : <<s>> \in Picker!Lists /\ <<s>>[1] = s
      /\ \A a \in Picker!Account : <<a>> \in Picker!Flights /\ <<a>>[1] = a
  <2>1. \A s \in SUBSET Models : <<s>>[1] = s
    OBVIOUS
  <2>2. \A l \in Picker!Lists \ {None} : \E s \in SUBSET Models : l = <<s>>
    BY DEF Picker!Lists
  <2>3. ASSUME NEW l \in Picker!Lists \ {None}
        PROVE  l[1] \in SUBSET Models
    <3>1. PICK s \in SUBSET Models : l = <<s>>
      BY <2>2
    <3> QED
      BY <2>1, <3>1
  <2>4. \A s \in SUBSET Models : <<s>> \in Picker!Lists
    BY DEF Picker!Lists
  <2>5. \A a \in Picker!Account : <<a>> \in Picker!Flights
    BY DEF Picker!Flights
  <2>6. \A a \in Picker!Account : <<a>>[1] = a
    OBVIOUS
  <2> QED
    BY <2>1, <2>3, <2>4, <2>5, <2>6 DEF Picker!TypeOK
<1>1. \A q \in Picker!Form : \A r \in past :
         Picker!HandlerKey(q, r) # None =>
           /\ Picker!AccountFor(q, r) \in Picker!Account
           /\ Picker!AccountFor(q, r).provider = q.provider
  BY <1>0, AccountTyping DEF Picker!TypeOK
<1>2. CASE UNCHANGED Picker!vars
  BY <1>2 DEF Picker!vars, Picker!TypeOK, PageListed, CacheListed, AskedForRow,
              Picker!TickedOfProvider
<1>3. CASE Picker!Fetch \/ \E q \in Picker!Form : Picker!Fail(q)
  <2>1. /\ UNCHANGED <<editing, row, past, draft, selected, data, cache, listed>>
        /\ \E q \in Picker!Form, x \in {None, <<>>} : flight' = [flight EXCEPT ![q] = x]
    BY <1>0, <1>3 DEF Picker!Fetch, Picker!Fail
  <2>2. Picker!TypeOK' /\ (row \in past)'
    BY <2>1 DEF Picker!TypeOK, Picker!Flights
  <2>3. AskedForRow'
    BY <2>1 DEF Picker!TypeOK, AskedForRow
  <2>4. PageListed' /\ CacheListed' /\ Picker!TickedOfProvider'
    BY <2>1 DEF PageListed, CacheListed, Picker!TickedOfProvider
  <2> QED
    BY <2>2, <2>3, <2>4
<1>4. ASSUME NEW q \in Picker!Form, Picker!Serve(q)
      PROVE  PickerInv'
  <2>0. PICK r \in past : r = row
    OBVIOUS
  <2> DEFINE a == Picker!AccountFor(q, r)
  <2>1. /\ UNCHANGED <<editing, row, past, draft, selected, cache, listed>>
        /\ \/ flight' = [flight EXCEPT ![q] = None] /\ data' = data
           \/ /\ flight' = [flight EXCEPT ![q] = None] /\ Picker!HandlerKey(q, r) # None
              /\ cache[a] # None /\ data' = [data EXCEPT ![q] = cache[a]]
           \/ /\ flight' = [flight EXCEPT ![q] = <<a>>] /\ data' = data
              /\ Picker!HandlerKey(q, r) # None
    BY <1>4, <2>0 DEF Picker!Serve
  <2>2. Picker!HandlerKey(q, r) # None => a \in Picker!Account
    BY <1>1
  <2>3. a = Picker!AccountFor(q, r)
    OBVIOUS
  <2> HIDE DEF a
  <2>4. Picker!TypeOK' /\ (row \in past)'
    <3>1. None \in Picker!Flights /\ (a \in Picker!Account => <<a>> \in Picker!Flights)
      BY DEF Picker!Flights
    <3>2. flight' \in [Picker!Form -> Picker!Flights]
      BY <2>1, <2>2, <3>1 DEF Picker!TypeOK
    <3>3. data' \in [Picker!Form -> Picker!Lists]
      BY <2>1, <2>2 DEF Picker!TypeOK
    <3> QED
      BY <2>1, <3>2, <3>3 DEF Picker!TypeOK
  <2>5. CacheListed' /\ Picker!TickedOfProvider'
    BY <2>1 DEF CacheListed, Picker!TickedOfProvider
  <2>6. AskedForRow'
    <3>1. ASSUME NEW q2 \in Picker!Form, flight'[q2] \notin {None, <<>>}
          PROVE  \E r2 \in past : /\ Picker!HandlerKey(q2, r2) # None
                                  /\ flight'[q2] = <<Picker!AccountFor(q2, r2)>>
      <4>1. CASE flight'[q2] = flight[q2]
        BY <3>1, <4>1 DEF AskedForRow
      <4>2. CASE q2 = q /\ flight'[q2] = <<a>> /\ Picker!HandlerKey(q, r) # None
        BY <2>3, <4>2
      <4> QED
        BY <2>1, <3>1, <4>1, <4>2 DEF Picker!TypeOK
    <3> QED
      BY <2>1, <3>1 DEF AskedForRow
  <2>7. PageListed'
    <3>1. CASE data' = data
      BY <2>1, <3>1 DEF PageListed
    <3>2. CASE /\ Picker!HandlerKey(q, r) # None /\ cache[a] # None
               /\ data' = [data EXCEPT ![q] = cache[a]]
      <4>1. cache[a][1] \subseteq listed[a] /\ data \in [Picker!Form -> Picker!Lists]
        BY <2>2, <3>2 DEF CacheListed, Picker!TypeOK
      <4> QED
        BY <2>1, <2>3, <3>2, <4>1 DEF PageListed
    <3> QED
      BY <2>1, <3>1, <3>2
  <2> QED
    BY <2>4, <2>5, <2>6, <2>7
<1>5. ASSUME NEW q \in Picker!Form, NEW l \in SUBSET Models, Picker!Answer(q, l)
      PROVE  PickerInv'
  <2>0. PICK r \in past : /\ Picker!HandlerKey(q, r) # None
                          /\ flight[q] = <<Picker!AccountFor(q, r)>>
    BY <1>5 DEF Picker!Answer, AskedForRow
  <2> DEFINE a == Picker!AccountFor(q, r)
  <2>1. a \in Picker!Account /\ flight[q][1] = a
    BY <1>0, <1>1, <2>0
  <2>2. /\ UNCHANGED <<editing, row, past, draft, selected>>
        /\ flight' = [flight EXCEPT ![q] = None]
        /\ data' = [data EXCEPT ![q] = <<l>>]
        /\ listed' = [listed EXCEPT ![a] = @ \cup l]
        /\ cache' = cache \/ cache' = [cache EXCEPT ![a] = <<l>>]
    BY <1>5, <2>1 DEF Picker!Answer
  <2>3. Picker!AccountFor(q, r) = a
    OBVIOUS
  <2> HIDE DEF a
  <2>4. Picker!TypeOK' /\ (row \in past)'
    <3>1. None \in Picker!Flights /\ <<l>> \in Picker!Lists
      BY <1>0 DEF Picker!Flights
    <3>2. /\ flight' \in [Picker!Form -> Picker!Flights]
          /\ data' \in [Picker!Form -> Picker!Lists]
      BY <2>2, <3>1 DEF Picker!TypeOK
    <3>3. cache' \in [Picker!Account -> Picker!Lists]
      BY <2>2, <3>1 DEF Picker!TypeOK
    <3>4. listed' \in [Picker!Account -> SUBSET Models]
      BY <2>1, <2>2 DEF Picker!TypeOK
    <3> QED
      BY <2>2, <3>2, <3>3, <3>4 DEF Picker!TypeOK
  <2>5. /\ l \subseteq listed'[a]
        /\ \A b \in Picker!Account : listed[b] \subseteq listed'[b]
    BY <2>1, <2>2 DEF Picker!TypeOK
  <2>6. AskedForRow' /\ Picker!TickedOfProvider'
    BY <2>2, <2>5 DEF Picker!TypeOK, AskedForRow, Picker!TickedOfProvider
  <2>7. CacheListed'
    <3>1. ASSUME NEW b \in Picker!Account, cache'[b] # None
          PROVE  cache'[b][1] \subseteq listed'[b]
      <4>1. CASE cache'[b] = cache[b]
        BY <2>5, <3>1, <4>1 DEF CacheListed
      <4>2. CASE b = a /\ cache'[b] = <<l>>
        <5>1. <<l>>[1] = l
          OBVIOUS
        <5>2. cache'[b][1] = l
          BY <4>2, <5>1
        <5> QED
          BY <2>5, <4>2, <5>2
      <4> QED
        BY <2>2, <4>1, <4>2 DEF Picker!TypeOK
    <3> QED
      BY <3>1 DEF CacheListed
  <2>8. PageListed'
    <3>1. ASSUME NEW q2 \in Picker!Form, data'[q2] # None
          PROVE  \E r2 \in past : /\ Picker!HandlerKey(q2, r2) # None
                                  /\ data'[q2][1] \subseteq listed'[Picker!AccountFor(q2, r2)]
      <4>1. CASE q2 = q
        <5>1. data'[q2] = <<l>> /\ <<l>>[1] = l
          BY <2>2, <4>1 DEF Picker!TypeOK
        <5> QED
          BY <2>0, <2>3, <2>5, <4>1, <5>1
      <4>2. CASE q2 # q
        <5>1. data'[q2] = data[q2]
          BY <2>2, <4>2 DEF Picker!TypeOK
        <5>2. PICK r2 \in past : /\ Picker!HandlerKey(q2, r2) # None
                                 /\ data[q2][1] \subseteq listed[Picker!AccountFor(q2, r2)]
          BY <3>1, <5>1 DEF PageListed
        <5>3. listed[Picker!AccountFor(q2, r2)] \subseteq listed'[Picker!AccountFor(q2, r2)]
          BY <1>1, <2>5, <5>2
        <5> QED
          BY <5>1, <5>2, <5>3
      <4> QED
        BY <4>1, <4>2
    <3> QED
      BY <2>2, <3>1 DEF PageListed
  <2> QED
    BY <2>4, <2>6, <2>7, <2>8
<1>6. ASSUME NEW a \in Picker!Account, Picker!Expire(a)
      PROVE  PickerInv'
  <2>1. /\ UNCHANGED <<editing, row, past, draft, selected, data, flight, listed>>
        /\ cache' = [cache EXCEPT ![a] = None]
    BY <1>6 DEF Picker!Expire
  <2>2. Picker!TypeOK' /\ CacheListed' /\ (row \in past)'
    BY <2>1 DEF Picker!TypeOK, Picker!Lists, CacheListed
  <2>3. PageListed' /\ AskedForRow' /\ Picker!TickedOfProvider'
    BY <2>1 DEF PageListed, AskedForRow, Picker!TickedOfProvider
  <2> QED
    BY <2>2, <2>3
<1>11. ASSUME NEW r \in Picker!Rows \cup {None}, Picker!RowChanges(r)
       PROVE  PickerInv'
  <2>1. /\ UNCHANGED <<editing, draft, selected, data, flight, cache, listed>>
        /\ row' = r /\ past' = past \cup {r}
    BY <1>11 DEF Picker!RowChanges
  <2>2. Picker!TypeOK' /\ (row \in past)' /\ CacheListed' /\ Picker!TickedOfProvider'
    BY <2>1 DEF Picker!TypeOK, CacheListed, Picker!TickedOfProvider
  <2>3. PageListed' /\ AskedForRow'
    BY <2>1 DEF PageListed, AskedForRow
  <2> QED
    BY <2>2, <2>3
<1>7. ASSUME NEW p \in Providers, Picker!handleProviderChange(p)
      PROVE  PickerInv'
  <2> DEFINE f == [draft EXCEPT !.provider = p, !.url = DefaultUrl[p]]
  <2>1. f \in Picker!Form
    BY <1>0 DEF Picker!Form
  <2> DEFINE s == Picker!LeftOnProvider
  <2>2. Picker!Shows(f, s)
    BY <1>7 DEF Picker!handleProviderChange
  <2> HIDE DEF f
  <2>3. /\ s \in SUBSET Models
        /\ \A m \in s : \/ f.provider = draft.provider /\ m \in selected
                      \/ \E a \in Picker!Account : a.provider = f.provider /\ m \in listed[a]
    BY DEF Picker!LeftOnProvider
  <2> HIDE DEF s
  <2> QED
    BY <2>1, <2>2, <2>3, PickerForm, Zenon
<1>8. ASSUME NEW u \in Urls \cup {""}, Picker!TypeUrl(u)
      PROVE  PickerInv'
  <2> DEFINE f == [draft EXCEPT !.url = u]
  <2>1. f \in Picker!Form /\ f.provider = draft.provider /\ selected \in SUBSET Models
    BY <1>0 DEF Picker!Form, Picker!TypeOK
  <2>2. Picker!Shows(f, selected)
    BY <1>8 DEF Picker!TypeUrl
  <2> HIDE DEF f
  <2> QED
    BY <2>1, <2>2, PickerForm
<1>9. ASSUME NEW k \in ApiKeys \cup {None}, Picker!TypeAPIKey(k)
      PROVE  PickerInv'
  <2> DEFINE f == [draft EXCEPT !.key = k]
  <2>1. f \in Picker!Form /\ f.provider = draft.provider /\ selected \in SUBSET Models
    BY <1>0 DEF Picker!Form, Picker!TypeOK
  <2>2. Picker!Shows(f, selected)
    BY <1>9 DEF Picker!TypeAPIKey
  <2> HIDE DEF f
  <2> QED
    BY <2>1, <2>2, PickerForm
<1>10. ASSUME NEW m \in Models, Picker!toggleModel(m)
       PROVE  PickerInv'
  <2> DEFINE s == IF m \in selected THEN selected \ {m} ELSE selected \cup {m}
  <2>1. s \in SUBSET Models /\ Picker!Shows(draft, s) /\ m \in Picker!Offered
    BY <1>0, <1>10 DEF Picker!toggleModel, Picker!TypeOK
  <2>2. data[draft] # None /\ m \in data[draft][1]
    BY <2>1 DEF Picker!Offered
  <2>3. \E a \in Picker!Account : a.provider = draft.provider /\ m \in listed[a]
    <3>1. PICK r \in past : /\ Picker!HandlerKey(draft, r) # None
                            /\ data[draft][1] \subseteq listed[Picker!AccountFor(draft, r)]
      BY <1>0, <2>2 DEF PageListed
    <3> DEFINE a == Picker!AccountFor(draft, r)
    <3>2. a \in Picker!Account /\ a.provider = draft.provider /\ m \in listed[a]
      BY <1>0, <1>1, <2>2, <3>1
    <3> HIDE DEF a
    <3> QED
      BY <3>2
  <2>4. \A x \in s : \/ draft.provider = draft.provider /\ x \in selected
                     \/ \E a \in Picker!Account : a.provider = draft.provider /\ x \in listed[a]
    BY <2>3
  <2> HIDE DEF s
  <2> QED
    BY <1>0, <2>1, <2>4, PickerForm, Zenon
<1> QED
  BY <1>2, <1>3, <1>4, <1>5, <1>6, <1>7, <1>8, <1>9, <1>10, <1>11
     DEF Picker!Next, Picker!ProviderList

(* The models offered and those ticked were listed by the provider, for    *)
(* any providers, URLs, keys and models.                                   *)
THEOREM ModelsAreListed == MCSpec => []ModelsWereListed
<1>1. MCInit => PickerInv
  BY PickerInit DEF MCInit
<1>2. PickerInv /\ [MCNext]_<<moving, vars, tableVars, guideVars, pickerVars>> => PickerInv'
  <2>1. [MCNext]_<<moving, vars, tableVars, guideVars, pickerVars>> => [Picker!Next]_Picker!vars
    BY DEF MCNext, pickerVars, Picker!vars, Picker!page, Picker!table
  <2> QED
    BY <2>1, PickerStep
<1>3. PickerInv => ModelsWereListed
  BY DEF PickerInv, PageListed, ModelsWereListed, Picker!OfferedWasListed, Picker!Offered,
         Picker!QueryKey, Picker!TypeOK
<1> QED
  BY <1>1, <1>2, <1>3, PTL DEF MCSpec
=============================================================================
