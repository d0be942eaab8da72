-------------------------- MODULE AsyncTaskProofs --------------------------
(***************************************************************************)
(* Theorems about the rows of MCRecords, of which AsyncTask is the first.  *)
(* Tasks: for any number of them, of attempts and delays, with a database  *)
(* that may fail and a process that may crash.  Members, tenants and       *)
(* logins: for any people, names, accounts and calls.                      *)
(***************************************************************************)
EXTENDS MCRecords, FiniteSetTheorems, TLAPS

BeforeReload == {"none", "load", "start", "run", "persist"}
BeforePost == BeforeReload \cup {"reload"}

(***************************************************************************)
(* The goroutine is the only writer of its row, so where it stands tells   *)
(* what it may have written and sent.                                      *)
(***************************************************************************)
RowExists == \A t \in Task : pc[t] # "none" => row[t].status # "absent"

AttemptsLeft ==
  \A t \in Task : pc[t] \in BeforePost \cup {"post", "backoff"} => attempt[t] < MaxAttempts

AttemptsBegun == \A t \in Task : pc[t] = "backoff" => attempt[t] >= 1

VerdictEndsDelivery ==
  \A t \in Task :
    verdict[t] \in {"accepted", "rejected"} => pc[t] \in {"mark", "done", "lost"}

WebhookIsLast == \A t \in Task : row[t].webhook # "pending" => pc[t] = "done"

ResultIsTasks ==
  \A t \in Task :
    row[t].status \in Final => pc[t] \notin BeforeReload /\ task[t] = row[t].status

SentIsTasks ==
  \A t \in Task :
    /\ received[t] \subseteq {task[t]}
    /\ pc[t] \in BeforePost => received[t] = {}

IInv ==
  /\ TypeOK
  /\ RowExists /\ AttemptsLeft /\ AttemptsBegun
  /\ VerdictEndsDelivery /\ WebhookIsLast /\ WebhookStatusIsTrue
  /\ ResultIsTasks /\ SentIsTasks

\* The invariant holds before any task is submitted (dispatcher.go:87-91).
LEMMA IInvInit == Init => IInv
BY AsyncAssumption
  DEF Init, IInv, TypeOK, Row, Status, Final, BeforeReload, BeforePost,
      RowExists, AttemptsLeft, AttemptsBegun, VerdictEndsDelivery,
      WebhookIsLast, WebhookStatusIsTrue, ResultIsTasks, SentIsTasks

\* Every retry finds its delay in the backoff table (dispatcher.go:204).
LEMMA BackoffInRange ==
  ASSUME NEW n \in 1 .. MaxAttempts
  PROVE  BackoffIndex(n) \in 0 .. BackoffLen - 1
BY AsyncAssumption DEF BackoffIndex, MinOf

(* A write changes at most one field of one row, to the value written.     *)
LEMMA StatusWritten ==
  ASSUME row \in [Task -> Row], NEW t \in Task, NEW s \in Status, WriteStatus(t, s)
  PROVE  /\ row' \in [Task -> Row]
         /\ \A u \in Task :
              /\ row'[u].webhook = row[u].webhook
              /\ u # t => row'[u].status = row[u].status
         /\ row'[t].status \in {s, row[t].status}
BY DEF WriteStatus, Row

\* A webhook verdict is written to one row and leaves its status alone.
LEMMA WebhookWritten ==
  ASSUME row \in [Task -> Row], NEW t \in Task,
         NEW w \in {"delivered", "dead_letter"}, WriteWebhook(t, w)
  PROVE  /\ row' \in [Task -> Row]
         /\ \A u \in Task :
              /\ row'[u].status = row[u].status
              /\ u # t => row'[u].webhook = row[u].webhook
         /\ row'[t].webhook \in {w, row[t].webhook}
BY DEF WriteWebhook, Row

\* Every step of workers, receivers and crashes keeps the invariant.
LEMMA IInvNext == IInv /\ [Next]_vars => IInv'
<1> SUFFICES ASSUME IInv, [Next]_vars
             PROVE  IInv'
  OBVIOUS
<1> USE AsyncAssumption
    DEF IInv, TypeOK, Row, Status, Final, BeforeReload, BeforePost,
        RowExists, AttemptsLeft, AttemptsBegun, VerdictEndsDelivery,
        WebhookIsLast, WebhookStatusIsTrue, ResultIsTasks, SentIsTasks, Goto
<1>1. ASSUME NEW t \in Task, Submit(t)
      PROVE  IInv'
  BY <1>1 DEF Submit
<1>2. ASSUME NEW t \in Task, Load(t)
      PROVE  IInv'
  <2>0. row[t].status \in Status
    BY <1>2 DEF Load
  <2>1. TypeOK'
    BY <1>2, <2>0 DEF Load
  <2>2. RowExists'
    BY <1>2 DEF Load
  <2>3. (AttemptsLeft /\ AttemptsBegun)'
    BY <1>2 DEF Load
  <2>4. VerdictEndsDelivery'
    BY <1>2 DEF Load
  <2>5. WebhookIsLast'
    BY <1>2 DEF Load
  <2>6. WebhookStatusIsTrue'
    BY <1>2 DEF Load
  <2>7. ResultIsTasks'
    BY <1>2 DEF Load
  <2>8. SentIsTasks'
    BY <1>2 DEF Load
  <2> QED
    BY <2>1, <2>2, <2>3, <2>4, <2>5, <2>6, <2>7, <2>8 DEF IInv
<1>3. ASSUME NEW t \in Task, Start(t)
      PROVE  IInv'
  <2>1. WriteStatus(t, "running")
    BY <1>3 DEF Start
  <2>2. /\ row' \in [Task -> Row]
        /\ \A u \in Task :
             /\ row'[u].webhook = row[u].webhook
             /\ u # t => row'[u].status = row[u].status
        /\ row'[t].status \in {"running", row[t].status}
    BY <2>1, StatusWritten
  <2>3. TypeOK'
    BY <1>3, <2>2 DEF Start
  <2>4. RowExists'
    BY <1>3, <2>2 DEF Start
  <2>5. (AttemptsLeft /\ AttemptsBegun)'
    BY <1>3, <2>2 DEF Start
  <2>6. VerdictEndsDelivery'
    BY <1>3, <2>2 DEF Start
  <2>7. WebhookIsLast'
    BY <1>3, <2>2 DEF Start
  <2>8. WebhookStatusIsTrue'
    BY <1>3, <2>2 DEF Start
  <2>9. ResultIsTasks'
    BY <1>3, <2>2 DEF Start
  <2>10. SentIsTasks'
    BY <1>3, <2>2 DEF Start
  <2> QED
    BY <2>3, <2>4, <2>5, <2>6, <2>7, <2>8, <2>9, <2>10 DEF IInv
<1>4. ASSUME NEW t \in Task, Run(t)
      PROVE  IInv'
  BY <1>4 DEF Run
<1>5. ASSUME NEW t \in Task, Persist(t)
      PROVE  IInv'
  <2>1. WriteStatus(t, task[t])
    BY <1>5 DEF Persist
  <2>2. /\ row' \in [Task -> Row]
        /\ \A u \in Task :
             /\ row'[u].webhook = row[u].webhook
             /\ u # t => row'[u].status = row[u].status
        /\ row'[t].status \in {task[t], row[t].status}
    BY <2>1, StatusWritten
  <2>3. TypeOK'
    BY <1>5, <2>2 DEF Persist
  <2>4. RowExists'
    BY <1>5, <2>2 DEF Persist
  <2>5. (AttemptsLeft /\ AttemptsBegun)'
    BY <1>5, <2>2 DEF Persist
  <2>6. VerdictEndsDelivery'
    BY <1>5, <2>2 DEF Persist
  <2>7. WebhookIsLast'
    BY <1>5, <2>2 DEF Persist
  <2>8. WebhookStatusIsTrue'
    BY <1>5, <2>2 DEF Persist
  <2>9. ResultIsTasks'
    BY <1>5, <2>2 DEF Persist
  <2>10. SentIsTasks'
    BY <1>5, <2>2 DEF Persist
  <2> QED
    BY <2>3, <2>4, <2>5, <2>6, <2>7, <2>8, <2>9, <2>10 DEF IInv
<1>6. ASSUME NEW t \in Task, Reload(t)
      PROVE  IInv'
  <2>1. TypeOK'
    BY <1>6 DEF Reload
  <2>2. RowExists'
    BY <1>6 DEF Reload
  <2>3. (AttemptsLeft /\ AttemptsBegun)'
    BY <1>6 DEF Reload
  <2>4. VerdictEndsDelivery'
    BY <1>6 DEF Reload
  <2>5. WebhookIsLast'
    BY <1>6 DEF Reload
  <2>6. WebhookStatusIsTrue'
    BY <1>6 DEF Reload
  <2>7. ResultIsTasks'
    BY <1>6 DEF Reload
  <2>8. SentIsTasks'
    BY <1>6 DEF Reload
  <2> QED
    BY <2>1, <2>2, <2>3, <2>4, <2>5, <2>6, <2>7, <2>8 DEF IInv
<1>7. ASSUME NEW t \in Task, Accepted(t)
      PROVE  IInv'
  BY <1>7 DEF Accepted
<1>8. ASSUME NEW t \in Task, Rejected(t)
      PROVE  IInv'
  BY <1>8 DEF Rejected
<1>9. ASSUME NEW t \in Task, Unanswered(t)
      PROVE  IInv'
  <2>1. TypeOK'
    BY <1>9 DEF Unanswered, TryAgain
  <2>2. RowExists'
    BY <1>9 DEF Unanswered, TryAgain
  <2>3. (AttemptsLeft /\ AttemptsBegun)'
    BY <1>9 DEF Unanswered, TryAgain
  <2>4. VerdictEndsDelivery'
    BY <1>9 DEF Unanswered, TryAgain
  <2>5. WebhookIsLast'
    BY <1>9 DEF Unanswered, TryAgain
  <2>6. WebhookStatusIsTrue'
    BY <1>9 DEF Unanswered, TryAgain
  <2>7. ResultIsTasks'
    BY <1>9 DEF Unanswered, TryAgain
  <2>8. SentIsTasks'
    BY <1>9 DEF Unanswered, TryAgain
  <2> QED
    BY <2>1, <2>2, <2>3, <2>4, <2>5, <2>6, <2>7, <2>8 DEF IInv
<1>10. ASSUME NEW t \in Task, Backoff(t)
       PROVE  IInv'
  <2>1. BackoffIndex(attempt[t]) \in 0 .. BackoffLen - 1
    BY <1>10, BackoffInRange DEF Backoff
  <2> QED
    BY <1>10, <2>1 DEF Backoff
<1>11. ASSUME NEW t \in Task, Mark(t)
       PROVE  IInv'
  <2> DEFINE w == IF verdict[t] = "accepted" THEN "delivered" ELSE "dead_letter"
  <2>1. WriteWebhook(t, w)
    BY <1>11 DEF Mark
  <2>2. /\ row' \in [Task -> Row]
        /\ \A u \in Task :
             /\ row'[u].status = row[u].status
             /\ u # t => row'[u].webhook = row[u].webhook
        /\ row'[t].webhook \in {w, row[t].webhook}
    BY <2>1, WebhookWritten
  <2>3. TypeOK'
    BY <1>11, <2>2 DEF Mark
  <2>4. RowExists'
    BY <1>11, <2>2 DEF Mark
  <2>5. (AttemptsLeft /\ AttemptsBegun)'
    BY <1>11, <2>2 DEF Mark
  <2>6. VerdictEndsDelivery'
    BY <1>11, <2>2 DEF Mark
  <2>7. WebhookIsLast'
    BY <1>11, <2>2 DEF Mark
  <2>8. WebhookStatusIsTrue'
    BY <1>11, <2>2 DEF Mark
  <2>9. ResultIsTasks'
    BY <1>11, <2>2 DEF Mark
  <2>10. SentIsTasks'
    BY <1>11, <2>2 DEF Mark
  <2> QED
    BY <2>3, <2>4, <2>5, <2>6, <2>7, <2>8, <2>9, <2>10 DEF IInv
<1>12. CASE Crash
  BY <1>12 DEF Crash
<1>13. CASE UNCHANGED vars
  BY <1>13 DEF vars
<1> QED
  BY <1>1, <1>2, <1>3, <1>4, <1>5, <1>6, <1>7, <1>8, <1>9, <1>10, <1>11,
     <1>12, <1>13 DEF Next, Work

\* The strengthened invariant holds in every reachable state.
LEMMA Invariance == Spec => []IInv
BY IInvInit, IInvNext, PTL DEF Spec

(* In particular attempts and backoff indices stay within their bounds.    *)
THEOREM AsyncTypeCorrect == Spec => []TypeOK
<1>1. IInv => TypeOK
  BY DEF IInv
<1> QED
  BY <1>1, Invariance, PTL

(* The webhook status in the row is what the receiver answered.            *)
THEOREM WebhookStatusCorrect == Spec => []WebhookStatusIsTrue
<1>1. IInv => WebhookStatusIsTrue
  BY DEF IInv
<1> QED
  BY <1>1, Invariance, PTL

(* What the receiver was told and what the row says never contradict.      *)
THEOREM ReceiverAgrees == Spec => []ReceiverAgreesWithRow
<1>1. IInv => ReceiverAgreesWithRow
  BY DEF IInv, ResultIsTasks, SentIsTasks, ReceiverAgreesWithRow
<1> QED
  BY <1>1, Invariance, PTL

(* Nothing is posted after the receiver accepted or rejected the payload.  *)
THEOREM PostsEnd == Spec => NoPostAfterVerdict
<1>1. IInv /\ [Next]_vars =>
        [\A t \in Task :
           verdict[t] \in {"accepted", "rejected"} => attempt'[t] = attempt[t]]_vars
  <2> SUFFICES ASSUME IInv, Next, NEW t \in Task,
                      verdict[t] \in {"accepted", "rejected"}
               PROVE  attempt'[t] = attempt[t]
    OBVIOUS
  <2>1. pc[t] \notin {"post", "backoff"}
    BY DEF IInv, VerdictEndsDelivery
  <2>2. \A u \in Task : Accepted(u) \/ Rejected(u) \/ Unanswered(u) => u # t
    BY <2>1 DEF Accepted, Rejected, Unanswered, TryAgain, Goto
  <2>3. ASSUME NEW u \in Task, Accepted(u) \/ Rejected(u) \/ Unanswered(u)
        PROVE  attempt'[t] = attempt[t]
    BY <2>2, <2>3 DEF Accepted, Rejected, Unanswered, IInv, TypeOK
  <2>4. ASSUME NEW u \in Task,
               \/ Submit(u) \/ Load(u) \/ Start(u) \/ Run(u) \/ Persist(u)
               \/ Reload(u) \/ Backoff(u) \/ Mark(u)
        PROVE  attempt' = attempt
    BY <2>4 DEF Submit, Load, Start, Run, Persist, Reload, Backoff, Mark
  <2>5. CASE Crash
    BY <2>5 DEF Crash
  <2> QED
    BY <2>3, <2>4, <2>5 DEF Next, Work
<1> QED
  BY <1>1, Invariance, PTL DEF Spec, NoPostAfterVerdict

-----------------------------------------------------------------------------
(***************************************************************************)
(* The members of a tenant.  What a call to add somebody carries stood in  *)
(* the tab that was open when the button was clicked; and the rows the     *)
(* page shows, or has under way, are the gateway's unless an answer has    *)
(* yet to bring them up to date.                                           *)
(***************************************************************************)
AddedWereChosen ==
  \A s \in Slots :
    changes[s] # None /\ changes[s].op = "add" =>
      <<changes[s].person, changes[s].role>> \in chosen

Unheard == unsure \/ \E s \in Slots : changes[s] # None /\ changes[s].at = "done"

ShownAreMembers == fetch = None /\ rows # None /\ ~Unheard => rows = Members!Members

ReadAreMembers ==
  fetch # None /\ fetch.read # None /\ ~Unheard => fetch.read = Members!Members

MemberInv ==
  /\ Members!TypeOK
  /\ AddedWereChosen /\ Members!MembersWereChosen
  /\ ShownAreMembers /\ ReadAreMembers

\* Calls, rows and fetches are told from their absence.
LEMMA MemberNone ==
  /\ None \notin Members!Call /\ None \notin Members!Row /\ None \notin Members!Reads
  /\ None \notin People /\ None \notin Roles /\ None \notin Slots
BY MembersAssumption DEF Members!MemberConsoleAssumption

\* The page has shown nothing yet, and the members at the start count as chosen.
LEMMA MemberInit == Members!Init => MemberInv
<1> SUFFICES ASSUME Members!Init PROVE MemberInv
  OBVIOUS
<1>1. PICK f \in [Registered -> Roles \cup {None}] :
        /\ table = [p \in People |-> IF p \in Registered /\ f[p] # None
                                     THEN [role |-> f[p], deleted |-> FALSE] ELSE None]
        /\ chosen = {<<p, f[p]>> : p \in {q \in Registered : f[q] # None}}
  BY DEF Members!Init
<1>2. Registered \subseteq People
  BY MembersAssumption DEF Members!MemberConsoleAssumption
<1>3. \A p \in Registered : f[p] # None => [role |-> f[p], deleted |-> FALSE] \in Members!Row
  BY DEF Members!Row
<1>4. table \in [People -> Members!Row \cup {None}] /\ chosen \subseteq People \X Roles
  BY <1>1, <1>2, <1>3
<1>5. Members!TypeOK
  BY <1>2, <1>4 DEF Members!Init, Members!TypeOK, Members!NoDraft, Members!Reads
<1>6. Members!MembersWereChosen
  BY <1>1 DEF Members!MembersWereChosen
<1> QED
  BY <1>5, <1>6
    DEF Members!Init, MemberInv, AddedWereChosen, ShownAreMembers, ReadAreMembers, Members!Reads

\* A call that moves on is the same call.
LEMMA ChangeMovesOn ==
  ASSUME changes \in [Slots -> Members!Call \cup {None}],
         NEW s \in Slots, changes[s] # None,
         NEW a \in {"create", "insert", "done", "refused", "conflict"},
         changes' = [changes EXCEPT ![s].at = a]
  PROVE  /\ changes' \in [Slots -> Members!Call \cup {None}]
         /\ changes'[s] # None /\ changes'[s].at = a
         /\ changes'[s].op = changes[s].op /\ changes'[s].person = changes[s].person
         /\ changes'[s].role = changes[s].role
         /\ \A r \in Slots : r # s => changes'[r] = changes[r]
<1>1. changes[s] \in Members!Call
  OBVIOUS
<1>2. [changes[s] EXCEPT !.at = a] \in Members!Call
  BY <1>1 DEF Members!Call
<1>3. changes'[s] = [changes[s] EXCEPT !.at = a] /\ \A r \in Slots : r # s => changes'[r] = changes[r]
  OBVIOUS
<1>4. changes' \in [Slots -> Members!Call \cup {None}]
  BY <1>2, <1>3
<1>5. changes'[s] # None
  BY <1>2, <1>3, MemberNone
<1>6. /\ changes'[s].op = changes[s].op /\ changes'[s].person = changes[s].person
      /\ changes'[s].role = changes[s].role /\ changes'[s].at = a
  BY <1>1, <1>3 DEF Members!Call
<1> QED
  BY <1>3, <1>4, <1>5, <1>6

\* Every step of the page, its calls and the gateway keeps the types.
LEMMA MemberTyping ==
  Members!TypeOK /\ AddedWereChosen /\ [Members!Next]_Members!vars => Members!TypeOK'
<1> SUFFICES ASSUME Members!TypeOK, AddedWereChosen, [Members!Next]_Members!vars
             PROVE  Members!TypeOK'
  OBVIOUS
<1> USE DEF Members!TypeOK, Members!gateway, Members!cache, Members!dialog
<1>0. /\ [read |-> None] \in Members!Reads /\ [read |-> Members!Members] \in Members!Reads
      /\ \A f \in Members!Reads : f.read \in (SUBSET People) \cup {None}
      /\ Members!NoDraft \in [user : People \cup {None}, invited : People \cup {None},
                              role : Roles \cup {None}]
  BY DEF Members!Reads, Members!Members, Members!NoDraft
<1>1. ASSUME NEW s \in Slots, NEW a \in {"create", "insert", "done", "refused", "conflict"},
             changes[s] # None, Members!Goes(s, a)
      PROVE  changes' \in [Slots -> Members!Call \cup {None}]
  BY <1>1, ChangeMovesOn, Zenon DEF Members!Goes
<1>2. ASSUME NEW s \in Slots, changes[s] # None
      PROVE  changes[s].person \in People /\ changes[s].role \in Roles \cup {None}
  BY <1>2 DEF Members!Call
<1>3. ASSUME NEW s \in Slots, Members!FindUser(s) \/ Members!StatementFails(s)
      PROVE  Members!TypeOK'
  BY <1>1, <1>3 DEF Members!FindUser, Members!StatementFails, Members!At, Members!Free
<1>4. ASSUME NEW s \in Slots, Members!CreateUser(s)
      PROVE  Members!TypeOK'
  BY <1>1, <1>2, <1>4 DEF Members!CreateUser, Members!At
<1>5. ASSUME NEW s \in Slots, Members!InsertMember(s)
      PROVE  Members!TypeOK'
  <2>1. changes[s] # None /\ changes[s].op = "add" /\ changes[s].person \in People
    BY <1>2, <1>5 DEF Members!InsertMember, Members!At
  <2>2. <<changes[s].person, changes[s].role>> \in People \X Roles
    BY <2>1 DEF AddedWereChosen
  <2>3. [role |-> changes[s].role, deleted |-> FALSE] \in Members!Row
    BY <2>2 DEF Members!Row
  <2>4. table' \in [People -> Members!Row \cup {None}]
    BY <1>5, <2>1, <2>3 DEF Members!InsertMember
  <2>5. changes' \in [Slots -> Members!Call \cup {None}]
    BY <1>1, <1>5, <2>1 DEF Members!InsertMember
  <2> QED
    BY <1>5, <2>4, <2>5 DEF Members!InsertMember
<1>6. ASSUME NEW s \in Slots, Members!Remove(s)
      PROVE  Members!TypeOK'
  <2>1. changes[s] # None /\ changes[s].person \in People
    BY <1>2, <1>6 DEF Members!Remove, Members!At
  <2>2. table' \in [People -> Members!Row \cup {None}]
    BY <1>6, <2>1 DEF Members!Remove, Members!Active, Members!Row
  <2>3. changes' \in [Slots -> Members!Call \cup {None}]
    BY <1>1, <1>6, <2>1 DEF Members!Remove
  <2> QED
    BY <1>6, <2>2, <2>3 DEF Members!Remove
<1>7. ASSUME NEW s \in Slots, Members!Answered(s)
      PROVE  Members!TypeOK'
  BY <1>0, <1>7 DEF Members!Answered, Members!Invalidate
<1>8. ASSUME NEW s \in Slots, Members!Refused(s) \/ Members!Lost(s)
      PROVE  Members!TypeOK'
  BY <1>8 DEF Members!Refused, Members!Lost
<1>9. ASSUME NEW s \in Slots, Members!HandleAddMember(s)
      PROVE  Members!TypeOK'
  <2>1. /\ draft.role \in Roles
        /\ tab = "existing" => draft.user \in People
        /\ tab = "new" => draft.invited \in People
    BY <1>9 DEF Members!HandleAddMember, Members!SubmitEnabled
  <2>2. Members!Payload.person \in People /\ Members!Payload.byEmail \in BOOLEAN
    BY <2>1 DEF Members!Payload
  <2>3. [op |-> "add", person |-> Members!Payload.person, byEmail |-> Members!Payload.byEmail,
         role |-> draft.role, at |-> "sent"] \in Members!Call
    BY <2>1, <2>2 DEF Members!Call
  <2>4. changes' \in [Slots -> Members!Call \cup {None}]
    BY <1>9, <2>3 DEF Members!HandleAddMember
  <2>5. chosen' \subseteq People \X Roles
    BY <1>9, <2>1 DEF Members!HandleAddMember
  <2> QED
    BY <1>9, <2>4, <2>5 DEF Members!HandleAddMember
<1>10. ASSUME NEW s \in Slots, NEW p \in People, Members!HandleRemove(s, p)
       PROVE  Members!TypeOK'
  <2>1. [op |-> "remove", person |-> p, byEmail |-> FALSE, role |-> None, at |-> "sent"]
          \in Members!Call
    BY DEF Members!Call
  <2> QED
    BY <1>10, <2>1 DEF Members!HandleRemove
<1>11. ASSUME Members!Focus \/ Members!ListRead \/ Members!ListShown \/ Members!ListFails
       PROVE  Members!TypeOK'
  BY <1>0, <1>11 DEF Members!Focus, Members!ListRead, Members!ListShown, Members!ListFails
<1>12. ASSUME \/ Members!SetIsAddOpen \/ Members!Leave
              \/ \E t \in {"existing", "new"} : Members!SetActiveTab(t)
              \/ UNCHANGED Members!vars
       PROVE  Members!TypeOK'
  BY <1>0, <1>12
    DEF Members!SetIsAddOpen, Members!Leave, Members!SetActiveTab, Members!vars
<1>13. ASSUME \/ \E p \in People : Members!ChooseUser(p) \/ Members!FillNewUser(p)
              \/ \E r \in Roles : Members!ChooseRole(r)
       PROVE  Members!TypeOK'
  BY <1>13 DEF Members!ChooseUser, Members!FillNewUser, Members!ChooseRole
<1> QED
  BY <1>3, <1>4, <1>5, <1>6, <1>7, <1>8, <1>9, <1>10, <1>11, <1>12, <1>13 DEF Members!Next

\* Every step leaves the rows of the table among what was chosen, and the rows
\* that are shown with those of the table.
LEMMA MemberStep == MemberInv /\ [Members!Next]_Members!vars => MemberInv'
<1> SUFFICES ASSUME MemberInv, [Members!Next]_Members!vars
             PROVE  MemberInv'
  OBVIOUS
<1>0. Members!TypeOK /\ Members!TypeOK'
  BY MemberTyping DEF MemberInv
<1> USE DEF MemberInv, AddedWereChosen, Members!MembersWereChosen, ShownAreMembers,
            ReadAreMembers, Unheard, Members!gateway, Members!cache, Members!dialog
<1>1. ASSUME NEW s \in Slots, NEW a \in {"create", "insert", "done", "refused", "conflict"},
             changes[s] # None, Members!Goes(s, a), UNCHANGED chosen
      PROVE  /\ AddedWereChosen'
             /\ changes'[s] # None /\ changes'[s].at = a
             /\ \A r \in Slots : r # s => changes'[r] = changes[r]
  <2>1. /\ changes'[s] # None /\ changes'[s].at = a
        /\ changes'[s].op = changes[s].op /\ changes'[s].person = changes[s].person
        /\ changes'[s].role = changes[s].role
        /\ \A r \in Slots : r # s => changes'[r] = changes[r]
    BY <1>0, <1>1, ChangeMovesOn, Zenon DEF Members!Goes, Members!TypeOK
  <2> QED
    BY <1>1, <2>1
<1>2. ASSUME UNCHANGED table
      PROVE  Members!Members' = Members!Members
  BY <1>2 DEF Members!Members, Members!Active
<1>3. ASSUME NEW s \in Slots,
             Members!FindUser(s) \/ Members!CreateUser(s) \/ Members!StatementFails(s)
      PROVE  MemberInv'
  <2>1. /\ changes[s] # None /\ changes[s].at \in {"sent", "create", "insert"}
        /\ \E a \in {"insert", "create", "refused"} : Members!Goes(s, a)
        /\ UNCHANGED <<table, rows, fetch, unsure, chosen>>
    BY <1>3 DEF Members!FindUser, Members!CreateUser, Members!StatementFails,
                Members!At, Members!Free
  <2>2. AddedWereChosen' /\ (Unheard' <=> Unheard)
    BY <1>1, <2>1
  <2> QED
    BY <1>0, <1>2, <2>1, <2>2
<1>4. ASSUME NEW s \in Slots, Members!InsertMember(s)
      PROVE  MemberInv'
  <2>1. /\ changes[s] # None /\ changes[s].op = "add" /\ changes[s].at = "insert"
        /\ changes[s].person \in People
        /\ UNCHANGED <<rows, fetch, unsure, chosen>>
    BY <1>0, <1>4 DEF Members!InsertMember, Members!At, Members!TypeOK, Members!Call
  <2>2. CASE table[changes[s].person] = None
    <3>1. /\ Members!Goes(s, "done")
          /\ table' = [table EXCEPT ![changes[s].person] =
                         [role |-> changes[s].role, deleted |-> FALSE]]
      BY <1>4, <2>2 DEF Members!InsertMember
    <3>2. AddedWereChosen' /\ Unheard'
      BY <1>1, <2>1, <3>1
    <3>3. Members!MembersWereChosen'
      BY <1>0, <2>1, <3>1 DEF Members!TypeOK
    <3> QED
      BY <1>0, <3>2, <3>3
  <2>3. CASE table[changes[s].person] # None
    <3>1. Members!Goes(s, "conflict") /\ UNCHANGED table
      BY <1>4, <2>3 DEF Members!InsertMember
    <3>2. AddedWereChosen' /\ (Unheard' <=> Unheard)
      BY <1>1, <2>1, <3>1
    <3> QED
      BY <1>0, <1>2, <2>1, <3>1, <3>2
  <2> QED
    BY <2>2, <2>3
<1>5. ASSUME NEW s \in Slots, Members!Remove(s)
      PROVE  MemberInv'
  <2>1. /\ changes[s] # None /\ Members!Goes(s, "done")
        /\ UNCHANGED <<rows, fetch, unsure, chosen>>
    BY <1>5 DEF Members!Remove, Members!At
  <2>2. AddedWereChosen' /\ Unheard'
    BY <1>1, <2>1
  <2>3. \A p \in People : /\ table'[p] # None => table[p] # None
                          /\ table[p] # None => table'[p].role = table[p].role
    BY <1>0, <1>5 DEF Members!Remove, Members!Active, Members!TypeOK, Members!Row
  <2>4. Members!MembersWereChosen'
    BY <2>1, <2>3
  <2> QED
    BY <1>0, <2>2, <2>4
<1>6. ASSUME NEW s \in Slots, Members!Answered(s)
      PROVE  MemberInv'
  <2>1. /\ changes' = [changes EXCEPT ![s] = None] /\ UNCHANGED <<table, chosen>>
        /\ unsure' \/ fetch' = [read |-> None]
    BY <1>6 DEF Members!Answered, Members!Invalidate
  <2>2. AddedWereChosen'
    BY <1>0, <2>1 DEF Members!TypeOK
  <2>3. ShownAreMembers' /\ ReadAreMembers'
    BY <2>1, MemberNone DEF Members!Reads
  <2> QED
    BY <1>0, <2>1, <2>2, <2>3
<1>7. ASSUME NEW s \in Slots, Members!Refused(s) \/ Members!Lost(s)
      PROVE  MemberInv'
  BY <1>0, <1>2, <1>7 DEF Members!Refused, Members!Lost, Members!TypeOK
<1>8. ASSUME NEW s \in Slots, Members!HandleAddMember(s)
      PROVE  MemberInv'
  BY <1>0, <1>2, <1>8 DEF Members!HandleAddMember, Members!Free, Members!Payload, Members!TypeOK
<1>9. ASSUME NEW s \in Slots, NEW p \in People, Members!HandleRemove(s, p)
      PROVE  MemberInv'
  <2> DEFINE c == [op |-> "remove", person |-> p, byEmail |-> FALSE, role |-> None, at |-> "sent"]
  <2>1. /\ changes[s] = None /\ changes' = [changes EXCEPT ![s] = c]
        /\ UNCHANGED <<table, chosen, rows, fetch, unsure>>
    BY <1>9 DEF Members!HandleRemove, Members!Free
  <2>2. changes'[s] = c /\ \A r \in Slots : r # s => changes'[r] = changes[r]
    BY <1>0, <2>1 DEF Members!TypeOK
  <2>3. c.op = "remove" /\ c.at = "sent"
    OBVIOUS
  <2> HIDE DEF c
  <2>4. AddedWereChosen' /\ (Unheard' <=> Unheard)
    BY <2>1, <2>2, <2>3
  <2> QED
    BY <1>0, <1>2, <2>1, <2>4
<1>10. ASSUME Members!Focus \/ Members!ListRead \/ Members!ListShown \/ Members!ListFails
       PROVE  MemberInv'
  <2>1. UNCHANGED <<table, changes, chosen>>
    BY <1>10 DEF Members!Focus, Members!ListRead, Members!ListShown, Members!ListFails
  <2>2. AddedWereChosen' /\ Members!MembersWereChosen'
    BY <2>1
  <2>3. ShownAreMembers' /\ ReadAreMembers'
    <3>1. CASE Members!Focus
      BY <2>1, <3>1, MemberNone DEF Members!Focus, Members!Reads
    <3>2. CASE Members!ListRead
      <4>1. fetch' = [read |-> Members!Members]
        BY <3>2 DEF Members!ListRead
      <4>2. Members!Members \in SUBSET People
        BY DEF Members!Members
      <4>3. fetch' # None /\ fetch'.read = Members!Members
        BY <4>1, <4>2, MemberNone DEF Members!Reads
      <4> QED
        BY <1>2, <2>1, <4>3
    <3>3. CASE Members!ListShown
      BY <1>2, <2>1, <3>3 DEF Members!ListShown
    <3>4. CASE Members!ListFails
      BY <2>1, <3>4 DEF Members!ListFails
    <3> QED
      BY <1>10, <3>1, <3>2, <3>3, <3>4
  <2> QED
    BY <1>0, <2>2, <2>3
<1>11. ASSUME \/ Members!SetIsAddOpen \/ Members!Leave
              \/ \E t \in {"existing", "new"} : Members!SetActiveTab(t)
              \/ \E p \in People : Members!ChooseUser(p) \/ Members!FillNewUser(p)
              \/ \E r \in Roles : Members!ChooseRole(r)
              \/ UNCHANGED Members!vars
       PROVE  MemberInv'
  BY <1>0, <1>2, <1>11
    DEF Members!SetIsAddOpen, Members!Leave, Members!SetActiveTab, Members!ChooseUser,
        Members!FillNewUser, Members!ChooseRole, Members!vars
<1> QED
  BY <1>3, <1>4, <1>5, <1>6, <1>7, <1>8, <1>9, <1>10, <1>11 DEF Members!Next

(* Whoever is or was a member was chosen, and a quiet page shows the       *)
(* members there are, for any people, roles and calls.                     *)
THEOREM MembersAreAsChosen == MCSpec => []MembersAsChosen
<1>1. MCInit => MemberInv
  BY MemberInit DEF MCInit
<1>2. MemberInv /\ [MCNext]_<<moving, vars, tenantVars, memberVars, oidcVars>> => MemberInv'
  <2>1. [MCNext]_<<moving, vars, tenantVars, memberVars, oidcVars>> => [Members!Next]_Members!vars
    BY DEF MCNext, memberVars, Members!vars, Members!gateway, Members!cache, Members!dialog
  <2> QED
    BY <2>1, MemberStep
<1>3. MemberInv => MembersAsChosen
  BY DEF MemberInv, MembersAsChosen, ShownAreMembers, Unheard, Members!QuietRowsAreTrue, Members!Free
<1> QED
  BY <1>1, <1>2, <1>3, PTL DEF MCSpec

-----------------------------------------------------------------------------
(***************************************************************************)
(* Tenants.  A call that has inserted its row is the one that made the     *)
(* tenant, the row has its key from the next step on, and the maker is an  *)
(* admin when a call of the onboarding page is done.                       *)
(***************************************************************************)
Inserted == {"key", "rules", "member", "done"}
Keyed    == {"rules", "member", "done"}

Vouched(c) ==
  /\ c.at \in Inserted => tenants[c.name] # None /\ maker[c.name] = c.user
  /\ c.at \in Keyed => tenants[c.name].key # "none"
  /\ c.at = "done" /\ c.self => c.user \in tenants[c.name].admins

MakersCall == \A s \in Slots : calls[s] # None => Vouched(calls[s])

DeletedWereMade == \A n \in deleting : tenants[n] # None

CreationInv ==
  /\ Creation!TypeOK /\ MakersCall /\ DeletedWereMade
  /\ Creation!AnnouncedIsWhole /\ Creation!AdminsMadeTheirTenant

\* Calls and rows are told from their absence.
LEMMA CreationNone ==
  /\ None \notin Creation!Call /\ None \notin Creation!TenantRow
  /\ None \notin Users /\ None \notin Names /\ None \notin Slots
  /\ SuperAdmins \subseteq Users /\ CanFail \in BOOLEAN
BY CreationAssumption DEF Creation!TenantCreationAssumption

\* There are no tenants and no calls at first.
LEMMA CreationInit == Creation!Init => CreationInv
BY DEF Creation!Init, CreationInv, MakersCall, DeletedWereMade, Creation!AnnouncedIsWhole,
       Creation!AdminsMadeTheirTenant, Creation!TypeOK, Creation!Blank, Creation!Form,
       Creation!Exists

\* A call that moves on is the same call.
LEMMA CreationMovesOn ==
  ASSUME calls \in [Slots -> Creation!Call \cup {None}],
         NEW s \in Slots, calls[s] # None,
         NEW a \in {"tenant", "key", "rules", "member", "done", "failed"},
         calls' = [calls EXCEPT ![s].at = a]
  PROVE  /\ calls' \in [Slots -> Creation!Call \cup {None}]
         /\ calls[s] \in Creation!Call
         /\ calls'[s] # None /\ calls'[s].at = a
         /\ calls'[s].user = calls[s].user /\ calls'[s].name = calls[s].name
         /\ calls'[s].self = calls[s].self
         /\ \A r \in Slots : r # s => calls'[r] = calls[r]
<1>1. calls[s] \in Creation!Call
  OBVIOUS
<1>2. [calls[s] EXCEPT !.at = a] \in Creation!Call
  BY <1>1 DEF Creation!Call
<1>3. calls'[s] = [calls[s] EXCEPT !.at = a] /\ \A r \in Slots : r # s => calls'[r] = calls[r]
  OBVIOUS
<1>4. calls' \in [Slots -> Creation!Call \cup {None}]
  BY <1>2, <1>3
<1>5. calls'[s] # None
  BY <1>2, <1>3, CreationNone
<1>6. /\ calls'[s].user = calls[s].user /\ calls'[s].name = calls[s].name
      /\ calls'[s].self = calls[s].self /\ calls'[s].at = a
  BY <1>1, <1>3 DEF Creation!Call
<1> QED
  BY <1>1, <1>3, <1>4, <1>5, <1>6

\* A row that exists stays, with its key if it had one and with its admins, and
\* only its maker joins them.
RowsGrow ==
  \A n \in Names : tenants[n] # None =>
    /\ tenants'[n] # None
    /\ tenants[n].key # "none" => tenants'[n].key # "none"
    /\ tenants[n].admins \subseteq tenants'[n].admins
    /\ tenants'[n].admins \subseteq tenants[n].admins \cup {maker[n]}

\* So does a row that is written as the handlers write it.
LEMMA RowWritten ==
  ASSUME tenants \in [Names -> Creation!TenantRow \cup {None}],
         NEW n \in Names, tenants[n] # None,
         \/ tenants' = [tenants EXCEPT ![n].key = "live"]
         \/ tenants' = [tenants EXCEPT ![n].key = "deleted"]
         \/ \E b \in BOOLEAN : tenants' = [tenants EXCEPT ![n].rules = b]
         \/ maker[n] \in Users /\ tenants' = [tenants EXCEPT ![n].admins = @ \cup {maker[n]}]
         \/ tenants' = [tenants EXCEPT ![n].deleted = TRUE]
         \/ tenants' = tenants
  PROVE  /\ tenants' \in [Names -> Creation!TenantRow \cup {None}]
         /\ \A m \in Names : tenants'[m] = None <=> tenants[m] = None
         /\ RowsGrow
<1>1. tenants[n] \in Creation!TenantRow
  OBVIOUS
<1>2. ASSUME NEW r \in Creation!TenantRow, tenants' = [tenants EXCEPT ![n] = r],
             r.key # "none" \/ r.key = tenants[n].key,
             tenants[n].admins \subseteq r.admins,
             r.admins \subseteq tenants[n].admins \cup {maker[n]}
      PROVE  /\ tenants' \in [Names -> Creation!TenantRow \cup {None}]
             /\ \A m \in Names : tenants'[m] = None <=> tenants[m] = None
             /\ RowsGrow
  BY <1>2, CreationNone DEF RowsGrow
<1>3. ASSUME NEW k \in {"live", "deleted"}, tenants' = [tenants EXCEPT ![n].key = k]
      PROVE  tenants' = [tenants EXCEPT ![n] = [tenants[n] EXCEPT !.key = k]]
             /\ [tenants[n] EXCEPT !.key = k] \in Creation!TenantRow
             /\ [tenants[n] EXCEPT !.key = k].key = k
             /\ [tenants[n] EXCEPT !.key = k].admins = tenants[n].admins
  BY <1>1, <1>3 DEF Creation!TenantRow
<1>4. ASSUME NEW b \in BOOLEAN, tenants' = [tenants EXCEPT ![n].rules = b]
      PROVE  tenants' = [tenants EXCEPT ![n] = [tenants[n] EXCEPT !.rules = b]]
             /\ [tenants[n] EXCEPT !.rules = b] \in Creation!TenantRow
             /\ [tenants[n] EXCEPT !.rules = b].key = tenants[n].key
             /\ [tenants[n] EXCEPT !.rules = b].admins = tenants[n].admins
  BY <1>1, <1>4 DEF Creation!TenantRow
<1>5. ASSUME maker[n] \in Users, tenants' = [tenants EXCEPT ![n].admins = @ \cup {maker[n]}]
      PROVE  LET r == [tenants[n] EXCEPT !.admins = @ \cup {maker[n]}] IN
               /\ tenants' = [tenants EXCEPT ![n] = r]
               /\ r \in Creation!TenantRow /\ r.key = tenants[n].key
               /\ r.admins = tenants[n].admins \cup {maker[n]}
  BY <1>1, <1>5 DEF Creation!TenantRow
<1>6. ASSUME tenants' = [tenants EXCEPT ![n].deleted = TRUE]
      PROVE  LET r == [tenants[n] EXCEPT !.deleted = TRUE] IN
               /\ tenants' = [tenants EXCEPT ![n] = r]
               /\ r \in Creation!TenantRow /\ r.key = tenants[n].key
               /\ r.admins = tenants[n].admins
  BY <1>1, <1>6 DEF Creation!TenantRow
<1>7. CASE tenants' = [tenants EXCEPT ![n].key = "live"] \/ tenants' = [tenants EXCEPT ![n].key = "deleted"]
  BY <1>2, <1>3, <1>7
<1>8. CASE \E b \in BOOLEAN : tenants' = [tenants EXCEPT ![n].rules = b]
  BY <1>2, <1>4, <1>8
<1>9. CASE maker[n] \in Users /\ tenants' = [tenants EXCEPT ![n].admins = @ \cup {maker[n]}]
  BY <1>2, <1>5, <1>9
<1>10. CASE tenants' = [tenants EXCEPT ![n].deleted = TRUE]
  BY <1>2, <1>6, <1>10
<1>11. CASE tenants' = tenants
  BY <1>11 DEF RowsGrow
<1> QED
  BY <1>7, <1>8, <1>9, <1>10, <1>11

\* What holds of the rows, and of the calls that do not move, goes on to hold
\* while rows grow and nobody joins a new one.
LEMMA CreationGrows ==
  ASSUME CreationInv, RowsGrow, Creation!TypeOK', told' = told,
         \A n \in Names : tenants[n] # None => maker'[n] = maker[n],
         \A n \in Names : tenants[n] = None /\ tenants'[n] # None => tenants'[n].admins = {},
         \A n \in deleting' : n \in deleting \/ tenants[n] # None
  PROVE  /\ DeletedWereMade' /\ Creation!AnnouncedIsWhole' /\ Creation!AdminsMadeTheirTenant'
         /\ \A s \in Slots : calls[s] # None /\ calls'[s] = calls[s] => Vouched(calls[s])'
<1> USE DEF CreationInv, RowsGrow, Creation!TypeOK, Creation!Exists
<1>1. DeletedWereMade'
  BY DEF DeletedWereMade
<1>2. Creation!AnnouncedIsWhole'
  BY DEF Creation!AnnouncedIsWhole
<1>3. Creation!AdminsMadeTheirTenant'
  BY DEF Creation!AdminsMadeTheirTenant
<1>4. ASSUME NEW s \in Slots, calls[s] # None, calls'[s] = calls[s]
      PROVE  Vouched(calls[s])'
  <2>1. calls[s].name \in Names /\ Vouched(calls[s])
    BY <1>4 DEF MakersCall, Creation!Call
  <2> QED
    BY <1>4, <2>1 DEF Vouched, Inserted, Keyed
<1> QED
  BY <1>1, <1>2, <1>3, <1>4

\* The steps of a call that write no row.
LEMMA CreationMoves ==
  ASSUME CreationInv, NEW s \in Slots,
         Creation!FindRole(s) \/ Creation!StepFails(s)
  PROVE  CreationInv'
<1> USE DEF CreationInv, Creation!gateway, Creation!pages
<1>1. PICK a \in {"tenant", "failed"} :
         /\ calls' = [calls EXCEPT ![s].at = a] /\ calls[s] # None
         /\ UNCHANGED <<tenants, deleting, maker, form, list, stale, told>>
  BY DEF Creation!FindRole, Creation!StepFails, Creation!At, Creation!Free, Creation!Goes
<1>2. /\ calls' \in [Slots -> Creation!Call \cup {None}]
      /\ calls'[s].at = a /\ \A r \in Slots : r # s => calls'[r] = calls[r]
  BY <1>1, CreationMovesOn, Zenon DEF Creation!TypeOK
<1>3. Creation!TypeOK'
  BY <1>1, <1>2 DEF Creation!TypeOK
<1>4. /\ DeletedWereMade' /\ Creation!AnnouncedIsWhole' /\ Creation!AdminsMadeTheirTenant'
      /\ \A r \in Slots : calls[r] # None /\ calls'[r] = calls[r] => Vouched(calls[r])'
  <2>1. RowsGrow
    BY <1>1 DEF RowsGrow
  <2> QED
    BY <1>1, <1>3, <2>1, CreationGrows
<1>5. Vouched(calls[s])'
  BY <1>2 DEF Vouched, Inserted, Keyed
<1>6. MakersCall'
  BY <1>2, <1>4, <1>5 DEF MakersCall
<1> QED
  BY <1>3, <1>4, <1>6

\* The steps of a call that write the row it has inserted.
LEMMA CreationWrites ==
  ASSUME CreationInv, NEW s \in Slots,
         Creation!InsertKey(s) \/ Creation!SeedManagedRules(s) \/ Creation!InsertMember(s)
  PROVE  CreationInv'
<1> USE DEF CreationInv, Creation!gateway, Creation!pages
<1> DEFINE n == calls[s].name
<1>1. /\ calls[s] # None /\ calls[s].at \in {"key", "rules", "member"}
      /\ UNCHANGED <<deleting, maker, form, list, stale, told>>
  BY DEF Creation!InsertKey, Creation!SeedManagedRules, Creation!InsertMember,
         Creation!At, Creation!Free
<1>2. /\ n \in Names /\ calls[s].user \in Users /\ tenants[n] # None /\ maker[n] = calls[s].user
      /\ calls[s].at # "key" => tenants[n].key # "none"
      /\ tenants[n] \in Creation!TenantRow
  BY <1>1 DEF MakersCall, Vouched, Inserted, Keyed, Creation!TypeOK, Creation!Call
<1>3. PICK a \in {"rules", "member", "done"} :
         /\ calls' = [calls EXCEPT ![s].at = a]
         /\ a = "done" /\ calls[s].self => Creation!InsertMember(s)
  BY DEF Creation!InsertKey, Creation!SeedManagedRules, Creation!InsertMember, Creation!Goes
<1>4. /\ calls' \in [Slots -> Creation!Call \cup {None}]
      /\ calls'[s].at = a /\ calls'[s].name = n /\ calls'[s].user = calls[s].user
      /\ calls'[s].self = calls[s].self
      /\ \A r \in Slots : r # s => calls'[r] = calls[r]
  BY <1>1, <1>3, CreationMovesOn, Zenon DEF Creation!TypeOK
<1>5. \/ tenants' = [tenants EXCEPT ![n].key = "live"]
      \/ \E b \in BOOLEAN : tenants' = [tenants EXCEPT ![n].rules = b]
      \/ maker[n] \in Users /\ tenants' = [tenants EXCEPT ![n].admins = @ \cup {maker[n]}]
  BY <1>2, CreationNone
    DEF Creation!InsertKey, Creation!SeedManagedRules, Creation!InsertMember
<1>6. /\ tenants' \in [Names -> Creation!TenantRow \cup {None}]
      /\ \A m \in Names : tenants'[m] = None <=> tenants[m] = None
      /\ RowsGrow
  BY <1>2, <1>5, RowWritten DEF Creation!TypeOK
<1>7. Creation!TypeOK'
  BY <1>1, <1>4, <1>6 DEF Creation!TypeOK
<1>8. /\ DeletedWereMade' /\ Creation!AnnouncedIsWhole' /\ Creation!AdminsMadeTheirTenant'
      /\ \A r \in Slots : calls[r] # None /\ calls'[r] = calls[r] => Vouched(calls[r])'
  BY <1>1, <1>6, <1>7, CreationGrows
<1>9. tenants'[n].key # "none"
  <2>1. CASE calls[s].at = "key"
    BY <1>2, <2>1 DEF Creation!InsertKey, Creation!SeedManagedRules, Creation!InsertMember,
                      Creation!At, Creation!TypeOK, Creation!TenantRow
  <2>2. CASE calls[s].at # "key"
    BY <1>2, <1>6, <2>2 DEF RowsGrow
  <2> QED
    BY <2>1, <2>2
<1>10. Creation!InsertMember(s) => calls[s].user \in tenants'[n].admins
  BY <1>2 DEF Creation!InsertMember, Creation!TypeOK, Creation!TenantRow
<1>11. Vouched(calls[s])'
  BY <1>1, <1>2, <1>3, <1>4, <1>6, <1>9, <1>10 DEF Vouched
<1>12. MakersCall'
  BY <1>4, <1>8, <1>11 DEF MakersCall
<1> QED
  BY <1>7, <1>8, <1>12

\* The insert makes a row without admins where there was none.
LEMMA CreationInserts ==
  ASSUME CreationInv, NEW s \in Slots, Creation!InsertTenant(s)
  PROVE  CreationInv'
<1> USE DEF CreationInv, Creation!gateway, Creation!pages
<1> DEFINE n == calls[s].name
<1>1. /\ calls[s] # None /\ n \in Names /\ calls[s].user \in Users
      /\ UNCHANGED <<deleting, form, list, stale, told>>
  BY DEF Creation!InsertTenant, Creation!At, Creation!Free, Creation!TypeOK, Creation!Call
<1>2. PICK a \in {"key", "failed"} :
         /\ calls' = [calls EXCEPT ![s].at = a]
         /\ a = "failed" => UNCHANGED <<tenants, maker>>
         /\ a = "key" => /\ tenants[n] = None /\ tenants' = [tenants EXCEPT ![n] = Creation!Fresh]
                         /\ maker' = [maker EXCEPT ![n] = calls[s].user]
  BY DEF Creation!InsertTenant, Creation!Goes, Creation!Exists
<1>3. /\ calls' \in [Slots -> Creation!Call \cup {None}]
      /\ calls'[s].at = a /\ calls'[s].name = n /\ calls'[s].user = calls[s].user
      /\ \A r \in Slots : r # s => calls'[r] = calls[r]
  BY <1>1, <1>2, CreationMovesOn, Zenon DEF Creation!TypeOK
<1>4. Creation!Fresh \in Creation!TenantRow /\ Creation!Fresh # None /\ Creation!Fresh.admins = {}
  <2>1. Creation!Fresh \in Creation!TenantRow /\ Creation!Fresh.admins = {}
    BY DEF Creation!Fresh, Creation!TenantRow
  <2> QED
    BY <2>1, CreationNone
<1> DEFINE fresh == Creation!Fresh
<1>5. /\ Creation!TypeOK'
      /\ \A m \in Names : tenants[m] # None => tenants'[m] = tenants[m] /\ maker'[m] = maker[m]
      /\ \A m \in Names : tenants[m] = None /\ tenants'[m] # None => tenants'[m].admins = {}
      /\ a = "key" => tenants'[n] # None /\ maker'[n] = calls[s].user
  <2>1. CASE a = "key"
    BY <1>1, <1>2, <1>3, <1>4, <2>1 DEF Creation!TypeOK
  <2>2. CASE a = "failed"
    BY <1>1, <1>2, <1>3, <2>2 DEF Creation!TypeOK
  <2> QED
    BY <2>1, <2>2
<1>6. RowsGrow
  BY <1>5 DEF RowsGrow
<1>7. /\ DeletedWereMade' /\ Creation!AnnouncedIsWhole' /\ Creation!AdminsMadeTheirTenant'
      /\ \A r \in Slots : calls[r] # None /\ calls'[r] = calls[r] => Vouched(calls[r])'
  BY <1>1, <1>5, <1>6, CreationGrows
<1>8. Vouched(calls[s])'
  BY <1>3, <1>5 DEF Vouched, Inserted, Keyed
<1>9. MakersCall'
  BY <1>3, <1>7, <1>8 DEF MakersCall
<1> QED
  BY <1>5, <1>7, <1>9

\* A deletion keeps the row and that it had a key.
LEMMA CreationDeletes ==
  ASSUME CreationInv, NEW n \in Names,
         (\E u \in Users : Creation!DeleteKeys(u, n)) \/ Creation!DeleteRow(n)
  PROVE  CreationInv'
<1> USE DEF CreationInv, Creation!gateway, Creation!pages
<1>1. /\ tenants[n] # None /\ UNCHANGED <<calls, maker, form, list, stale, told>>
      /\ deleting' \subseteq deleting \cup {n}
      /\ \/ tenants' = [tenants EXCEPT ![n].key = "deleted"]
         \/ tenants' = [tenants EXCEPT ![n].deleted = TRUE]
         \/ tenants' = tenants
  BY DEF Creation!DeleteKeys, Creation!DeleteRow, Creation!Live, Creation!Exists, DeletedWereMade
<1>2. /\ tenants' \in [Names -> Creation!TenantRow \cup {None}]
      /\ \A m \in Names : tenants'[m] = None <=> tenants[m] = None
      /\ RowsGrow
  BY <1>1, RowWritten DEF Creation!TypeOK
<1>3. Creation!TypeOK'
  BY <1>1, <1>2 DEF Creation!TypeOK
<1>4. /\ DeletedWereMade' /\ Creation!AnnouncedIsWhole' /\ Creation!AdminsMadeTheirTenant'
      /\ \A r \in Slots : calls[r] # None /\ calls'[r] = calls[r] => Vouched(calls[r])'
  BY <1>1, <1>2, <1>3, CreationGrows
<1>5. MakersCall'
  BY <1>1, <1>4 DEF MakersCall
<1> QED
  BY <1>3, <1>4, <1>5

\* What a page is told of a call that is done holds of its row.
LEMMA CreationEnds ==
  ASSUME CreationInv, NEW s \in Slots, Creation!Announced(s) \/ Creation!Refused(s)
  PROVE  CreationInv'
<1> USE DEF CreationInv, Creation!gateway, Creation!pages
<1> DEFINE c == calls[s]
<1>1. /\ c \in Creation!Call /\ c.user \in Users /\ c.name \in Names /\ c.self \in BOOLEAN
      /\ form[c.user] \in Creation!Form
      /\ calls' = [calls EXCEPT ![s] = None] /\ UNCHANGED <<tenants, deleting, maker, list>>
  BY DEF Creation!Announced, Creation!Refused, Creation!At, Creation!Free, Creation!TypeOK,
         Creation!Call
<1>2. Creation!Blank \in Creation!Form
  BY DEF Creation!Blank, Creation!Form
<1>3. form' \in [Users -> Creation!Form]
  <2>1. /\ [form[c.user] EXCEPT !.waits = None] \in Creation!Form
        /\ [form[c.user] EXCEPT !.waits = None, !.error = c.self] \in Creation!Form
    BY <1>1 DEF Creation!Form
  <2>2. PICK f \in Creation!Form : form' = [form EXCEPT ![c.user] = f]
    BY <1>1, <1>2, <2>1 DEF Creation!Announced, Creation!Refused, Creation!SetForm
  <2> QED
    BY <2>2 DEF Creation!TypeOK
<1>4. Creation!TypeOK'
  <2>1. /\ [user |-> c.user, name |-> c.name, self |-> c.self]
             \in [user : Users, name : Names, self : BOOLEAN]
        /\ calls' \in [Slots -> Creation!Call \cup {None}]
        /\ stale' \in [Users -> BOOLEAN]
    BY <1>1 DEF Creation!TypeOK, Creation!Announced, Creation!Refused
  <2>2. told' \subseteq [user : Users, name : Names, self : BOOLEAN]
    BY <2>1 DEF Creation!TypeOK, Creation!Announced, Creation!Refused
  <2> QED
    BY <1>1, <1>3, <2>1, <2>2 DEF Creation!TypeOK
<1>5. MakersCall' /\ DeletedWereMade' /\ Creation!AdminsMadeTheirTenant'
  BY <1>1 DEF MakersCall, Vouched, DeletedWereMade, Creation!AdminsMadeTheirTenant,
              Creation!Exists, Creation!TypeOK
<1>6. Creation!AnnouncedIsWhole'
  <2>1. CASE Creation!Announced(s)
    <3>1. c.at = "done" /\ told' = told \cup {[user |-> c.user, name |-> c.name, self |-> c.self]}
      BY <2>1 DEF Creation!Announced, Creation!At
    <3>2. Vouched(c) /\ c # None
      BY <2>1 DEF MakersCall, Creation!Announced, Creation!At, Creation!Free
    <3> QED
      BY <1>1, <3>1, <3>2 DEF Vouched, Inserted, Keyed, Creation!AnnouncedIsWhole, Creation!Exists
  <2>2. CASE Creation!Refused(s)
    BY <1>1, <2>2 DEF Creation!Refused, Creation!AnnouncedIsWhole, Creation!Exists
  <2> QED
    BY <2>1, <2>2
<1> QED
  BY <1>4, <1>5, <1>6

\* A page starts a call before anything is inserted, and writes nothing itself.
LEMMA CreationPages ==
  ASSUME CreationInv, NEW u \in Users,
         \/ Creation!SetShowCreate(u) \/ Creation!ShowList(u) \/ Creation!Reload(u)
         \/ \E n \in Names : Creation!SetName(u, n)
         \/ \E s \in Slots : Creation!HandleSubmit(u, s) \/ Creation!HandleCreate(u, s)
  PROVE  CreationInv'
<1> USE DEF CreationInv, Creation!gateway, Creation!pages
<1>1. UNCHANGED <<tenants, deleting, maker, told>>
  BY DEF Creation!SetShowCreate, Creation!ShowList, Creation!Reload, Creation!SetName,
         Creation!HandleSubmit, Creation!HandleCreate
<1>2. /\ Creation!Blank \in Creation!Form /\ form[u] \in Creation!Form
      /\ [form[u] EXCEPT !.open = ~@] \in Creation!Form
      /\ \A n \in Names : [form[u] EXCEPT !.name = n] \in Creation!Form
      /\ \A s \in Slots : [form[u] EXCEPT !.waits = s, !.error = FALSE] \in Creation!Form
  BY DEF Creation!Blank, Creation!Form, Creation!TypeOK
<1>3. PICK f \in Creation!Form : form' = [form EXCEPT ![u] = f]
  BY <1>2 DEF Creation!SetShowCreate, Creation!ShowList, Creation!Reload, Creation!SetName,
              Creation!HandleSubmit, Creation!HandleCreate, Creation!Send, Creation!SetForm
<1>4. list' \in [Users -> SUBSET Names] /\ stale' \in [Users -> BOOLEAN]
  BY DEF Creation!SetShowCreate, Creation!ShowList, Creation!Reload, Creation!SetName,
         Creation!HandleSubmit, Creation!HandleCreate, Creation!Listed, Creation!TypeOK
<1>5. \/ calls' = calls
      \/ \E s \in Slots, c \in Creation!Call :
            c.at \in {"role", "tenant"} /\ calls' = [calls EXCEPT ![s] = c]
  <2>1. ASSUME NEW s \in Slots, Creation!HandleSubmit(u, s) \/ Creation!HandleCreate(u, s)
        PROVE  \E c \in Creation!Call :
                  c.at \in {"role", "tenant"} /\ calls' = [calls EXCEPT ![s] = c]
    <3>1. form[u].name \in Names
      BY <1>2, <2>1 DEF Creation!HandleSubmit, Creation!HandleCreate, Creation!Send, Creation!Form
    <3>2. PICK self \in BOOLEAN : Creation!Send(u, s, self)
      BY <2>1 DEF Creation!HandleSubmit, Creation!HandleCreate
    <3> DEFINE c == [user |-> u, name |-> form[u].name, self |-> self,
                     at |-> IF self THEN "role" ELSE "tenant"]
    <3>3. c \in Creation!Call /\ c.at \in {"role", "tenant"}
      BY <3>1 DEF Creation!Call
    <3>4. calls' = [calls EXCEPT ![s] = c]
      BY <3>2 DEF Creation!Send
    <3> QED
      BY <3>3, <3>4
  <2> QED
    BY <2>1 DEF Creation!SetShowCreate, Creation!ShowList, Creation!Reload, Creation!SetName
<1>6. Creation!TypeOK'
  BY <1>1, <1>3, <1>4, <1>5 DEF Creation!TypeOK
<1>7. DeletedWereMade' /\ Creation!AdminsMadeTheirTenant' /\ Creation!AnnouncedIsWhole'
  BY <1>1 DEF DeletedWereMade, Creation!AdminsMadeTheirTenant, Creation!AnnouncedIsWhole,
              Creation!Exists
<1>8. MakersCall'
  BY <1>1, <1>5 DEF MakersCall, Vouched, Inserted, Keyed, Creation!TypeOK
<1> QED
  BY <1>6, <1>7, <1>8

\* Every step of the pages, their calls and the gateway keeps the invariant.
LEMMA CreationStep == CreationInv /\ [Creation!Next]_Creation!vars => CreationInv'
<1> SUFFICES ASSUME CreationInv, [Creation!Next]_Creation!vars
             PROVE  CreationInv'
  OBVIOUS
<1>1. CASE UNCHANGED Creation!vars
  BY <1>1 DEF Creation!vars, Creation!gateway, Creation!pages, CreationInv, MakersCall, Vouched,
              DeletedWereMade, Creation!AnnouncedIsWhole, Creation!AdminsMadeTheirTenant,
              Creation!TypeOK, Creation!Exists
<1>2. CASE Creation!Next
  BY <1>2, CreationMoves, CreationWrites, CreationInserts, CreationDeletes, CreationEnds,
     CreationPages DEF Creation!Next, Creation!Step
<1> QED
  BY <1>1, <1>2

(* A tenant whose creation was announced is whole, and only its maker is   *)
(* its admin, for any users, names and calls, whichever steps fail.        *)
THEOREM CreationsAreWhole == MCSpec => []TenantsHaveTheirAdmin
<1>1. MCInit => CreationInv
  BY CreationInit DEF MCInit
<1>2. CreationInv /\ [MCNext]_<<moving, vars, tenantVars, memberVars, oidcVars>> => CreationInv'
  <2>1. [MCNext]_<<moving, vars, tenantVars, memberVars, oidcVars>>
           => [Creation!Next]_Creation!vars
    BY DEF MCNext, tenantVars, Creation!vars, Creation!gateway, Creation!pages
  <2> QED
    BY <2>1, CreationStep
<1>3. CreationInv => TenantsHaveTheirAdmin
  BY DEF CreationInv, TenantsHaveTheirAdmin
<1> QED
  BY <1>1, <1>2, <1>3, PTL DEF MCSpec

-----------------------------------------------------------------------------
(***************************************************************************)
(* Logins.  An address is that of one user at most; an account is linked   *)
(* to, and has entered for, the user with its address only; and of the     *)
(* callbacks of a login one at most gets past the provider, before the     *)
(* login has a session.                                                    *)
(***************************************************************************)
Working == {"identity", "email", "create", "link"}

OneAddress ==
  \A u, v \in User : people[u] # None /\ people[u] = people[v] => u = v

LinkedByAddress ==
  \A a \in Account : identities[a] # None => people[identities[a]] = Email[a]

EnteredByAddress ==
  \A a \in Account : \A u \in entered[a] : people[u] = Email[a]

FoundByAddress ==
  \A c \in Callback : stage[c] = "link" =>
    user[c] # None /\ people[user[c]] = Email[login[state[c]]]

OnALogin ==
  \A c \in Callback : stage[c] # "idle" => state[c] # None /\ login[state[c]] # None

PastTheProvider(c) == stage[c] \in Working

RedeemedOnce ==
  /\ \A c \in Callback : PastTheProvider(c) =>
       /\ state[c] \in redeemed /\ sessions[state[c]] = 0
       /\ \A d \in Callback : PastTheProvider(d) /\ state[d] = state[c] => d = c
  /\ \A s \in State : s \notin redeemed => sessions[s] = 0

LoginInv ==
  /\ Login!TypeOK /\ OneAddress /\ LinkedByAddress /\ EnteredByAddress /\ FoundByAddress
  /\ OnALogin /\ RedeemedOnce /\ Login!OneSessionPerLogin

\* Values are told from their absence.
LEMMA LoginNone ==
  /\ None \notin User /\ None \notin Account /\ None \notin State
  /\ None \notin Login!Addresses /\ \A a \in Account : Email[a] \in Login!Addresses
BY LoginAssumption DEF Login!OidcAssumption, Login!Addresses

\* The library's count of a set is the same in every module.
LEMMA SameCount ==
  /\ \A S : Login!Cardinality(S) = Cardinality(S)
  /\ Login!IsFiniteSet(Callback)  => IsFiniteSet(Callback)
BY DEF Login!Cardinality, Cardinality, Login!IsFiniteSet, IsFiniteSet

\* There are finitely many callbacks.
LEMMA CallbacksAreCounted ==
  Login!Cardinality(Callback) \in Nat /\ Login!Cardinality(Callback) = Cardinality(Callback)
<1>1. IsFiniteSet(Callback)
  BY SameCount, LoginAssumption DEF Login!OidcAssumption
<1>2. Cardinality(Callback) \in Nat
  BY <1>1, FS_CardinalityType, Zenon
<1> QED
  BY <1>2, SameCount

\* There is room for the session of a callback.
LEMMA RoomForSession ==
  ASSUME NEW c \in Callback
  PROVE  0 .. 1 \subseteq 0 .. Login!Cardinality(Callback)
<1>1. IsFiniteSet(Callback)
  BY SameCount, LoginAssumption DEF Login!OidcAssumption
<1>2. Cardinality(Callback) # 0
  BY <1>1, FS_EmptySet, Zenon
<1> QED
  BY <1>2, CallbacksAreCounted

\* Nobody has logged in at first.
LEMMA LoginInit == Login!Init => LoginInv
<1>1. 0 \in 0 .. Login!Cardinality(Callback)
  BY CallbacksAreCounted
<1>2. MaxFailures \in Nat
  BY LoginAssumption DEF Login!OidcAssumption
<1>3. Login!Init => Login!TypeOK
  BY <1>1, <1>2 DEF Login!Init, Login!TypeOK, Login!Places
<1> QED
  BY <1>3 DEF Login!Init, LoginInv, OneAddress, LinkedByAddress, EnteredByAddress, FoundByAddress,
              OnALogin, RedeemedOnce, PastTheProvider, Working, Login!OneSessionPerLogin

\* A login begins under a state that no callback has.
LEMMA LoginBegins ==
  ASSUME LoginInv, NEW s \in State,
         Login!Expire(s) \/ \E a \in Account : Login!HandleLogin(s, a)
  PROVE  LoginInv'
<1> USE LoginNone DEF LoginInv, Login!TypeOK, Login!redisVars, Login!providerVars,
                      Login!tableVars, Login!historyVars
<1>1. CASE Login!Expire(s)
  BY <1>1 DEF Login!Expire, OneAddress, LinkedByAddress, EnteredByAddress, FoundByAddress,
              OnALogin, RedeemedOnce, PastTheProvider, Login!OneSessionPerLogin
<1>2. ASSUME NEW a \in Account, Login!HandleLogin(s, a)
      PROVE  LoginInv'
  <2>1. /\ login' = [login EXCEPT ![s] = a] /\ redeemed' = redeemed \ {s}
        /\ sessions' = [sessions EXCEPT ![s] = 0]
        /\ UNCHANGED <<stage, state, user, people, identities, failures, entered>>
        /\ \A c \in Callback : state[c] # s
    BY <1>2 DEF Login!HandleLogin
  <2>2. 0 \in 0 .. Login!Cardinality(Callback)
    BY CallbacksAreCounted
  <2>3. Login!TypeOK'
    BY <1>2, <2>1, <2>2 DEF Login!HandleLogin
  <2>4. OneAddress' /\ LinkedByAddress' /\ EnteredByAddress'
    BY <2>1 DEF OneAddress, LinkedByAddress, EnteredByAddress
  <2>5. FoundByAddress' /\ OnALogin'
    BY <2>1 DEF FoundByAddress, OnALogin
  <2>6. RedeemedOnce' /\ Login!OneSessionPerLogin'
    BY <2>1 DEF RedeemedOnce, PastTheProvider, Login!OneSessionPerLogin
  <2> QED
    BY <2>3, <2>4, <2>5, <2>6
<1> QED
  BY <1>1, <1>2

\* A callback that has not got to the provider's answer, or has no more to do.
LEMMA LoginCalls ==
  ASSUME LoginInv, NEW c \in Callback,
         \/ \E s \in State : Login!HandleCallback(c, s)
         \/ Login!TakeGet(c) \/ Login!TakeDel(c) \/ Login!DatabaseFails(c) \/ Login!Return(c)
  PROVE  LoginInv'
<1> USE LoginNone DEF LoginInv, Login!TypeOK, Login!redisVars, Login!providerVars,
                      Login!tableVars, Login!historyVars, Login!Goto
<1>1. /\ UNCHANGED <<login, redeemed, people, identities, entered, sessions>>
      /\ \E p \in {"get", "del", "exchange", "done", "idle"} : stage' = [stage EXCEPT ![c] = p]
      /\ \E s \in State \cup {None} : state' = [state EXCEPT ![c] = s]
      /\ stage'[c] # "idle" => state'[c] # None /\ login[state'[c]] # None
      /\ \E u \in User \cup {None} : user' = [user EXCEPT ![c] = u]
  BY DEF Login!HandleCallback, Login!TakeGet, Login!TakeDel, Login!DatabaseFails, Login!Return,
         OnALogin
<1>2. failures' \in 0 .. MaxFailures
  BY LoginAssumption DEF Login!OidcAssumption, Login!HandleCallback, Login!TakeGet,
     Login!TakeDel, Login!DatabaseFails, Login!Return
<1>3. store' \subseteq State /\ takers' \in [State -> SUBSET Callback]
  BY DEF Login!HandleCallback, Login!TakeGet, Login!TakeDel, Login!DatabaseFails, Login!Return
<1>4. Login!TypeOK'
  BY <1>1, <1>2, <1>3 DEF Login!Places
<1>5. OneAddress' /\ LinkedByAddress' /\ EnteredByAddress'
  BY <1>1 DEF OneAddress, LinkedByAddress, EnteredByAddress
<1>6. FoundByAddress' /\ OnALogin'
  BY <1>1 DEF FoundByAddress, OnALogin
<1>7. RedeemedOnce' /\ Login!OneSessionPerLogin'
  BY <1>1 DEF RedeemedOnce, PastTheProvider, Working, Login!OneSessionPerLogin
<1> QED
  BY <1>4, <1>5, <1>6, <1>7

\* The provider lets one callback of a login pass.
LEMMA LoginRedeems ==
  ASSUME LoginInv, NEW c \in Callback, Login!Exchange(c)
  PROVE  LoginInv'
<1> USE LoginNone DEF LoginInv, Login!TypeOK, Login!redisVars, Login!tableVars,
                      Login!historyVars, Login!Goto
<1>1. /\ stage[c] = "exchange" /\ state[c] \in State
      /\ redeemed' = redeemed \cup {state[c]}
      /\ stage' = [stage EXCEPT ![c] = IF state[c] \in redeemed THEN "done" ELSE "identity"]
      /\ UNCHANGED <<store, takers, login, state, user, people, identities, failures,
                     entered, sessions>>
  BY DEF Login!Exchange, Login!Redeemed, OnALogin
<1>2. Login!TypeOK'
  BY <1>1 DEF Login!Places
<1>3. OneAddress' /\ LinkedByAddress' /\ EnteredByAddress'
  BY <1>1 DEF OneAddress, LinkedByAddress, EnteredByAddress
<1>4. FoundByAddress' /\ OnALogin'
  BY <1>1 DEF FoundByAddress, OnALogin
<1>5. RedeemedOnce' /\ Login!OneSessionPerLogin'
  BY <1>1 DEF RedeemedOnce, PastTheProvider, Working, Login!OneSessionPerLogin
<1> QED
  BY <1>2, <1>3, <1>4, <1>5

\* A callback past the provider enters for the user with the address.
LEMMA LoginEnters ==
  ASSUME LoginInv, NEW c \in Callback, PastTheProvider(c), NEW u \in User,
         Login!Enter(c, u), people[u] = Email[login[state[c]]],
         UNCHANGED <<store, takers, login, redeemed, state, user, people, failures>>,
         identities' \in [Account -> User \cup {None}], LinkedByAddress'
  PROVE  LoginInv'
<1> USE LoginNone DEF LoginInv, Login!TypeOK
<1> DEFINE a == login[state[c]]
<1>1. /\ state[c] \in State /\ a \in Account /\ state[c] \in redeemed /\ sessions[state[c]] = 0
      /\ stage' = [stage EXCEPT ![c] = "done"]
      /\ entered' = [entered EXCEPT ![a] = @ \cup {u}]
      /\ sessions' = [sessions EXCEPT ![state[c]] = 1]
  <2>1. state[c] \in State /\ a \in Account /\ state[c] \in redeemed /\ sessions[state[c]] = 0
    BY DEF RedeemedOnce, OnALogin, PastTheProvider, Working
  <2>2. sessions[state[c]] + 1 = 1
    BY <2>1
  <2> QED
    BY <2>1, <2>2 DEF Login!Enter, Login!Goto, Login!AccountOf
<1>2. 1 \in 0 .. Login!Cardinality(Callback)
  BY RoomForSession
<1>3. Login!TypeOK'
  BY <1>1, <1>2 DEF Login!Places
<1>4. OneAddress' /\ EnteredByAddress'
  BY <1>1 DEF OneAddress, EnteredByAddress
<1>5. FoundByAddress' /\ OnALogin'
  BY <1>1 DEF FoundByAddress, OnALogin
<1>6. RedeemedOnce' /\ Login!OneSessionPerLogin'
  BY <1>1 DEF RedeemedOnce, PastTheProvider, Working, Login!OneSessionPerLogin
<1> QED
  BY <1>3, <1>4, <1>5, <1>6

\* A callback past the provider goes on, to "link" only with the user that has
\* the address, or gives up.
LEMMA LoginGoesOn ==
  ASSUME LoginInv, NEW c \in Callback, PastTheProvider(c),
         NEW p \in {"email", "create", "link", "done"}, Login!Goto(c, p),
         NEW v \in User \cup {None}, user' = [user EXCEPT ![c] = v],
         p = "link" => v # None /\ people'[v] = Email[login[state[c]]],
         UNCHANGED <<store, takers, login, redeemed, state, identities, failures,
                     entered, sessions>>,
         people' \in [User -> Login!Addresses \cup {None}], OneAddress',
         \A u \in User : people[u] # None => people'[u] = people[u]
  PROVE  LoginInv'
<1> USE LoginNone DEF LoginInv, Login!TypeOK, Login!Goto
<1>1. Login!TypeOK'
  BY DEF Login!Places
<1>2. \A a \in Account, u \in User : people[u] = Email[a] => people'[u] = Email[a]
  OBVIOUS
<1>3. LinkedByAddress' /\ EnteredByAddress'
  BY <1>2 DEF LinkedByAddress, EnteredByAddress
<1>4. OnALogin'
  BY DEF OnALogin, PastTheProvider, Working
<1>5. FoundByAddress'
  BY <1>2 DEF FoundByAddress, OnALogin
<1>6. RedeemedOnce' /\ Login!OneSessionPerLogin'
  BY DEF RedeemedOnce, PastTheProvider, Working, Login!OneSessionPerLogin
<1> QED
  BY <1>1, <1>3, <1>4, <1>5, <1>6

\* The four queries of provisionUser.
LEMMA LoginProvisions ==
  ASSUME LoginInv, NEW c \in Callback,
         \/ Login!LookupIdentity(c) \/ Login!LookupEmail(c)
         \/ Login!CreateUser(c) \/ Login!CreateIdentity(c)
  PROVE  LoginInv'
<1> USE LoginNone DEF LoginInv, Login!redisVars, Login!providerVars, Login!tableVars,
                      Login!historyVars, Login!AccountOf
<1> DEFINE a == login[state[c]]
<1>1. PastTheProvider(c) /\ state[c] \in State /\ a \in Account /\ Login!TypeOK
  BY DEF Login!LookupIdentity, Login!LookupEmail, Login!CreateUser, Login!CreateIdentity,
         PastTheProvider, Working, OnALogin, Login!TypeOK
<1>2. CASE Login!LookupIdentity(c)
  <2>1. CASE identities[a] # None
    <3>1. identities[a] \in User /\ people[identities[a]] = Email[a] /\ Login!Enter(c, identities[a])
      BY <1>1, <1>2, <2>1 DEF Login!LookupIdentity, Login!TypeOK, LinkedByAddress
    <3>2. /\ UNCHANGED <<store, takers, login, redeemed, state, user, people, failures, identities>>
          /\ identities' \in [Account -> User \cup {None}] /\ LinkedByAddress'
      BY <1>1, <1>2 DEF Login!LookupIdentity, Login!TypeOK, LinkedByAddress
    <3> QED
      BY <1>1, <3>1, <3>2, LoginEnters
  <2>2. CASE identities[a] = None
    BY <1>1, <1>2, <2>2, LoginGoesOn DEF Login!LookupIdentity, Login!TypeOK, OneAddress
  <2> QED
    BY <2>1, <2>2
<1>3. CASE Login!LookupEmail(c)
  BY <1>1, <1>3, LoginGoesOn DEF Login!LookupEmail, Login!WithAddress, Login!TypeOK, OneAddress
<1>4. CASE Login!CreateUser(c)
  BY <1>1, <1>4, LoginGoesOn DEF Login!CreateUser, Login!AddressIsFree, Login!WithAddress,
     Login!FreeIds, Login!TypeOK, OneAddress
<1>5. CASE Login!CreateIdentity(c)
  <2>1. CASE identities[a] = None
    BY <1>1, <1>5, <2>1, LoginEnters DEF Login!CreateIdentity, Login!TypeOK, FoundByAddress, LinkedByAddress
  <2>2. CASE identities[a] # None
    BY <1>1, <1>5, <2>2, LoginGoesOn DEF Login!CreateIdentity, Login!TypeOK, OneAddress
  <2> QED
    BY <2>1, <2>2
<1> QED
  BY <1>2, <1>3, <1>4, <1>5

\* Every step of browsers, callbacks, provider and database keeps the invariant.
LEMMA LoginStep == LoginInv /\ [Login!Next]_Login!vars => LoginInv'
<1> SUFFICES ASSUME LoginInv, [Login!Next]_Login!vars
             PROVE  LoginInv'
  OBVIOUS
<1>1. CASE UNCHANGED Login!vars
  BY <1>1 DEF Login!vars, Login!redisVars, Login!providerVars, Login!tableVars,
              Login!historyVars, LoginInv, Login!TypeOK, OneAddress, LinkedByAddress,
              EnteredByAddress, FoundByAddress, OnALogin, RedeemedOnce, PastTheProvider,
              Login!OneSessionPerLogin
<1>2. CASE Login!Next
  BY <1>2, LoginBegins, LoginCalls, LoginRedeems, LoginProvisions DEF Login!Next, Login!Run
<1> QED
  BY <1>1, <1>2

\* Users with the same address are one.
LEMMA OneUser == LoginInv => OneUserPerPerson
<1> SUFFICES ASSUME LoginInv PROVE OneUserPerPerson
  OBVIOUS
<1>1. ASSUME NEW a \in Account, NEW b \in Account, Email[a] = Email[b]
      PROVE  Login!Cardinality(entered[a] \cup entered[b]) <= 1
  <2> DEFINE E == entered[a] \cup entered[b]
  <2>1. \A u, v \in E : u = v
    BY <1>1, LoginNone DEF LoginInv, EnteredByAddress, OneAddress, Login!TypeOK
  <2>2. E = {} \/ \E u \in E : E = {u}
    BY <2>1
  <2> HIDE DEF E
  <2>3. CASE E = {}
    BY <2>3, FS_EmptySet, SameCount DEF E
  <2>4. CASE \E u \in E : E = {u}
    <3>1. PICK u : E = {u}
      BY <2>4
    <3>2. Cardinality({u}) = 1
      BY FS_Singleton, Zenon
    <3> QED
      BY <3>1, <3>2, SameCount DEF E
  <2> QED
    BY <2>2, <2>3, <2>4 DEF E
<1> QED
  BY <1>1 DEF OneUserPerPerson, Login!OneUserPerPerson, LoginInv

(* A person is one user, and a login one session at most, for any          *)
(* accounts, addresses, browsers and callbacks, wherever they fail.        *)
THEOREM PersonsAreUsers == MCSpec => []OneUserPerPerson
<1>1. MCInit => LoginInv
  BY LoginInit DEF MCInit
<1>2. LoginInv /\ [MCNext]_<<moving, vars, tenantVars, memberVars, oidcVars>> => LoginInv'
  <2>1. [MCNext]_<<moving, vars, tenantVars, memberVars, oidcVars>> => [Login!Next]_Login!vars
    BY DEF MCNext, oidcVars, Login!vars, Login!redisVars, Login!providerVars, Login!tableVars,
           Login!historyVars
  <2> QED
    BY <2>1, LoginStep
<1> QED
  BY <1>1, <1>2, OneUser, PTL DEF MCSpec
=============================================================================
