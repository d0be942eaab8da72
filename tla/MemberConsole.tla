---------------------------- MODULE MemberConsole ----------------------------
(***************************************************************************)
(* The Members page of one tenant and the handlers behind it.  The dialog  *)
(* adds an existing user, or invites a new one by email, and its button    *)
(* stays enabled while a call is under way.  Adding is up to three         *)
(* statements without a transaction; removing only marks the row, which    *)
(* the unique index on user and tenant still counts.                       *)
(***************************************************************************)
EXTENDS Naturals, FiniteSets

CONSTANTS People, Roles,
          Registered,  \* the people who have a user at the start
          Slots,       \* bound: calls under way at a time
          None

Row  == [role : Roles, deleted : BOOLEAN]
Call == [op : {"add", "remove"}, person : People, byEmail : BOOLEAN, role : Roles \cup {None},
         at : {"sent", "create", "insert", "done", "refused", "conflict"}]
Reads == [read : (SUBSET People) \cup {None}]

MemberConsoleAssumption ==
  /\ Registered \subseteq People
  /\ None \notin People \cup Roles \cup Slots
  /\ None \notin Row \cup Call \cup Reads

VARIABLES
  users,     \* people with a user, whose email is unique
  table,     \* the membership rows, None if there is none
  calls,     \* the calls under way
  rows,      \* the members shown, None before the first answer
  fetch,     \* the fetch of the members: none, asked, or what it has read
  open, tab, draft,
  latest,    \* the call whose success closes the dialog
  chosen,    \* history: what stood in the open tab when the button was clicked
  unsure     \* history: an answer that could not bring the rows up to date

gateway == <<users, table>>
cache   == <<rows, fetch, unsure>>
dialog  == <<open, tab, draft>>
vars == <<gateway, calls, cache, dialog, latest, chosen>>

NoDraft == [user |-> None, invited |-> None, role |-> None]

TypeOK ==
  /\ users \subseteq People /\ table \in [People -> Row \cup {None}]
  /\ calls \in [Slots -> Call \cup {None}]
  /\ rows \in (SUBSET People) \cup {None} /\ fetch \in Reads \cup {None}
  /\ open \in BOOLEAN /\ tab \in {"existing", "new"}
  /\ draft \in [user : People \cup {None}, invited : People \cup {None}, role : Roles \cup {None}]
  /\ latest \in Slots \cup {None}
  /\ chosen \subseteq People \X Roles /\ unsure \in BOOLEAN

----------------------------------------------------------------------------
Active(p) == table[p] # None /\ ~table[p].deleted
Members   == {p \in People : Active(p)}

\* Those of some earlier fetch, and users never go.
OfferedUsers == users

\* The roles are seeded and no handler writes them.
OfferedRoles == Roles

\* The list of a user's tenants joins the rows without looking at the mark.
ListsTenantFor(p) == table[p] # None

PayloadByDraft ==                          \* mutant: a chosen user wins over the open tab
  IF draft.user # None THEN [person |-> draft.user, byEmail |-> FALSE]
                       ELSE [person |-> draft.invited, byEmail |-> TRUE]
Payload ==
  IF tab = "existing" THEN [person |-> draft.user, byEmail |-> FALSE]
                      ELSE [person |-> draft.invited, byEmail |-> TRUE]

SubmitEnabled ==
  /\ draft.role # None
  /\ tab = "existing" => draft.user # None
  /\ tab = "new" => draft.invited # None

\* A fetch is repeated only if something has been shown before.
Invalidate ==
  /\ UNCHANGED rows
  /\ IF rows = None /\ fetch # None
     THEN fetch' = fetch /\ unsure' = TRUE
     ELSE fetch' = [read |-> None] /\ unsure' = FALSE

At(s, op, at) == calls[s] # None /\ calls[s].op = op /\ calls[s].at = at
Goes(s, at)   == calls' = [calls EXCEPT ![s].at = at]
Free(s)       == calls[s] = None

----------------------------------------------------------------------------
\* handleAddMember: find the user, create it if need be, insert the row.
FindUser(s) ==
  /\ At(s, "add", "sent")
  /\ Goes(s, IF calls[s].person \in users THEN "insert"
             ELSE IF calls[s].byEmail THEN "create" ELSE "refused")
  /\ UNCHANGED <<gateway, cache, dialog, latest, chosen>>

CreateUser(s) ==
  /\ At(s, "add", "create")
  /\ Goes(s, IF calls[s].person \in users THEN "refused" ELSE "insert")
  /\ users' = users \cup {calls[s].person}
  /\ UNCHANGED <<table, cache, dialog, latest, chosen>>

InsertMember(s) ==
  LET p == calls[s].person
  IN  /\ At(s, "add", "insert")
      /\ IF table[p] = None
         THEN /\ table' = [table EXCEPT ![p] = [role |-> calls[s].role, deleted |-> FALSE]]
              /\ Goes(s, "done")
         ELSE Goes(s, "conflict") /\ UNCHANGED table
      /\ UNCHANGED <<users, cache, dialog, latest, chosen>>

Remove(s) ==
  LET p == calls[s].person
  IN  /\ At(s, "remove", "sent")
      /\ table' = IF Active(p) THEN [table EXCEPT ![p].deleted = TRUE] ELSE table
      /\ Goes(s, "done")
      /\ UNCHANGED <<users, cache, dialog, latest, chosen>>

StatementFails(s) ==
  /\ ~Free(s) /\ calls[s].at \in {"sent", "create", "insert"}
  /\ Goes(s, "refused")
  /\ UNCHANGED <<gateway, cache, dialog, latest, chosen>>

----------------------------------------------------------------------------
\* The hooks invalidate on success; the dialog hears of its latest call only,
\* and then forgets both tabs, whatever was typed since.
Answered(s) ==
  /\ ~Free(s) /\ calls[s].at = "done"
  /\ calls' = [calls EXCEPT ![s] = None]
  /\ Invalidate
  /\ IF s = latest
     THEN draft' = NoDraft /\ open' = FALSE /\ latest' = None
     ELSE UNCHANGED <<draft, open, latest>>
  /\ UNCHANGED <<gateway, tab, chosen>>

\* A refusal shows nothing: neither hook has an error handler.
Refused(s) ==
  /\ ~Free(s) /\ calls[s].at \in {"refused", "conflict"}
  /\ calls' = [calls EXCEPT ![s] = None]
  /\ latest' = IF s = latest THEN None ELSE latest
  /\ UNCHANGED <<gateway, cache, dialog, chosen>>

\* An answer is only lost once the handler has ended.
Lost(s) ==
  /\ ~Free(s) /\ calls[s].at = "done"
  /\ calls' = [calls EXCEPT ![s] = None]
  /\ latest' = IF s = latest THEN None ELSE latest
  /\ unsure' = TRUE
  /\ UNCHANGED <<gateway, rows, fetch, dialog, chosen>>

\* The fetch starts when the page is shown or its window gets the focus.
Focus ==
  /\ fetch = None
  /\ fetch' = [read |-> None] /\ unsure' = FALSE
  /\ UNCHANGED <<gateway, calls, rows, dialog, latest, chosen>>

ListRead ==
  /\ fetch = [read |-> None]
  /\ fetch' = [read |-> Members]
  /\ UNCHANGED <<gateway, calls, rows, unsure, dialog, latest, chosen>>

ListShown ==
  /\ fetch # None /\ fetch.read # None
  /\ rows' = fetch.read /\ fetch' = None
  /\ UNCHANGED <<gateway, calls, unsure, dialog, latest, chosen>>

ListFails ==
  /\ fetch # None
  /\ fetch' = None /\ unsure' = TRUE
  /\ UNCHANGED <<gateway, calls, rows, dialog, latest, chosen>>

----------------------------------------------------------------------------
\* Dismissing the dialog keeps what was typed.
SetIsAddOpen ==
  /\ open' = ~open
  /\ UNCHANGED <<gateway, calls, cache, tab, draft, latest, chosen>>

SetActiveTab(t) ==
  /\ open /\ tab' = t
  /\ UNCHANGED <<gateway, calls, cache, open, draft, latest, chosen>>

ChooseUser(p) ==
  /\ open /\ tab = "existing" /\ p \in OfferedUsers
  /\ draft' = [draft EXCEPT !.user = p]
  /\ UNCHANGED <<gateway, calls, cache, open, tab, latest, chosen>>

\* The whole tab: the name, the email, and a password typed or made up, which
\* is left out.
FillNewUser(p) ==
  /\ open /\ tab = "new"
  /\ draft' = [draft EXCEPT !.invited = p]
  /\ UNCHANGED <<gateway, calls, cache, open, tab, latest, chosen>>

ChooseRole(r) ==
  /\ open /\ r \in OfferedRoles
  /\ draft' = [draft EXCEPT !.role = r]
  /\ UNCHANGED <<gateway, calls, cache, open, tab, latest, chosen>>

HandleAddMember(s) ==
  /\ open /\ SubmitEnabled /\ Free(s)
  /\ calls' = [calls EXCEPT ![s] =
       [op |-> "add", person |-> Payload.person, byEmail |-> Payload.byEmail,
        role |-> draft.role, at |-> "sent"]]
  /\ latest' = s
  /\ chosen' = chosen \cup
       {<<IF tab = "existing" THEN draft.user ELSE draft.invited, draft.role>>}
  /\ UNCHANGED <<gateway, cache, dialog>>

HandleRemove(s, p) ==
  /\ ~open /\ rows # None /\ p \in rows /\ Free(s)
  /\ calls' = [calls EXCEPT ![s] =
       [op |-> "remove", person |-> p, byEmail |-> FALSE, role |-> None, at |-> "sent"]]
  /\ UNCHANGED <<gateway, cache, dialog, latest, chosen>>

\* Leaving the page forgets the dialog and the call it waits for.
Leave ==
  /\ ~open
  /\ tab' = "existing" /\ draft' = NoDraft /\ latest' = None
  /\ UNCHANGED <<gateway, calls, cache, open, chosen>>

----------------------------------------------------------------------------
Init ==
  /\ users = Registered
  /\ \E f \in [Registered -> Roles \cup {None}] :
       /\ table = [p \in People |-> IF p \in Registered /\ f[p] # None
                                    THEN [role |-> f[p], deleted |-> FALSE] ELSE None]
       /\ chosen = {<<p, f[p]>> : p \in {q \in Registered : f[q] # None}}
  /\ calls = [s \in Slots |-> None]
  /\ rows = None /\ fetch = [read |-> None] /\ unsure = FALSE
  /\ open = FALSE /\ tab = "existing" /\ draft = NoDraft /\ latest = None

Next ==
  \/ \E s \in Slots : \/ FindUser(s) \/ CreateUser(s) \/ InsertMember(s) \/ Remove(s)
                      \/ StatementFails(s) \/ Answered(s) \/ Refused(s) \/ Lost(s)
                      \/ HandleAddMember(s)
                      \/ \E p \in People : HandleRemove(s, p)
  \/ Focus \/ ListRead \/ ListShown \/ ListFails
  \/ SetIsAddOpen \/ Leave
  \/ \E t \in {"existing", "new"} : SetActiveTab(t)
  \/ \E p \in People : ChooseUser(p) \/ FillNewUser(p)
  \/ \E r \in Roles : ChooseRole(r)

Spec == Init /\ [][Next]_vars

----------------------------------------------------------------------------
\* Whoever is or was a member was chosen in the tab that was open, with that
\* role, although drafts of both tabs survive and the handler looks a typed
\* email up among the users (Members.tsx:45-68, server.go:1186-1228).
MembersWereChosen == \A p \in People : table[p] # None => <<p, table[p].role>> \in chosen

\* A page without calls or fetches under way, whose last answers all came,
\* shows the members the gateway has, whatever the order of its calls.
QuietRowsAreTrue ==
  (/\ \A s \in Slots : Free(s)
   /\ fetch = None /\ rows # None /\ ~unsure) => rows = Members

\* "Select an existing user or invite a new one" (Members.tsx:94): only a
\* member is refused as one.
RefusedIsMember ==
  \A s \in Slots : (~Free(s) /\ calls[s].at = "conflict") => Active(calls[s].person)

\* "Join with TenantMembers to only show tenants the user belongs to"
\* (server.go:360).
ListsOwnTenants == \A p \in People : ListsTenantFor(p) => Active(p)
=============================================================================
