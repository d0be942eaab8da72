--------------------------- MODULE TenantCreation ---------------------------
(***************************************************************************)
(* How a tenant comes into being: the onboarding page of a user who has    *)
(* none, the create dialog of the Tenants page for super-admins, and the   *)
(* handlers behind both, which write the tenant, its default key, its      *)
(* managed rules and its first member one after the other, without a       *)
(* transaction.  Super-admins delete tenants meanwhile; a deleted row      *)
(* keeps its name.                                                         *)
(***************************************************************************)
EXTENDS Naturals, FiniteSets

CONSTANTS Users,
          SuperAdmins,
          Names,        \* what may be typed, already trimmed
          Slots,        \* bound: calls under way at a time
          CanFail,      \* steps and answers may fail
          CanDelete,    \* tenants may be deleted
          None

TenantRow == [key : {"none", "live", "deleted"}, rules : BOOLEAN,
              admins : SUBSET Users, deleted : BOOLEAN]
Fresh  == [key |-> "none", rules |-> FALSE, admins |-> {}, deleted |-> FALSE]
Call   == [user : Users, name : Names, self : BOOLEAN,
           at : {"role", "tenant", "key", "rules", "member", "done", "failed"}]
Form   == [name : Names \cup {None}, open : BOOLEAN, error : BOOLEAN, waits : Slots \cup {None}]

TenantCreationAssumption ==
  /\ SuperAdmins \subseteq Users
  /\ None \notin Names \cup Slots \cup Users \cup TenantRow \cup Call
  /\ CanFail \in BOOLEAN /\ CanDelete \in BOOLEAN

VARIABLES
  tenants,   \* the rows by name, which is unique
  deleting,  \* tenants whose keys are gone and whose row is next
  calls,     \* the calls under way
  form,      \* form[u]: what the user's page holds
  list,      \* list[u]: the tenants the user's page knows
  stale,     \* stale[u]: the list has been invalidated
  maker,     \* history: whose call inserted the row
  told       \* history: creations that were announced to their page

gateway == <<tenants, deleting, maker>>
pages   == <<form, list, stale, told>>
vars == <<gateway, calls, pages>>

Blank  == [name |-> None, open |-> FALSE, error |-> FALSE, waits |-> None]

TypeOK ==
  /\ tenants \in [Names -> TenantRow \cup {None}] /\ deleting \subseteq Names
  /\ calls \in [Slots -> Call \cup {None}]
  /\ form \in [Users -> Form]
  /\ list \in [Users -> SUBSET Names] /\ stale \in [Users -> BOOLEAN]
  /\ maker \in [Names -> Users \cup {None}]
  /\ told \subseteq [user : Users, name : Names, self : BOOLEAN]

----------------------------------------------------------------------------
Exists(n) == tenants[n] # None
Live(n)   == Exists(n) /\ ~tenants[n].deleted

Listed(u) == {n \in Names : Live(n) /\ (u \in SuperAdmins \/ u \in tenants[n].admins)}

Onboarding(u) == list[u] = {}
Free(s)       == calls[s] = None
At(s, at)     == ~Free(s) /\ calls[s].at = at
Goes(s, at)   == calls' = [calls EXCEPT ![s].at = at]

Pending(u)   == form[u].waits # None
SetForm(u, f) == form' = [form EXCEPT ![u] = f]

----------------------------------------------------------------------------
\* The fields stay enabled while a call is pending.
SetName(u, n) ==
  /\ Onboarding(u) \/ form[u].open
  /\ SetForm(u, [form[u] EXCEPT !.name = n])
  /\ UNCHANGED <<gateway, calls, list, stale, told>>

\* Opening and dismissing the dialog keep the draft.
SetShowCreate(u) ==
  /\ u \in SuperAdmins /\ ~Onboarding(u)
  /\ SetForm(u, [form[u] EXCEPT !.open = ~@])
  /\ UNCHANGED <<gateway, calls, list, stale, told>>

Send(u, s, self) ==
  /\ Free(s) /\ form[u].name # None /\ ~Pending(u)
  /\ calls' = [calls EXCEPT ![s] = [user |-> u, name |-> form[u].name, self |-> self,
                                    at |-> IF self THEN "role" ELSE "tenant"]]
  /\ SetForm(u, [form[u] EXCEPT !.waits = s, !.error = FALSE])

HandleSubmit(u, s) ==
  /\ Onboarding(u)
  /\ Send(u, s, TRUE)
  /\ UNCHANGED <<gateway, list, stale, told>>

HandleCreate(u, s) ==
  /\ form[u].open
  /\ Send(u, s, FALSE)
  /\ UNCHANGED <<gateway, list, stale, told>>

----------------------------------------------------------------------------
FindRole(s) ==
  /\ At(s, "role")
  /\ Goes(s, "tenant")
  /\ UNCHANGED <<gateway, pages>>

InsertOrFind(s) ==                         \* mutant: a retry takes up the row it finds
  LET n == calls[s].name
  IN  /\ At(s, "tenant")
      /\ tenants' = IF Exists(n) THEN tenants ELSE [tenants EXCEPT ![n] = Fresh]
      /\ maker' = IF Exists(n) THEN maker ELSE [maker EXCEPT ![n] = calls[s].user]
      /\ Goes(s, "key")
      /\ UNCHANGED <<deleting, pages>>

InsertTenant(s) ==
  LET n == calls[s].name
  IN  /\ At(s, "tenant")
      /\ IF Exists(n)
         THEN Goes(s, "failed") /\ UNCHANGED <<tenants, maker>>
         ELSE /\ tenants' = [tenants EXCEPT ![n] = Fresh]
              /\ maker' = [maker EXCEPT ![n] = calls[s].user]
              /\ Goes(s, "key")
      /\ UNCHANGED <<deleting, pages>>

InsertKey(s) ==
  /\ At(s, "key")
  /\ tenants' = [tenants EXCEPT ![calls[s].name].key = "live"]
  /\ Goes(s, "rules")
  /\ UNCHANGED <<deleting, maker, pages>>

\* The errors of seeding are ignored.
SeedManagedRules(s) ==
  /\ At(s, "rules")
  /\ \E ok \in {TRUE, ~CanFail} :
       tenants' = [tenants EXCEPT ![calls[s].name].rules = ok]
  /\ Goes(s, IF calls[s].self THEN "member" ELSE "done")
  /\ UNCHANGED <<deleting, maker, pages>>

InsertMember(s) ==
  /\ At(s, "member")
  /\ tenants' = [tenants EXCEPT ![calls[s].name].admins = @ \cup {calls[s].user}]
  /\ Goes(s, "done")
  /\ UNCHANGED <<deleting, maker, pages>>

\* A statement fails, or the process stops before it; what was written stays.
StepFails(s) ==
  /\ CanFail /\ ~Free(s) /\ calls[s].at \notin {"done", "failed"}
  /\ Goes(s, "failed")
  /\ UNCHANGED <<gateway, pages>>

DeleteKeys(u, n) ==
  /\ CanDelete /\ u \in SuperAdmins /\ n \in list[u] /\ Live(n)
  /\ tenants' = IF tenants[n].key = "live" THEN [tenants EXCEPT ![n].key = "deleted"] ELSE tenants
  /\ deleting' = deleting \cup {n}
  /\ UNCHANGED <<calls, maker, pages>>

DeleteRow(n) ==
  /\ n \in deleting
  /\ tenants' = [tenants EXCEPT ![n].deleted = TRUE]
  /\ deleting' = deleting \ {n}
  /\ UNCHANGED <<calls, maker, pages>>

----------------------------------------------------------------------------

\* The hook invalidates; the page that still waits clears its dialog.
Announced(s) ==
  LET c == calls[s]
      f == form[c.user]
  IN  /\ At(s, "done")
      /\ calls' = [calls EXCEPT ![s] = None]
      /\ told' = told \cup {[user |-> c.user, name |-> c.name, self |-> c.self]}
      /\ stale' = [stale EXCEPT ![c.user] = TRUE]
      /\ SetForm(c.user, IF f.waits # s THEN f
                         ELSE IF c.self THEN [f EXCEPT !.waits = None] ELSE Blank)
      /\ UNCHANGED <<gateway, list>>

\* The page cannot tell a failure from a lost answer.
Refused(s) ==
  LET c == calls[s]
  IN  /\ At(s, "failed") \/ (CanFail /\ At(s, "done"))
      /\ calls' = [calls EXCEPT ![s] = None]
      /\ SetForm(c.user, IF form[c.user].waits # s THEN form[c.user]
                         ELSE [form[c.user] EXCEPT !.waits = None, !.error = c.self])
      /\ UNCHANGED <<gateway, list, stale, told>>

\* The onboarding page and the console take each other's place.
ShowList(u) ==
  /\ list' = [list EXCEPT ![u] = Listed(u)]
  /\ stale' = [stale EXCEPT ![u] = FALSE]
  /\ SetForm(u, IF Onboarding(u) = (Listed(u) = {}) THEN form[u] ELSE Blank)
  /\ UNCHANGED <<gateway, calls, told>>

\* A page reload forgets the call, which goes on.
Reload(u) ==
  /\ CanFail
  /\ SetForm(u, Blank)
  /\ UNCHANGED <<gateway, calls, list, stale, told>>

----------------------------------------------------------------------------
Init ==
  /\ tenants = [n \in Names |-> None] /\ deleting = {}
  /\ calls = [s \in Slots |-> None]
  /\ form = [u \in Users |-> Blank]
  /\ list = [u \in Users |-> {}] /\ stale = [u \in Users |-> FALSE]
  /\ maker = [n \in Names |-> None] /\ told = {}

Step(s) ==
  \/ FindRole(s) \/ InsertTenant(s) \/ InsertKey(s) \/ SeedManagedRules(s)
  \/ InsertMember(s) \/ Announced(s) \/ (At(s, "failed") /\ Refused(s))

Next ==
  \/ \E s \in Slots : Step(s) \/ StepFails(s) \/ Refused(s)
  \/ \E u \in Users : \/ SetShowCreate(u) \/ ShowList(u) \/ Reload(u)
                      \/ \E n \in Names : SetName(u, n) \/ DeleteKeys(u, n)
                      \/ \E s \in Slots : HandleSubmit(u, s) \/ HandleCreate(u, s)
  \/ \E n \in Names : DeleteRow(n)

Spec == Init /\ [][Next]_vars

\* The handlers run, the browser gets their answers and repeats a fetch.
Fairness ==
  /\ \A s \in Slots : WF_vars(Step(s))
  /\ \A u \in Users : WF_vars(stale[u] /\ ShowList(u))

LiveSpec == Spec /\ Fairness

----------------------------------------------------------------------------
\* A tenant whose creation was announced has its default key and, if a user
\* made it for himself, the user as admin, although each step may fail and the
\* pages may be left (server.go:408-487).
AnnouncedIsWhole ==
  \A t \in told : /\ Exists(t.name) /\ tenants[t.name].key # "none"
                  /\ t.self => t.user \in tenants[t.name].admins

\* Asking for a name somebody else has just taken, or once had, never makes
\* one the admin of that tenant (server.go:419, 474).
AdminsMadeTheirTenant ==
  \A n \in Names : Exists(n) => tenants[n].admins \subseteq {maker[n]}

\* "Create your organization ... to continue" (Onboarding.tsx:45-47): without
\* failures and deletions a user whose tenant has been inserted gets to the
\* console, where his tenant is listed.
OnboardedSeesConsole ==
  \A u \in Users, n \in Names : (maker[n] = u) ~> (n \in list[u])

\* "Failed to create organization. Try again." (Onboarding.tsx:78): the page
\* that says so has not taken the name itself, which no second try could get.
TryingAgainMayWork ==
  \A u \in Users : form[u].error /\ form[u].name # None => maker[form[u].name] # u

\* "This will soft-delete the tenant and all associated agents, keys, and
\* upstreams." (Tenants.tsx:189).
DeletedHasNoKeys ==
  \A n \in Names : Exists(n) /\ tenants[n].deleted => tenants[n].key # "live"
=============================================================================
