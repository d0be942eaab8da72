------------------------------ MODULE MCRecords ------------------------------
(***************************************************************************)
(* The rows the gateway keeps, for TLC: asynchronous tasks and their       *)
(* webhooks, and beside them tenants, members, and users who log in at a   *)
(* provider.  The parts share no variable, so one of them moves in a       *)
(* behaviour, and the others stay where they start.                        *)
(***************************************************************************)
EXTENDS AsyncTask, TLC

CONSTANTS Parts,   \* the parts that may move
          None, Slots,
          Users, SuperAdmins, Names, CanFail, CanDelete,     \* TenantCreation
          People, Registered, Roles,                         \* MemberConsole
          State, Callback, Account, Email, User, MaxFailures \* OidcLogin

VARIABLES
  moving,
  tenants, deleting, calls, form, list, stale, maker, told,         \* TenantCreation
  users, table, changes, rows, fetch, open, tab, draft, latest,
  chosen, unsure,                                                   \* MemberConsole
  store, login, redeemed, stage, state, user, people, identities,
  failures, takers, entered, sessions                               \* OidcLogin

tenantVars == <<tenants, deleting, calls, form, list, stale, maker, told>>
memberVars == <<users, table, changes, rows, fetch, open, tab, draft, latest,
                chosen, unsure>>
oidcVars   == <<store, login, redeemed, stage, state, user, people, identities,
                failures, takers, entered, sessions>>

(* Tasks, calls and callbacks may have the same names. *)
Symmetry == Permutations(Task) \cup Permutations(State)

Creation == INSTANCE TenantCreation
Members  == INSTANCE MemberConsole WITH calls <- changes
Login    == INSTANCE OidcLogin WITH pc <- stage, users <- people

(* All accounts are those of one person. *)
SameAddress == [a \in Account |-> "alice"]

ASSUME CreationAssumption == Creation!TenantCreationAssumption
ASSUME MembersAssumption == Members!MemberConsoleAssumption
ASSUME LoginAssumption   == Login!OidcAssumption

(* Bounds: one of the people is made a member, and calls on their page     *)
(* overlap while they and the dialog are about one of them.                *)
Chosen == {draft.user, draft.invited} \ {None}
Bounded ==
  /\ \A p, q \in People : table[p] # None /\ table[q] # None => p = q
  /\ \/ \E s \in Slots : changes[s] = None
     \/ \E p \in People : Chosen \subseteq {p} /\ \A s \in Slots : changes[s].person = p

MCInit ==
  /\ moving \in Parts
  /\ Init
  /\ Creation!Init /\ Members!Init /\ Login!Init

MCNext ==
  \/ moving = "tasks"   /\ Next
     /\ UNCHANGED <<moving, tenantVars, memberVars, oidcVars>>
  \/ moving = "tenants" /\ Creation!Next
     /\ UNCHANGED <<moving, vars, memberVars, oidcVars>>
  \/ moving = "members" /\ Members!Next
     /\ UNCHANGED <<moving, vars, tenantVars, oidcVars>>
  \/ moving = "login"   /\ Login!Next
     /\ UNCHANGED <<moving, vars, tenantVars, memberVars>>

MCSpec == MCInit /\ [][MCNext]_<<moving, vars, tenantVars, memberVars, oidcVars>>

-----------------------------------------------------------------------------
(***************************************************************************)
(* A tenant whose creation was announced has its key and its admin, and    *)
(* nobody becomes the admin of a tenant somebody else made                 *)
(* (admin/server.go:408-487).                                              *)
(***************************************************************************)
TenantsHaveTheirAdmin ==
  Creation!TypeOK /\ Creation!AnnouncedIsWhole /\ Creation!AdminsMadeTheirTenant

(***************************************************************************)
(* "Failed to create organization. Try again." (Onboarding.tsx:78).        *)
(***************************************************************************)
TryingAgainMayWork == Creation!TryingAgainMayWork

(***************************************************************************)
(* A person is one user and a login at most one session, whichever         *)
(* callbacks race and wherever they fail (handlers.go:155-294).            *)
(***************************************************************************)
OneUserPerPerson == Login!TypeOK /\ Login!OneUserPerPerson /\ Login!OneSessionPerLogin

(***************************************************************************)
(* The members of a tenant are the ones that were chosen on its page, and  *)
(* a page with nothing under way shows the rows of the table               *)
(* (Members.tsx:45-84).                                                    *)
(***************************************************************************)
MembersAsChosen ==
  Members!TypeOK /\ Members!MembersWereChosen /\ Members!QuietRowsAreTrue
=============================================================================
