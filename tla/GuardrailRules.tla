--------------------------- MODULE GuardrailRules ---------------------------
(***************************************************************************)
(* The guardrail rules of one tenant: the rows of the table, the cached    *)
(* copy in Redis through which requests read them, and the handlers that   *)
(* change rows and then delete the copy.  Listing the rules inserts the    *)
(* managed ones that are missing.                                          *)
(*                                                                         *)
(* A request that misses the cache reads the table and fills the cache in  *)
(* separate calls; the deletion of the copy may fail unnoticed.            *)
(***************************************************************************)
EXTENDS Naturals, FiniteSets

CONSTANTS Custom, Managed,
          DeclaredOff,       \* the managed rules whose entry says disabled
          Ids,               \* bound: rows at a time
          Loaders, Handlers, \* bound: requests and admin calls at a time
          TTL,               \* cacheTTL, in ticks
          MaxDelay,          \* bound: ticks between reading and caching
          None

\* An admin handler: what it does, where it stands, and the rules left to seed.
Call == [op : {"write", "list"}, at : {"seed", "invalidate"}, missing : SUBSET Managed]

GuardrailRulesAssumption ==
  /\ DeclaredOff \subseteq Managed /\ Custom \cap Managed = {}
  /\ TTL \in Nat \ {0} /\ MaxDelay \in Nat
  /\ None \notin Custom \cup Managed /\ None \notin Call

Rules == Custom \cup Managed

VARIABLES
  rows,     \* the table
  cache,    \* the copy and the ticks left to it
  load,     \* load[q]: what a request has read and not cached yet
  call,     \* call[h]: an admin handler
  age,      \* history: ticks since a rule was last switched on or off
  excused,  \* history: the copy was written by a late request or not deleted
  removed   \* history: managed rules that were deleted

vars == <<rows, cache, load, call, age, excused, removed>>

Row    == [rule : Rules, enabled : BOOLEAN]
Copy   == [rules : SUBSET Rules, left : 1..TTL]
Load   == [rules : SUBSET Rules, waited : 0..MaxDelay, old : BOOLEAN]
Oldest == TTL + MaxDelay + 1

TypeOK ==
  /\ rows \in [Ids -> Row \cup {None}]
  /\ cache \in Copy \cup {None}
  /\ load \in [Loaders -> Load \cup {None}]
  /\ call \in [Handlers -> Call \cup {None}]
  /\ age \in [Rules -> 0..Oldest] /\ excused \in BOOLEAN /\ removed \subseteq Managed

----------------------------------------------------------------------------
Present(t) == {i \in Ids : t[i] # None}
InForce(t) == {t[i].rule : i \in {j \in Present(t) : t[j].enabled}}
Seeded(t)  == {t[i].rule : i \in Present(t)} \cap Managed

\* The rows become t: what is being read is old if that changes the rules.
Becomes(t) ==
  /\ rows' = t
  /\ age' = [r \in Rules |-> IF (r \in InForce(t)) = (r \in InForce(rows)) THEN age[r] ELSE 0]
  /\ load' = [q \in Loaders |->
       IF load[q] = None THEN None
       ELSE [load[q] EXCEPT !.old = @ \/ InForce(t) # InForce(rows)]]

Then(h, at) == call' = [call EXCEPT ![h] = [op |-> "write", at |-> at, missing |-> {}]]

\* gorm writes the column's default in place of a false: every new row is on.
NewRow(r) == [rule |-> r, enabled |-> TRUE]

----------------------------------------------------------------------------
\* The page never asks for a managed rule.
CreateRule(h, i, r) ==
  /\ call[h] = None /\ rows[i] = None /\ r \in Custom
  /\ Becomes([rows EXCEPT ![i] = NewRow(r)])
  /\ Then(h, "invalidate")
  /\ UNCHANGED <<cache, excused, removed>>

UpdateRule(h, i, e) ==
  /\ call[h] = None /\ rows[i] # None
  /\ Becomes([rows EXCEPT ![i].enabled = e])
  /\ Then(h, "invalidate")
  /\ UNCHANGED <<cache, excused, removed>>

DeleteRule(h, i) ==
  /\ call[h] = None /\ rows[i] # None
  /\ Becomes([rows EXCEPT ![i] = None])
  /\ Then(h, "invalidate")
  /\ removed' = removed \cup ({rows[i].rule} \cap Managed)
  /\ UNCHANGED <<cache, excused>>

\* handleListRules seeds first.
ListRules(h) ==
  /\ call[h] = None
  /\ call' = [call EXCEPT ![h] = [op |-> "list", at |-> "seed", missing |-> Managed \ Seeded(rows)]]
  /\ UNCHANGED <<rows, cache, load, age, excused, removed>>

SeedOne(h, i, m) ==
  /\ call[h] # None /\ call[h].at = "seed" /\ m \in call[h].missing
  /\ rows[i] = None
  /\ Becomes([rows EXCEPT ![i] = NewRow(m)])
  /\ call' = [call EXCEPT ![h].missing = @ \ {m}]
  /\ UNCHANGED <<cache, excused, removed>>

\* An insert that fails is skipped, and so is what finds no room in Ids.
SeedNoMore(h) ==
  /\ call[h] # None /\ call[h].at = "seed"
  /\ call' = [call EXCEPT ![h].at = "invalidate", ![h].missing = {}]
  /\ UNCHANGED <<rows, cache, load, age, excused, removed>>

InvalidateCache(h) ==
  /\ call[h] # None /\ call[h].at = "invalidate"
  /\ call' = [call EXCEPT ![h] = None]
  /\ cache' = None /\ excused' = FALSE
  /\ UNCHANGED <<rows, load, age, removed>>

\* The error is ignored; the admin's request may have been given up.
InvalidateFails(h) ==
  /\ call[h] # None /\ call[h].at = "invalidate"
  /\ call' = [call EXCEPT ![h] = None]
  /\ excused' = (cache # None)
  /\ UNCHANGED <<rows, cache, load, age, removed>>

----------------------------------------------------------------------------
\* A request that finds the copy uses it and leaves it alone.
Hit(q) ==
  /\ cache # None /\ load[q] = None
  /\ UNCHANGED vars

Miss(q) ==
  /\ cache = None /\ load[q] = None
  /\ load' = [load EXCEPT ![q] = [rules |-> InForce(rows), waited |-> 0, old |-> FALSE]]
  /\ UNCHANGED <<rows, cache, call, age, excused, removed>>

Store(q) ==
  /\ load[q] # None
  /\ cache' = [rules |-> load[q].rules, left |-> TTL]
  /\ load' = [load EXCEPT ![q] = None]
  /\ excused' = load[q].old
  /\ UNCHANGED <<rows, call, age, removed>>

StoreFails(q) ==
  /\ load[q] # None
  /\ load' = [load EXCEPT ![q] = None]
  /\ UNCHANGED <<rows, cache, call, age, excused, removed>>

\* Time does not pass a request by that must have ended.
Tick ==
  /\ \A q \in Loaders : load[q] # None => load[q].waited < MaxDelay
  /\ load' = [q \in Loaders |-> IF load[q] = None THEN None ELSE [load[q] EXCEPT !.waited = @ + 1]]
  /\ cache' = IF cache = None \/ cache.left = 1 THEN None ELSE [cache EXCEPT !.left = @ - 1]
  /\ age' = [r \in Rules |-> IF age[r] = Oldest THEN Oldest ELSE age[r] + 1]
  /\ excused' = (excused /\ cache' # None)
  /\ UNCHANGED <<rows, call, removed>>

----------------------------------------------------------------------------
Init ==
  /\ rows = [i \in Ids |-> None] /\ cache = None
  /\ load = [q \in Loaders |-> None] /\ call = [h \in Handlers |-> None]
  /\ age = [r \in Rules |-> Oldest] /\ excused = FALSE /\ removed = {}

Next ==
  \/ \E h \in Handlers :
       \/ \E i \in Ids : \/ \E r \in Rules : CreateRule(h, i, r) \/ SeedOne(h, i, r)
                         \/ \E e \in BOOLEAN : UpdateRule(h, i, e)
                         \/ DeleteRule(h, i)
       \/ ListRules(h) \/ SeedNoMore(h) \/ InvalidateCache(h) \/ InvalidateFails(h)
  \/ \E q \in Loaders : Hit(q) \/ Miss(q) \/ Store(q) \/ StoreFails(q)
  \/ Tick

Spec == Init /\ [][Next]_vars

----------------------------------------------------------------------------
\* Whatever overlaps and fails, a request uses no rule that has been off, and
\* misses none that has been on, for longer than the copy's life and the delay
\* of the request that wrote it (engine.go:58-82).
RulesAreRecent ==
  /\ cache # None =>
       \A r \in Rules : age[r] > (TTL - cache.left) + MaxDelay =>
                          (r \in cache.rules <=> r \in InForce(rows))
  /\ \A q \in Loaders : load[q] # None =>
       \A r \in Rules : age[r] > load[q].waited =>
                          (r \in load[q].rules <=> r \in InForce(rows))

\* "Called by admin write handlers after any rule mutation" (engine.go:50):
\* once the handlers have ended the copy is the table's, unless a request that
\* had read before the change wrote it, or its deletion failed.
QuietCopyIsTrue ==
  ((\A h \in Handlers : call[h] = None) /\ cache # None /\ ~excused)
    => cache.rules = InForce(rows)

\* "Safe to call on every list request - skips if already seeded."
\* (server.go:716-717)
SeededOnce ==
  \A i, j \in Present(rows) : i # j /\ rows[i].rule = rows[j].rule => rows[i].rule \in Custom

\* The same comment: what an admin has deleted had been seeded.
DeletedIsNotSeeded == Seeded(rows) \cap removed = {}

\* The list of managed rules says for each whether it starts enabled
\* (server.go:700-714); this one is inserted as listed.
SeededAsListed ==
  [][\A i \in Ids : (rows[i] = None /\ rows'[i] # None /\ rows'[i].rule \in DeclaredOff)
       => ~rows'[i].enabled]_vars
=============================================================================
