---------------------------- MODULE VerdictCache ----------------------------
(***************************************************************************)
(* The detector behind the checks of a request: IsInjection                *)
(* (backend/internal/secllm/secllm.go) over the client of the ML sidecar   *)
(* (backend/internal/inference/client.go), which keeps what the sidecar    *)
(* answered in Redis under the hash of the text.                           *)
(*                                                                         *)
(* Each check is a call of a request's goroutine; its Redis read, its HTTP *)
(* call and its Redis write are steps.  The sidecar's model may be         *)
(* replaced, or configured so that its answers cannot be read, and put     *)
(* right again; nothing tells the cache.                                   *)
(*                                                                         *)
(* A score is abstracted to the side of the threshold it is on.            *)
(***************************************************************************)
EXTENDS Integers

CONSTANTS
  Text,            \* texts that are checked; their hashes do not collide
  Request,         \* goroutines that check
  CacheTTL,        \* cacheTTL, in ticks
  CallTimeout      \* longest time from sending a call to writing its answer

(***************************************************************************)
(* The HTTP client has a timeout and go-redis has one for its writes, so   *)
(* unlike in KeyAuth the time a call takes before its write is bounded by  *)
(* the code.  A CacheTTL of 0 would mean to Redis to keep an entry for     *)
(* ever.                                                                   *)
(***************************************************************************)
VerdictAssumption == CacheTTL \in Nat \ {0} /\ CallTimeout \in Nat

VARIABLES
  model,           \* model[t]: what the sidecar would answer for t now
  cached,          \* cached[t]: the answer kept for t
  ttl,             \* ttl[t]: remaining life of that entry, 0 if absent
  pc,              \* where a check stands
  text,            \* text[r]: what it checks
  result,          \* result[r]: what the sidecar answered it
  waited,          \* waited[r]: ticks since its call was answered
  verdict,         \* verdict[r]: what its last check said
  since            \* history: ticks since the sidecar answered l for t

sidecarVars == <<model, since>>
redisVars == <<cached, ttl>>
checkVars == <<pc, text, result, waited, verdict>>
vars == <<sidecarVars, redisVars, checkVars>>

(* A 200 whose result is a list without a classification, or null, is       *)
(* "empty", and one of a shape that the detector does not know "unreadable".*)
Readable == {"injection", "safe", "empty"}
Label == Readable \cup {"unreadable"}

Horizon == CacheTTL + CallTimeout + 1

TypeOK ==
  /\ model \in [Text -> Label]
  /\ cached \in [Text -> Label]
  /\ ttl \in [Text -> 0 .. CacheTTL]
  /\ pc \in [Request -> {"idle", "lookup", "call", "store"}]
  /\ text \in [Request -> Text]
  /\ result \in [Request -> Label]
  /\ waited \in [Request -> 0 .. CallTimeout]
  /\ verdict \in [Request -> {"none", "injection", "safe", "error"}]
  /\ since \in [Text -> [Readable -> 0 .. Horizon]]

Init ==
  /\ model \in [Text -> Label]
  /\ cached = [t \in Text |-> "safe"]
  /\ ttl = [t \in Text |-> 0]
  /\ pc = [r \in Request |-> "idle"]
  /\ text \in [Request -> Text]
  /\ result = [r \in Request |-> "safe"]
  /\ waited = [r \in Request |-> 0]
  /\ verdict = [r \in Request |-> "none"]
  /\ since = [t \in Text |-> [l \in Readable |-> Horizon]]

Goto(r, place) == pc' = [pc EXCEPT ![r] = place]

-----------------------------------------------------------------------------
(* The detector. *)

(* An answer that cannot be read is an error, as no answer is; but one that *)
(* classifies nothing is no injection, and no error.                        *)
Verdict(label) == CASE label = "unreadable" -> "error"
                    [] label = "empty"      -> "safe"
                    [] OTHER                -> label

(* Analyze returns an answer, of the sidecar or of the cache, and           *)
(* IsInjection reads it; the check is over.                                 *)
Judge(r, label) ==
  /\ verdict' = [verdict EXCEPT ![r] = Verdict(label)]
  /\ result' = [result EXCEPT ![r] = "safe"]
  /\ waited' = [waited EXCEPT ![r] = 0]
  /\ Goto(r, "idle")

-----------------------------------------------------------------------------
(* The client of the sidecar. *)

IsInjection(r, t) ==
  /\ pc[r] = "idle"
  /\ text' = [text EXCEPT ![r] = t]
  /\ verdict' = [verdict EXCEPT ![r] = "none"]
  /\ Goto(r, "lookup")
  /\ UNCHANGED <<sidecarVars, redisVars, result, waited>>

CacheHitRenewed(r) ==                            \* mutant of CacheHit
  /\ pc[r] = "lookup" /\ ttl[text[r]] > 0
  /\ Judge(r, cached[text[r]])
  /\ ttl' = [ttl EXCEPT ![text[r]] = CacheTTL]
  /\ UNCHANGED <<sidecarVars, cached, text>>

CacheHit(r) ==
  /\ pc[r] = "lookup" /\ ttl[text[r]] > 0
  /\ Judge(r, cached[text[r]])
  /\ UNCHANGED <<sidecarVars, redisVars, text>>

(* There is no entry, or Redis fails. *)
CacheMiss(r) ==
  /\ pc[r] = "lookup"
  /\ Goto(r, "call")
  /\ UNCHANGED <<sidecarVars, redisVars, text, result, waited, verdict>>

Answered(r) ==
  /\ pc[r] = "call"
  /\ result' = [result EXCEPT ![r] = model[text[r]]]
  /\ waited' = [waited EXCEPT ![r] = 0]
  /\ since' = [since EXCEPT ![text[r]] =
                [l \in Readable |-> IF l = model[text[r]] THEN 0 ELSE @[l]]]
  /\ Goto(r, "store")
  /\ UNCHANGED <<model, redisVars, text, verdict>>

(* The sidecar refuses, answers another status than 200 or no JSON, or the  *)
(* client's timeout or the request's context ends the call.                 *)
Failed(r) ==
  /\ pc[r] = "call"
  /\ verdict' = [verdict EXCEPT ![r] = "error"]
  /\ Goto(r, "idle")
  /\ UNCHANGED <<sidecarVars, redisVars, text, result, waited>>

Store(r) ==
  /\ pc[r] = "store"
  /\ cached' = [cached EXCEPT ![text[r]] = result[r]]
  /\ ttl' = [ttl EXCEPT ![text[r]] = CacheTTL]
  /\ Judge(r, result[r])
  /\ UNCHANGED <<sidecarVars, text>>

(* The error of the write is ignored. *)
StoreFails(r) ==
  /\ pc[r] = "store"
  /\ Judge(r, result[r])
  /\ UNCHANGED <<sidecarVars, redisVars, text>>

-----------------------------------------------------------------------------
(* Redis, the sidecar and the clock. *)

LoseEntry(t) ==
  /\ ttl[t] > 0
  /\ ttl' = [ttl EXCEPT ![t] = 0]
  /\ UNCHANGED <<sidecarVars, cached, checkVars>>

(* The sidecar is restarted with another model or configuration. *)
ReplaceModel(t, l) ==
  /\ model[t] # l
  /\ model' = [model EXCEPT ![t] = l]
  /\ UNCHANGED <<since, redisVars, checkVars>>

Tick ==
  /\ \A r \in Request : pc[r] = "store" => waited[r] < CallTimeout
  /\ ttl' = [t \in Text |-> IF ttl[t] > 0 THEN ttl[t] - 1 ELSE 0]
  /\ since' = [t \in Text |-> [l \in Readable |->
                 IF since[t][l] < Horizon THEN since[t][l] + 1 ELSE Horizon]]
  /\ waited' = [r \in Request |-> IF pc[r] = "store" THEN waited[r] + 1 ELSE waited[r]]
  /\ UNCHANGED <<model, cached, pc, text, result, verdict>>

Check(r) ==
  \/ CacheHit(r) \/ CacheMiss(r) \/ Answered(r)
  \/ Failed(r) \/ Store(r) \/ StoreFails(r)

Next ==
  \/ \E r \in Request : Check(r) \/ \E t \in Text : IsInjection(r, t)
  \/ \E t \in Text : LoseEntry(t) \/ \E l \in Label : ReplaceModel(t, l)
  \/ Tick

Spec == Init /\ [][Next]_vars

(* A check runs on where nobody else is waited for; a call that is not      *)
(* answered ends by the client's timeout.                                   *)
FairSpec ==
  /\ Spec
  /\ \A r \in Request :
       /\ WF_vars(CacheHit(r) \/ CacheMiss(r))
       /\ WF_vars(Failed(r))
       /\ WF_vars(Store(r) \/ StoreFails(r))

-----------------------------------------------------------------------------
(***************************************************************************)
(* A verdict is what the sidecar answered for this text no longer ago than *)
(* an entry lives and a call may take.  After a model was replaced its old *)
(* verdicts die out, however often their texts are checked and however     *)
(* late their writes are.  A check that is no error calls a text safe only *)
(* if the sidecar did, or if it answered with an empty list                *)
(* (secllm/secllm.go:34-36).                                               *)
(***************************************************************************)
VerdictIsRecent ==
  [][\A r \in Request :
       pc[r] # "idle" /\ pc'[r] = "idle" /\ verdict'[r] # "error" =>
         \E l \in Readable :
           Verdict(l) = verdict'[r] /\ since[text[r]][l] <= CacheTTL + CallTimeout]_vars

(***************************************************************************)
(* The check of a request ends whatever the sidecar does: its client has a *)
(* timeout, unlike that of the upstream.                                   *)
(***************************************************************************)
CheckEnds == \A r \in Request : pc[r] # "idle" ~> pc[r] = "idle"
=============================================================================
