------------------------- MODULE MCRequestPipeline -------------------------
(***************************************************************************)
(* Proxy requests for TLC: the handlers with their checks and the circuit  *)
(* breaker of their endpoint, and beside them what the checks consult: the *)
(* evaluation of a tenant's rules, the copy of those rules in Redis, and   *)
(* the verdicts of the detector.  The parts share no variable, so one of   *)
(* them moves in a behaviour, and the others stay where they start.        *)
(***************************************************************************)
EXTENDS RequestPipeline, TLC

CONSTANTS Parts,   \* the parts that may move
          Priority, Action, MaxRules, MaxPatterns,            \* GuardrailEval
          Custom, Managed, DeclaredOff, Ids, Loaders, TTL, MaxDelay, None,   \* GuardrailRules
          Text, CacheTTL, CallTimeout                         \* VerdictCache

VARIABLES
  moving,
  rules, next, fired, said, decision,                               \* GuardrailEval
  rows, cache, load, call, age, excused, removed,                   \* GuardrailRules
  model, cached, ttl, at, text, result, waited, verdict, since      \* VerdictCache

evalVars    == <<rules, next, fired, said, decision>>
rulesVars   == <<rows, cache, load, call, age, excused, removed>>
verdictVars == <<model, cached, ttl, at, text, result, waited, verdict, since>>

(* The parts may use the same names for what is interchangeable in each. *)
Symmetry == Permutations(Request) \cup Permutations(Ids)

Eval     == INSTANCE GuardrailEval
Rules    == INSTANCE GuardrailRules WITH Handlers <- Request
Verdicts == INSTANCE VerdictCache WITH pc <- at

ASSUME EvalAssumption    == Eval!EvalAssumption
ASSUME RulesAssumption   == Rules!GuardrailRulesAssumption
ASSUME VerdictAssumption == Verdicts!VerdictAssumption

MCInit ==
  /\ moving \in Parts
  /\ Init /\ Rules!Init
  /\ IF moving = "eval" THEN Eval!Init
     ELSE rules = <<>> /\ next = 1 /\ fired = <<>> /\ said = <<>> /\ decision = "none"
  /\ Verdicts!Init /\ (moving # "verdicts" => model = [t \in Text |-> "safe"])

MCNext ==
  \/ moving = "requests" /\ Next
     /\ UNCHANGED <<moving, evalVars, rulesVars, verdictVars>>
  \/ moving = "eval"     /\ Eval!Next
     /\ UNCHANGED <<moving, vars, rulesVars, verdictVars>>
  \/ moving = "rules"    /\ Rules!Next
     /\ UNCHANGED <<moving, vars, evalVars, verdictVars>>
  \/ moving = "verdicts" /\ Verdicts!Next
     /\ UNCHANGED <<moving, vars, evalVars, rulesVars>>

MCSpec == MCInit /\ [][MCNext]_<<moving, vars, evalVars, rulesVars, verdictVars>>

-----------------------------------------------------------------------------
(***************************************************************************)
(* What is decided of a content is determined by its tenant's rules: each  *)
(* fires as it would alone, and the action of the first of them that       *)
(* fired, by priority and severity, wins (guardrails/engine.go:84-247).    *)
(***************************************************************************)
DecisionIsDetermined ==
  Eval!TypeOK /\ Eval!RulesAreIndependent /\ Eval!DecisionIsDetermined

(***************************************************************************)
(* The two copies the checks rely on are recent: that of the rules is not  *)
(* older than its life and the delay of who wrote it, and true when nothing*)
(* overlapped or failed (engine.go:58-82); a verdict is one the detector   *)
(* has given of this text as recently (inference/client.go:39-79).         *)
(***************************************************************************)
CopiesAreRecent ==
  /\ [](Rules!TypeOK /\ Rules!RulesAreRecent /\ Rules!QuietCopyIsTrue)
  /\ []Verdicts!TypeOK /\ Verdicts!VerdictIsRecent
=============================================================================
