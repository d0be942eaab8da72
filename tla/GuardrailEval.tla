--------------------------- MODULE GuardrailEval ---------------------------
(***************************************************************************)
(* One evaluation of a tenant's rules against one content                  *)
(* (Engine.Evaluate, backend/internal/guardrails/engine.go): the loop over *)
(* the loaded rules, the matching of patterns, and the sort that lets one  *)
(* fired rule's action win.                                                *)
(*                                                                         *)
(* A pattern is what it is for the content at hand: "hit", "miss", or      *)
(* "broken", an expression that does not compile.  A rule of type mlrunner *)
(* asks the detector, which may fail.  Managed and keyword rules match     *)
(* like a regular expression that is not broken.                           *)
(***************************************************************************)
EXTENDS Naturals, Sequences, SequencesExt

CONSTANTS
  Priority,        \* priorities of rules
  Action,          \* actions of rules
  MaxRules,        \* bound: rules of the tenant
  MaxPatterns      \* bound: patterns of a rule

(* actionPriority: the severities that break ties, the lowest first. *)
Severity ==
  [block |-> 0, rewrite |-> 1, tag |-> 2, shadow |-> 3, substitute |-> 4, log |-> 5]

EvalAssumption ==
  /\ Priority \subseteq Nat
  /\ Action \subseteq DOMAIN Severity
  /\ MaxRules \in Nat /\ MaxPatterns \in Nat

(* Whether a rule applies to the scope and agent of the content depends on *)
(* the rule and the request only.                                          *)
Condition ==
  [patterns : SeqOf({"hit", "miss", "broken"}, MaxPatterns), all : BOOLEAN]
    \cup {[detector |-> TRUE]}
Rule == [applies : BOOLEAN, condition : Condition, action : Action, priority : Priority]

VARIABLES
  rules,           \* the rules loadRules returned, by priority
  next,            \* the index of the loop
  fired,           \* indices of the fired rules
  said,            \* what the detector said when it was asked
  decision         \* "none" until the end; the winning action, or "allow"

vars == <<rules, next, fired, said, decision>>

TypeOK ==
  /\ rules \in Seq(Rule) /\ Len(rules) <= MaxRules
  /\ next \in 1 .. Len(rules) + 1
  /\ fired \in Seq(1 .. Len(rules)) /\ Len(fired) < next
  /\ said \in [1 .. Len(rules) -> {"nothing", "injection", "harmless", "error"}]
  /\ decision \in Action \cup {"none", "allow"}

(* Rules of equal priority come in any order. *)
Init ==
  /\ \E n \in 0 .. MaxRules : rules \in [1 .. n -> Rule]
  /\ \A i, j \in DOMAIN rules : i < j => rules[i].priority <= rules[j].priority
  /\ next = 1
  /\ fired = <<>>
  /\ said = [i \in DOMAIN rules |-> "nothing"]
  /\ decision = "none"

-----------------------------------------------------------------------------
AsksDetector(rule) == "detector" \in DOMAIN rule.condition

(* The loop of matchPatterns: what is known after n patterns, undecided     *)
(* until a pattern decides.                                                 *)
Undecided == [over |-> FALSE, hit |-> FALSE, matched |-> 0]

Looked(p, all, s) ==
  IF s.over \/ p = "broken" THEN s
  ELSE IF p = "hit" THEN [over |-> ~all, hit |-> ~all, matched |-> s.matched + 1]
  ELSE [s EXCEPT !.over = all]

Known(patterns, all) ==
  LET known[n \in 0 .. Len(patterns)] ==
        IF n = 0 THEN Undecided ELSE Looked(patterns[n], all, known[n - 1])
  IN  known

MatchPatterns(patterns, all) ==
  LET end == Known(patterns, all)[Len(patterns)]
  IN  patterns # <<>> /\ (end.hit \/ (all /\ ~end.over /\ end.matched = Len(patterns)))

Matches(rule, answer) ==
  IF AsksDetector(rule) THEN answer = "injection"
  ELSE MatchPatterns(rule.condition.patterns, rule.condition.all)

Answers(rule) ==
  IF rule.applies /\ AsksDetector(rule) THEN {"injection", "harmless", "error"}
  ELSE {"nothing"}

(* One round of the loop. *)
EvaluateRule ==
  /\ next <= Len(rules)
  /\ \E a \in Answers(rules[next]) :
       /\ said' = [said EXCEPT ![next] = a]
       /\ fired' = IF rules[next].applies /\ Matches(rules[next], a)
                   THEN Append(fired, next) ELSE fired
  /\ next' = next + 1
  /\ UNCHANGED <<rules, decision>>

PrecedesByPriority(a, b) == a.priority < b.priority   \* mutant of Precedes

Precedes(a, b) ==
  \/ a.priority < b.priority
  \/ a.priority = b.priority /\ Severity[a.action] < Severity[b.action]

(* sort.Slice is not stable: among equals any may come first. *)
Foremost ==
  {i \in ToSet(fired) : \A j \in ToSet(fired) : ~Precedes(rules[j], rules[i])}

Wins(action) == \E i \in Foremost : action = rules[i].action

Decide ==
  /\ next > Len(rules) /\ decision = "none"
  /\ IF fired = <<>> THEN decision' = "allow"
     ELSE \E action \in Action : Wins(action) /\ decision' = action
  /\ UNCHANGED <<rules, next, fired, said>>

Next == EvaluateRule \/ Decide

Spec == Init /\ [][Next]_vars

-----------------------------------------------------------------------------
(***************************************************************************)
(* Rules are independent: when all have been looked at, exactly those have *)
(* fired that would have fired alone, whatever the detector failed to      *)
(* answer for another rule and whatever pattern of it does not compile.    *)
(* With AND semantics (types.go:24) a rule fires when every pattern hits,  *)
(* one that does not compile never does; otherwise when some pattern hits. *)
(***************************************************************************)
FiresAlone(i) ==
  /\ rules[i].applies
  /\ IF AsksDetector(rules[i]) THEN said[i] = "injection"
     ELSE LET p == ToSet(rules[i].condition.patterns)
          IN  IF rules[i].condition.all THEN p = {"hit"} ELSE "hit" \in p

RulesAreIndependent ==
  next > Len(rules) => ToSet(fired) = {i \in DOMAIN rules : FiresAlone(i)}

(***************************************************************************)
(* The decision is a function of the set of rules: neither the order in    *)
(* which the database returns equal priorities nor the unstable sort       *)
(* decides whether content passes.  Of the rules that match, those of the  *)
(* least priority count, and of their actions the most severe one wins     *)
(* (MVP.md:144-145).                                                       *)
(***************************************************************************)
DecisionIsDetermined ==
  decision # "none" =>
    LET firing == {i \in DOMAIN rules : FiresAlone(i)}
        first == {i \in firing : \A j \in firing : rules[i].priority <= rules[j].priority}
        actions == {rules[i].action : i \in first}
    IN  IF firing = {} THEN decision = "allow"
        ELSE decision \in actions /\ \A a \in actions : Severity[decision] <= Severity[a]
=============================================================================
