--------------------------- MODULE CircuitBreaker ---------------------------
(***************************************************************************)
(* The circuit breaker of one upstream endpoint, as functions from a       *)
(* breaker to a breaker (backend/internal/router/endpoint.go).  Each       *)
(* method of the code runs under the breaker's own mutex, so each is one   *)
(* atomic update of the record below.                                      *)
(*                                                                         *)
(* The code stores the instant openedAt and compares time.Since(openedAt)  *)
(* with probeInterval.  Only that comparison matters, so the model keeps   *)
(* the age of the opening instead, in ticks, saturated at ProbeInterval;   *)
(* the field is 0 in the other states, where the code never reads it.      *)
(***************************************************************************)
EXTENDS Naturals, TLAPS

CONSTANTS
  FailThreshold,   \* failThreshold: failures that open a closed breaker
  ProbeInterval    \* probeInterval, in ticks of the model's clock

ASSUME BreakerAssumption ==
  /\ FailThreshold \in Nat \ {0}
  /\ ProbeInterval \in Nat \ {0}

CircuitState == {"CLOSED", "OPEN", "HALF-OPEN"}

(***************************************************************************)
(* recordFailure leaves fewer than FailThreshold failures behind: reaching *)
(* the threshold resets the counter.                                       *)
(***************************************************************************)
Breaker == [state    : CircuitState,
            failures : 0 .. FailThreshold - 1,
            elapsed  : 0 .. ProbeInterval]

NewBreaker == [state |-> "CLOSED", failures |-> 0, elapsed |-> 0]

AvailableAlways(b) == TRUE                       \* mutant of Available
AvailableUnlessHalfOpen(b) ==                    \* mutant of Available
  \/ b.state = "CLOSED"
  \/ b.state = "OPEN" /\ b.elapsed >= ProbeInterval

(* The value available() returns ... *)
Available(b) == b.state = "OPEN" => b.elapsed >= ProbeInterval

(* ... and its side effect: an opening that is old enough turns half-open, *)
(* whether or not the caller goes on to use the endpoint.                  *)
AfterAvailable(b) ==
  IF b.state = "OPEN" /\ b.elapsed >= ProbeInterval
  THEN [state |-> "HALF-OPEN", failures |-> b.failures, elapsed |-> 0]
  ELSE b

RecordSuccessOfProbe(b) ==                       \* mutant of RecordSuccess
  IF b.state = "HALF-OPEN" THEN NewBreaker ELSE b

(* A success closes the breaker from every state, OPEN included. *)
RecordSuccess(b) == NewBreaker

(* A failure is counted in every state; it opens, or opens again with a    *)
(* new openedAt, when it is a probe's or reaches the threshold.            *)
RecordFailure(b) ==
  IF b.state = "HALF-OPEN" \/ b.failures + 1 >= FailThreshold
  THEN [state |-> "OPEN", failures |-> 0, elapsed |-> 0]
  ELSE [b EXCEPT !.failures = @ + 1]

(* One tick of the clock, seen by time.Since(openedAt). *)
Age(b) ==
  IF b.state = "OPEN" /\ b.elapsed < ProbeInterval
  THEN [b EXCEPT !.elapsed = @ + 1]
  ELSE b

-----------------------------------------------------------------------------
(***************************************************************************)
(* Lemmas about these methods, for any threshold and any probe interval.   *)
(* The proofs about the router and the request pipeline rest on them.      *)
(***************************************************************************)

(***************************************************************************)
(* The breaker's methods keep the breaker's type.                          *)
(***************************************************************************)
LEMMA BreakerTyping ==
  ASSUME NEW b \in Breaker
  PROVE  /\ NewBreaker \in Breaker
         /\ AfterAvailable(b) \in Breaker
         /\ RecordSuccess(b) \in Breaker
         /\ RecordFailure(b) \in Breaker
         /\ Age(b) \in Breaker
<1>1. NewBreaker \in Breaker
  BY BreakerAssumption DEF NewBreaker, Breaker, CircuitState
<1>2. AfterAvailable(b) \in Breaker
  BY BreakerAssumption DEF AfterAvailable, Breaker, CircuitState
<1>3. RecordSuccess(b) \in Breaker
  BY <1>1 DEF RecordSuccess
<1>4. RecordFailure(b) \in Breaker
  BY BreakerAssumption DEF RecordFailure, Breaker, CircuitState
<1>5. Age(b) \in Breaker
  BY BreakerAssumption DEF Age, Breaker, CircuitState
<1> QED
  BY <1>1, <1>2, <1>3, <1>4, <1>5

(***************************************************************************)
(* What each method does to the circuit state and the counter.             *)
(***************************************************************************)
LEMMA BreakerEffects ==
  ASSUME NEW b \in Breaker
  PROVE  /\ NewBreaker.state = "CLOSED" /\ NewBreaker.failures = 0
         /\ (AfterAvailable(b).state = "CLOSED" <=> b.state = "CLOSED")
         /\ AfterAvailable(b).failures = b.failures
         /\ Age(b).state = b.state /\ Age(b).failures = b.failures
         /\ b.state = "CLOSED" /\ b.failures + 1 < FailThreshold =>
              /\ RecordFailure(b).state = "CLOSED"
              /\ RecordFailure(b).failures = b.failures + 1
         /\ b.state = "CLOSED" /\ b.failures + 1 >= FailThreshold =>
              RecordFailure(b).state = "OPEN"
         /\ b.state # "CLOSED" => RecordFailure(b).state # "CLOSED"
BY BreakerAssumption
  DEF Breaker, CircuitState, NewBreaker, AfterAvailable, Age, RecordFailure
=============================================================================
