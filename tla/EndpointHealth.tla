--------------------------- MODULE EndpointHealth ---------------------------
(***************************************************************************)
(* What the router's circuit breaking promises, without circuit states:    *)
(*                                                                         *)
(*  - an endpoint is refused only while it cools down;                     *)
(*  - a cooldown starts only when FailThreshold results in a row were      *)
(*    failures, and lasts ProbeInterval ticks;                             *)
(*  - one success ends both the row of failures and the cooldown;          *)
(*  - a request starts to use an endpoint only outside its cooldown.       *)
(*                                                                         *)
(* Router implements this (Router!Health, theorem RouterImplementsHealth). *)
(* In particular the HALF-OPEN state and the failure counter of an OPEN    *)
(* breaker are invisible here, except that a failure after the cooldown    *)
(* restarts it when a pick has already turned the breaker half-open and    *)
(* may leave it over when none has.                                        *)
(***************************************************************************)
EXTENDS Naturals

CONSTANTS
  Endpoint,        \* the endpoint objects
  Request,         \* the requests in flight
  FailThreshold,
  ProbeInterval

VARIABLES
  streak,          \* failures since the last success, saturated at FailThreshold
  cooldown,        \* ticks for which the endpoint is still refused
  users            \* requests that were allowed to use the endpoint

vars == <<streak, cooldown, users>>

TypeOK ==
  /\ streak   \in [Endpoint -> 0 .. FailThreshold]
  /\ cooldown \in [Endpoint -> 0 .. ProbeInterval]
  /\ users    \in [Endpoint -> SUBSET Request]

Init ==
  /\ streak   = [e \in Endpoint |-> 0]
  /\ cooldown = [e \in Endpoint |-> 0]
  /\ users    = [e \in Endpoint |-> {}]

Extended(n) == IF n < FailThreshold THEN n + 1 ELSE n

(* The cooldowns a failure may leave behind. *)
AfterFailure(e) ==
  IF Extended(streak[e]) < FailThreshold THEN {0}
  ELSE IF streak[e] < FailThreshold THEN {ProbeInterval}
  ELSE {cooldown[e], ProbeInterval}

OnlyRelease == \A e \in Endpoint : users'[e] \subseteq users[e]

Fail(e) ==
  /\ users[e] # {}
  /\ streak' = [streak EXCEPT ![e] = Extended(@)]
  /\ \E c \in AfterFailure(e) : cooldown' = [cooldown EXCEPT ![e] = c]
  /\ users' \in [Endpoint -> SUBSET Request]
  /\ OnlyRelease

Succeed(e) ==
  /\ users[e] # {}
  /\ streak' = [streak EXCEPT ![e] = 0]
  /\ cooldown' = [cooldown EXCEPT ![e] = 0]
  /\ users' \in [Endpoint -> SUBSET Request]
  /\ OnlyRelease

Elapse ==
  /\ cooldown' = [e \in Endpoint |-> IF cooldown[e] > 0 THEN cooldown[e] - 1 ELSE 0]
  /\ UNCHANGED <<streak, users>>

(* Requests are admitted to endpoints that do not cool down, or leave. *)
AdmitOrRelease ==
  /\ users' \in [Endpoint -> SUBSET Request]
  /\ \A e \in Endpoint : cooldown[e] = 0 \/ users'[e] \subseteq users[e]
  /\ UNCHANGED <<streak, cooldown>>

Next ==
  \/ \E e \in Endpoint : Fail(e) \/ Succeed(e)
  \/ Elapse
  \/ AdmitOrRelease

Spec == Init /\ [][Next]_vars

(* Only an endpoint that failed FailThreshold times in a row cools down. *)
CooldownIsEarned ==
  \A e \in Endpoint : cooldown[e] > 0 => streak[e] = FailThreshold
=============================================================================
