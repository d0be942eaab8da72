---------------------------- MODULE RouterProofs ----------------------------
(***************************************************************************)
(* Theorems about Router, for any endpoints, requests, tenants, models,    *)
(* threshold and probe interval, and about the parts MCUpstreams puts      *)
(* beside it: the table of provider keys the router follows, for any       *)
(* labels, providers, models and calls, and the figures of an endpoint and *)
(* of the Router page, for any window, values and endpoints.               *)
(***************************************************************************)
EXTENDS MCUpstreams, FiniteSetTheorems, SequenceTheorems, WellFoundedInduction, TLAPS

-----------------------------------------------------------------------------
(***************************************************************************)
(* An endpoint that a request calls is one of the router's objects: Pick   *)
(* leaves pc and picked in step.  Needed to type the updates of Succeed    *)
(* and Fail, which index the breakers by picked.                           *)
(***************************************************************************)
CallingHasPicked ==
  \A r \in Request : pc[r] = "calling" => picked[r] \in Endpoint

Typing == TypeOK /\ CallingHasPicked

\* A request that leaves keeps the types of the places and picks.
LEMMA LeaveTyping ==
  ASSUME Typing, NEW r \in Request, Leave(r)
  PROVE  /\ picked[r] \in Endpoint
         /\ pc' \in [Request -> {"idle", "picking", "calling"}]
         /\ picked' \in [Request -> Endpoint \cup {NoEndpoint}]
         /\ CallingHasPicked'
BY DEF Typing, TypeOK, CallingHasPicked, Leave

\* The breakers and the requests start with their types.
LEMMA TypingInit == Init => Typing
BY BreakerAssumption, RouterAssumption
  DEF Init, Typing, TypeOK, CallingHasPicked, NewBreaker, Breaker, CircuitState

\* Every step of requests, admin and time keeps the types.
LEMMA TypingNext == Typing /\ [Next]_vars => Typing'
<1> SUFFICES ASSUME Typing, [Next]_vars
             PROVE  Typing'
  OBVIOUS
<1> USE DEF Typing
<1>1. ASSUME NEW r \in Request, Begin(r)
      PROVE  Typing'
  <2>1. PICK w \in Wanted :
          /\ want' = [want EXCEPT ![r] = w]
          /\ toScan' = [toScan EXCEPT ![r] = {e \in endpoints : Matches(e, w)}]
    BY <1>1 DEF Begin
  <2>2. {e \in endpoints : Matches(e, w)} \in SUBSET Endpoint
    BY DEF TypeOK
  <2> QED
    BY <1>1, <2>1, <2>2 DEF Begin, TypeOK, CallingHasPicked, routerVars
<1>2. ASSUME NEW r \in Request, NEW e \in Endpoint, Scan(r, e)
      PROVE  Typing'
  <2>1. breaker' \in [Endpoint -> Breaker]
    BY <1>2, BreakerTyping DEF Scan, TypeOK
  <2>2. /\ toScan' \in [Request -> SUBSET Endpoint]
        /\ candidates' \in [Request -> SUBSET Endpoint]
    BY <1>2 DEF Scan, TypeOK
  <2> QED
    BY <1>2, <2>1, <2>2 DEF Scan, TypeOK, CallingHasPicked, routerVars
<1>3. ASSUME NEW r \in Request, Choose(r)
      PROVE  Typing'
  BY <1>3 DEF Choose, TypeOK, CallingHasPicked, routerVars
<1>4. ASSUME NEW r \in Request, Refuse(r)
      PROVE  Typing'
  BY <1>4 DEF Refuse, TypeOK, CallingHasPicked, routerVars
<1>5. ASSUME NEW r \in Request, Succeed(r)
      PROVE  Typing'
  <2>1. Leave(r) /\ picked[r] \in Endpoint
    BY <1>5, LeaveTyping DEF Succeed
  <2>2. breaker' \in [Endpoint -> Breaker]
    BY <1>5, <2>1, BreakerTyping DEF Succeed, TypeOK
  <2>3. streak' \in [Endpoint -> 0 .. FailThreshold]
    BY <1>5, <2>1, BreakerAssumption DEF Succeed, TypeOK
  <2> QED
    BY <2>1, <2>2, <2>3, LeaveTyping DEF Leave, TypeOK, routerVars
<1>6. ASSUME NEW r \in Request, Fail(r)
      PROVE  Typing'
  <2>1. Leave(r) /\ picked[r] \in Endpoint
    BY <1>6, LeaveTyping DEF Fail
  <2>2. breaker' \in [Endpoint -> Breaker]
    BY <1>6, <2>1, BreakerTyping DEF Fail, TypeOK
  <2>3. streak' \in [Endpoint -> 0 .. FailThreshold]
    BY <1>6, <2>1, BreakerAssumption DEF Fail, TypeOK
  <2> QED
    BY <2>1, <2>2, <2>3, LeaveTyping DEF Leave, TypeOK, routerVars
<1>7. ASSUME NEW r \in Request, Abandon(r)
      PROVE  Typing'
  BY <1>7, LeaveTyping DEF Abandon, Leave, TypeOK, routerVars
<1>8. ASSUME NEW e \in Endpoint, Add(e)
      PROVE  Typing'
  BY <1>8 DEF Add, TypeOK, CallingHasPicked, requestVars
<1>9. ASSUME NEW t \in Tenant, NEW k \in KeyID, Remove(t, k)
      PROVE  Typing'
  BY <1>9 DEF Remove, TypeOK, CallingHasPicked, requestVars
<1>10. ASSUME Tick
       PROVE  Typing'
  <2>1. breaker' \in [Endpoint -> Breaker]
    BY <1>10, BreakerTyping DEF Tick, TypeOK
  <2> QED
    BY <1>10, <2>1 DEF Tick, TypeOK, CallingHasPicked, routerVars, requestVars
<1>11. CASE UNCHANGED vars
  BY <1>11 DEF vars, routerVars, requestVars, TypeOK, CallingHasPicked
<1> QED
  BY <1>1, <1>2, <1>3, <1>4, <1>5, <1>6, <1>7, <1>8, <1>9, <1>10, <1>11
    DEF Next

\* Types hold, and a calling request has picked, in every reachable state.
LEMMA TypingInvariant == Spec => []Typing
BY TypingInit, TypingNext, PTL DEF Spec

(* Every reachable state of the router has the type TypeOK states. *)
THEOREM TypeCorrect == Spec => []TypeOK
<1>1. Typing => TypeOK
  BY DEF Typing
<1> QED
  BY <1>1, TypingInvariant, PTL

-----------------------------------------------------------------------------
(***************************************************************************)
(* BreakerTracksStreak is inductive together with the types: every result  *)
(* moves the breaker and the history in step, and asking an endpoint or    *)
(* the passing of time changes neither whether it is closed nor its count. *)
(***************************************************************************)
LEMMA StreakInit == Init => BreakerTracksStreak
BY BreakerAssumption, BreakerTyping, BreakerEffects
  DEF Init, BreakerTracksStreak, NewBreaker

\* Every step keeps each breaker in line with its streak of failures.
LEMMA StreakNext ==
  Typing /\ BreakerTracksStreak /\ [Next]_vars => BreakerTracksStreak'
<1> SUFFICES ASSUME Typing, BreakerTracksStreak, [Next]_vars,
                    NEW x \in Endpoint
             PROVE  /\ breaker'[x].state = "CLOSED" <=> streak'[x] < FailThreshold
                    /\ breaker'[x].state = "CLOSED" =>
                         breaker'[x].failures = streak'[x]
  BY DEF BreakerTracksStreak
<1> DEFINE b == breaker[x]
           n == streak[x]
<1>a. /\ b \in Breaker
      /\ b.failures \in Nat
      /\ n \in 0 .. FailThreshold
      /\ b.state = "CLOSED" <=> n < FailThreshold
      /\ b.state = "CLOSED" => b.failures = n
  BY BreakerAssumption DEF Typing, TypeOK, BreakerTracksStreak, Breaker
<1>b. ASSUME breaker'[x] = breaker[x], streak'[x] = streak[x]
      PROVE  /\ breaker'[x].state = "CLOSED" <=> streak'[x] < FailThreshold
             /\ breaker'[x].state = "CLOSED" =>
                  breaker'[x].failures = streak'[x]
  BY <1>a, <1>b
<1>1. ASSUME NEW r \in Request, Begin(r) \/ Choose(r) \/ Refuse(r) \/ Abandon(r)
      PROVE  breaker' = breaker /\ streak' = streak
  BY <1>1 DEF Begin, Choose, Refuse, Abandon
<1>2. ASSUME NEW r \in Request, NEW e \in Endpoint, Scan(r, e)
      PROVE  /\ streak'[x] = n
             /\ breaker'[x].state = "CLOSED" <=> b.state = "CLOSED"
             /\ breaker'[x].failures = b.failures
  <2>1. breaker'[x] = b \/ breaker'[x] = AfterAvailable(b)
    BY <1>2 DEF Scan, Typing, TypeOK
  <2> QED
    BY <1>2, <1>a, <2>1, BreakerEffects DEF Scan
<1>3. ASSUME NEW r \in Request, Succeed(r)
      PROVE  \/ breaker'[x] = b /\ streak'[x] = n
             \/ breaker'[x] = NewBreaker /\ streak'[x] = 0
  BY <1>3, LeaveTyping DEF Succeed, RecordSuccess, Typing, TypeOK
<1>4. ASSUME NEW r \in Request, Fail(r)
      PROVE  \/ breaker'[x] = b /\ streak'[x] = n
             \/ /\ breaker'[x] = RecordFailure(b)
                /\ streak'[x] = IF n < FailThreshold THEN n + 1 ELSE n
  BY <1>4, LeaveTyping DEF Fail, Typing, TypeOK
<1>5. ASSUME NEW e \in Endpoint, Add(e)
      PROVE  breaker' = breaker /\ streak' = streak
  BY <1>5 DEF Add
<1>6. ASSUME NEW t \in Tenant, NEW k \in KeyID, Remove(t, k)
      PROVE  breaker' = breaker /\ streak' = streak
  BY <1>6 DEF Remove
<1>7. ASSUME Tick
      PROVE  breaker'[x] = Age(b) /\ streak'[x] = n
  BY <1>7 DEF Tick
<1>8. CASE UNCHANGED vars
  BY <1>8, <1>b DEF vars
<1>9. CASE \E r \in Request : Succeed(r)
  BY <1>9, <1>3, <1>a, BreakerAssumption, BreakerEffects
<1>10. CASE \E r \in Request : Fail(r)
  <2>1. CASE breaker'[x] = b /\ streak'[x] = n
    BY <2>1, <1>b
  <2>2. CASE /\ breaker'[x] = RecordFailure(b)
             /\ streak'[x] = IF n < FailThreshold THEN n + 1 ELSE n
    <3>1. CASE b.state = "CLOSED" /\ n + 1 < FailThreshold
      BY <3>1, <2>2, <1>a, BreakerAssumption, BreakerEffects
    <3>2. CASE b.state = "CLOSED" /\ n + 1 >= FailThreshold
      BY <3>2, <2>2, <1>a, BreakerAssumption, BreakerEffects
    <3>3. CASE b.state # "CLOSED"
      BY <3>3, <2>2, <1>a, BreakerAssumption, BreakerEffects
    <3> QED
      BY <3>1, <3>2, <3>3, <1>a, BreakerAssumption
  <2> QED
    BY <1>10, <1>4, <2>1, <2>2
<1>11. CASE Tick
  BY <1>11, <1>7, <1>a, BreakerEffects
<1>12. CASE \E r \in Request, e \in Endpoint : Scan(r, e)
  BY <1>12, <1>2, <1>a
<1> QED
  BY <1>1, <1>5, <1>6, <1>b, <1>8, <1>9, <1>10, <1>11, <1>12 DEF Next

(* In every reachable state a breaker is closed exactly when fewer than    *)
(* FailThreshold failures followed the last success, for any number of     *)
(* concurrent requests and any list changes.                               *)
THEOREM BreakerCorrect == Spec => []BreakerTracksStreak
BY TypingInvariant, StreakInit, StreakNext, PTL DEF Spec

-----------------------------------------------------------------------------
(***************************************************************************)
(* The read lock, seen from the two sides: a request that holds candidates *)
(* is picking, so Remove waits for it.                                     *)
(***************************************************************************)
OnlyPickingScans ==
  \A r \in Request :
    pc[r] # "picking" => toScan[r] = {} /\ candidates[r] = {}

LockInv == OnlyPickingScans /\ PickSeesTheList

\* No request holds candidates at first, so the lock invariant holds.
LEMMA LockInit == Init => LockInv
BY DEF Init, LockInv, OnlyPickingScans, PickSeesTheList

\* Every step respects the read lock that a picking request holds.
LEMMA LockNext == Typing /\ LockInv /\ [Next]_vars => LockInv'
<1> SUFFICES ASSUME Typing, LockInv, [Next]_vars
             PROVE  LockInv'
  OBVIOUS
<1> USE DEF LockInv, OnlyPickingScans, PickSeesTheList, Typing, TypeOK
<1>1. ASSUME NEW r \in Request, Begin(r)
      PROVE  LockInv'
  BY <1>1 DEF Begin, routerVars
<1>2. ASSUME NEW r \in Request, NEW e \in Endpoint, Scan(r, e)
      PROVE  LockInv'
  BY <1>2 DEF Scan, routerVars
<1>3. ASSUME NEW r \in Request, Choose(r)
      PROVE  LockInv'
  BY <1>3 DEF Choose, routerVars
<1>4. ASSUME NEW r \in Request, Refuse(r)
      PROVE  LockInv'
  BY <1>4 DEF Refuse, routerVars
<1>5. ASSUME NEW r \in Request, Leave(r)
      PROVE  LockInv'
  BY <1>5 DEF Leave, routerVars
<1>6. ASSUME NEW e \in Endpoint, Add(e)
      PROVE  LockInv'
  BY <1>6 DEF Add, requestVars
<1>7. ASSUME NEW t \in Tenant, NEW k \in KeyID, Remove(t, k)
      PROVE  LockInv'
  BY <1>7 DEF Remove, Unlocked, requestVars
<1>8. CASE Tick
  BY <1>8 DEF Tick, routerVars, requestVars
<1>9. CASE UNCHANGED vars
  BY <1>9 DEF vars, routerVars, requestVars
<1> QED
  BY <1>1, <1>2, <1>3, <1>4, <1>5, <1>6, <1>7, <1>8, <1>9
    DEF Next, Succeed, Fail, Abandon

(* No pick returns an endpoint that Remove took off the list before it.    *)
THEOREM RemovedIsNotPicked == Spec => []PickSeesTheList
<1>1. LockInv => PickSeesTheList
  BY DEF LockInv
<1> QED
  BY <1>1, TypingInvariant, LockInit, LockNext, PTL DEF Spec

-----------------------------------------------------------------------------
(***************************************************************************)
(* Between two calls a request remembers no endpoint, so that it can start *)
(* to ask for another tenant or model without carrying one along.          *)
(***************************************************************************)
OnlyCallingHasPicked ==
  \A r \in Request : pc[r] # "calling" => picked[r] = NoEndpoint

AskedMatches ==
  \A r \in Request :
    /\ \A e \in toScan[r] \cup candidates[r] : Matches(e, want[r])
    /\ picked[r] # NoEndpoint => Matches(picked[r], want[r])

IsolationInv == OnlyPickingScans /\ OnlyCallingHasPicked /\ AskedMatches

\* No request has an endpoint at first, so isolation holds.
LEMMA IsolationInit == Init => IsolationInv
BY DEF Init, IsolationInv, OnlyPickingScans, OnlyCallingHasPicked, AskedMatches

\* Every step keeps a request within the tenant and the model it asked for.
LEMMA IsolationNext == Typing /\ IsolationInv /\ [Next]_vars => IsolationInv'
<1> SUFFICES ASSUME Typing, IsolationInv, [Next]_vars
             PROVE  IsolationInv'
  OBVIOUS
<1> USE DEF IsolationInv, OnlyPickingScans, OnlyCallingHasPicked, AskedMatches,
            Typing, TypeOK
<1>1. ASSUME NEW r \in Request, Begin(r)
      PROVE  IsolationInv'
  BY <1>1 DEF Begin, routerVars
<1>2. ASSUME NEW r \in Request, NEW e \in Endpoint, Scan(r, e)
      PROVE  IsolationInv'
  BY <1>2 DEF Scan, routerVars
<1>3. ASSUME NEW r \in Request, Choose(r)
      PROVE  IsolationInv'
  BY <1>3 DEF Choose, routerVars
<1>4. ASSUME NEW r \in Request, Refuse(r)
      PROVE  IsolationInv'
  BY <1>4 DEF Refuse, routerVars
<1>5. ASSUME NEW r \in Request, Leave(r)
      PROVE  IsolationInv'
  BY <1>5 DEF Leave, routerVars
<1>6. ASSUME \/ \E e \in Endpoint : Add(e)
             \/ \E t \in Tenant, k \in KeyID : Remove(t, k)
             \/ Tick
             \/ UNCHANGED vars
      PROVE  IsolationInv'
  BY <1>6 DEF Add, Remove, Tick, vars, routerVars, requestVars
<1> QED
  BY <1>1, <1>2, <1>3, <1>4, <1>5, <1>6 DEF Next, Succeed, Fail, Abandon

\* Isolation holds in every reachable state.
LEMMA IsolationInvariant == Spec => []IsolationInv
BY TypingInvariant, IsolationInit, IsolationNext, PTL DEF Spec

(* No request is ever offered, or sent with, the upstream credentials of   *)
(* another tenant or another model, whatever is added and removed.         *)
THEOREM TenantsAreIsolated == Spec => []TenantIsolation
<1>1. Typing /\ IsolationInv => TenantIsolation
  BY DEF IsolationInv, AskedMatches, TenantIsolation, Matches
<1> QED
  BY <1>1, TypingInvariant, IsolationInvariant, PTL

-----------------------------------------------------------------------------
(***************************************************************************)
(* The refinement.  The breaker's methods, as the cooldown sees them.      *)
(***************************************************************************)
LEMMA CooldownEffects ==
  ASSUME NEW b \in Breaker
  PROVE  /\ CooldownOf(NewBreaker) = 0
         /\ CooldownOf(AfterAvailable(b)) = CooldownOf(b)
         /\ Available(b) => CooldownOf(b) = 0
         /\ CooldownOf(Age(b)) =
              IF CooldownOf(b) > 0 THEN CooldownOf(b) - 1 ELSE 0
         /\ b.state = "CLOSED" /\ b.failures + 1 < FailThreshold =>
              CooldownOf(RecordFailure(b)) = 0
         /\ b.state = "CLOSED" /\ b.failures + 1 >= FailThreshold =>
              CooldownOf(RecordFailure(b)) = ProbeInterval
         /\ CooldownOf(RecordFailure(b)) \in {CooldownOf(b), ProbeInterval}
<1> USE BreakerAssumption DEF Breaker, CircuitState, CooldownOf
<1>1. CooldownOf(NewBreaker) = 0
  BY DEF NewBreaker
<1>2. CooldownOf(AfterAvailable(b)) = CooldownOf(b)
  BY DEF AfterAvailable
<1>3. Available(b) => CooldownOf(b) = 0
  BY DEF Available
<1>4. CooldownOf(Age(b)) = IF CooldownOf(b) > 0 THEN CooldownOf(b) - 1 ELSE 0
  BY DEF Age
<1>5. /\ b.state = "CLOSED" /\ b.failures + 1 < FailThreshold =>
           CooldownOf(RecordFailure(b)) = 0
      /\ b.state = "CLOSED" /\ b.failures + 1 >= FailThreshold =>
           CooldownOf(RecordFailure(b)) = ProbeInterval
      /\ CooldownOf(RecordFailure(b)) \in {CooldownOf(b), ProbeInterval}
  BY DEF RecordFailure
<1> QED
  BY <1>1, <1>2, <1>3, <1>4, <1>5

UsersOf(e) == {r \in Request : e \in candidates[r] \/ picked[r] = e}

\* The router's initial states map to those of endpoint health.
LEMMA HealthInit == Init => Health!Init
<1> SUFFICES ASSUME Init
             PROVE  Health!Init
  OBVIOUS
<1>1. \A e \in Endpoint : CooldownOf(breaker[e]) = 0
  BY DEF Init, CooldownOf, NewBreaker
<1>2. \A e \in Endpoint : UsersOf(e) = {}
  BY RouterAssumption DEF Init, UsersOf
<1> QED
  BY <1>1, <1>2 DEF Init, Health!Init, UsersOf

(* The end of a call removes the request from the users of its endpoint. *)
LEMMA LeaveReleases ==
  ASSUME Typing, NEW r \in Request, Leave(r)
  PROVE  /\ r \in UsersOf(picked[r])
         /\ \A e \in Endpoint : UsersOf(e)' \subseteq UsersOf(e)
BY RouterAssumption, LeaveTyping DEF UsersOf, Leave, Typing, TypeOK

\* Every step of the router is a step of endpoint health or a stutter.
LEMMA HealthNext ==
  Typing /\ BreakerTracksStreak /\ [Next]_vars => [Health!Next]_(Health!vars)
<1> SUFFICES ASSUME Typing, BreakerTracksStreak, [Next]_vars
             PROVE  [Health!Next]_(Health!vars)
  OBVIOUS
<1> DEFINE cool == [e \in Endpoint |-> CooldownOf(breaker[e])]
           users == [e \in Endpoint |->
                      {r \in Request : e \in candidates[r] \/ picked[r] = e}]
<1>a. /\ \A e \in Endpoint : cool[e] = CooldownOf(breaker[e])
      /\ \A e \in Endpoint : cool'[e] = CooldownOf(breaker'[e])
      /\ \A e \in Endpoint : users[e] = UsersOf(e)
      /\ \A e \in Endpoint : users'[e] = UsersOf(e)'
      /\ users' \in [Endpoint -> SUBSET Request]
  BY DEF UsersOf
<1>b. \A e \in Endpoint : breaker[e] \in Breaker
  BY DEF Typing, TypeOK
<1>1. ASSUME UNCHANGED <<breaker, streak, candidates, picked>>
      PROVE  UNCHANGED Health!vars
  BY <1>1 DEF Health!vars
<1>2. ASSUME NEW r \in Request, NEW e \in Endpoint, Scan(r, e)
      PROVE  Health!AdmitOrRelease
  <2>1. \A x \in Endpoint : CooldownOf(breaker'[x]) = CooldownOf(breaker[x])
    <3>1. \A x \in Endpoint :
            breaker'[x] = breaker[x] \/ breaker'[x] = AfterAvailable(breaker[x])
      BY <1>2 DEF Scan, Typing, TypeOK
    <3> QED
      BY <3>1, <1>b, CooldownEffects
  <2>2. \A x \in Endpoint :
          CooldownOf(breaker[x]) = 0 \/ UsersOf(x)' \subseteq UsersOf(x)
    <3>1. Available(breaker[e]) => CooldownOf(breaker[e]) = 0
      BY <1>b, CooldownEffects
    <3>2. ~Available(breaker[e]) =>
            \A x \in Endpoint : UsersOf(x)' = UsersOf(x)
      BY <1>2 DEF Scan, UsersOf
    <3>3. \A x \in Endpoint \ {e} : UsersOf(x)' \subseteq UsersOf(x)
      BY <1>2 DEF Scan, UsersOf, Typing, TypeOK
    <3> QED
      BY <3>1, <3>2, <3>3
  <2>3. cool' = cool
    BY <2>1
  <2>4. streak' = streak
    BY <1>2 DEF Scan
  <2> QED
    BY <2>2, <2>3, <2>4, <1>a DEF Health!AdmitOrRelease, UsersOf
<1>3. ASSUME NEW r \in Request, Choose(r)
      PROVE  Health!AdmitOrRelease
  <2>1. \A x \in Endpoint : UsersOf(x)' \subseteq UsersOf(x)
    BY <1>3, RouterAssumption DEF Choose, UsersOf, Typing, TypeOK
  <2> QED
    BY <1>3, <2>1, <1>a DEF Choose, Health!AdmitOrRelease, UsersOf
<1>4. ASSUME NEW r \in Request, Abandon(r)
      PROVE  Health!AdmitOrRelease
  BY <1>4, LeaveReleases, <1>a DEF Abandon, Health!AdmitOrRelease, UsersOf
<1>5. ASSUME NEW r \in Request, Succeed(r)
      PROVE  Health!Next
  <2>1. PICK e \in Endpoint : e = picked[r] /\ Leave(r)
    BY <1>5, LeaveTyping DEF Succeed
  <2>2. cool' = [cool EXCEPT ![e] = 0]
    BY <1>5, <2>1, <1>b, CooldownEffects
      DEF Succeed, RecordSuccess, Typing, TypeOK
  <2>3. /\ users[e] # {}
        /\ \A x \in Endpoint : users'[x] \subseteq users[x]
    BY <2>1, LeaveReleases, <1>a
  <2>4. Health!Succeed(e)
    BY <1>5, <2>1, <2>2, <2>3, <1>a DEF Succeed, Health!Succeed, Health!OnlyRelease
  <2> QED
    BY <2>4 DEF Health!Next
<1>6. ASSUME NEW r \in Request, Fail(r)
      PROVE  Health!Next
  <2>1. PICK e \in Endpoint : e = picked[r] /\ Leave(r)
    BY <1>6, LeaveTyping DEF Fail
  <2> DEFINE b == breaker[e]
  <2>2. CooldownOf(RecordFailure(b)) \in Health!AfterFailure(e)
    <3>1. /\ b \in Breaker
          /\ b.failures \in Nat
          /\ streak[e] \in 0 .. FailThreshold
          /\ b.state = "CLOSED" <=> streak[e] < FailThreshold
          /\ b.state = "CLOSED" => b.failures = streak[e]
      BY <2>1, BreakerAssumption DEF Typing, TypeOK, BreakerTracksStreak, Breaker
    <3>2. CASE streak[e] + 1 < FailThreshold
      <4>1. CooldownOf(RecordFailure(b)) = 0
        BY <3>1, <3>2, CooldownEffects, BreakerAssumption
      <4> QED
        BY <4>1, <3>1, <3>2, BreakerAssumption
          DEF Health!AfterFailure, Health!Extended
    <3>3. CASE streak[e] + 1 = FailThreshold
      <4>1. CooldownOf(RecordFailure(b)) = ProbeInterval
        BY <3>1, <3>3, CooldownEffects, BreakerAssumption
      <4> QED
        BY <4>1, <3>1, <3>3, BreakerAssumption
          DEF Health!AfterFailure, Health!Extended
    <3>4. CASE streak[e] = FailThreshold
      <4>1. CooldownOf(RecordFailure(b)) \in {cool[e], ProbeInterval}
        BY <3>1, <2>1, <1>a, CooldownEffects
      <4>2. Health!AfterFailure(e) = {cool[e], ProbeInterval}
        BY <3>1, <3>4, BreakerAssumption
          DEF Health!AfterFailure, Health!Extended
      <4> QED
        BY <4>1, <4>2
    <3> QED
      BY <3>1, <3>2, <3>3, <3>4, BreakerAssumption
  <2>3. cool' = [cool EXCEPT ![e] = CooldownOf(RecordFailure(b))]
    BY <1>6, <2>1 DEF Fail, Typing, TypeOK
  <2>4. streak' = [streak EXCEPT ![e] = Health!Extended(@)]
    BY <1>6, <2>1 DEF Fail, Health!Extended
  <2>5. /\ users[e] # {}
        /\ \A x \in Endpoint : users'[x] \subseteq users[x]
    BY <2>1, LeaveReleases, <1>a
  <2>6. Health!Fail(e)
    BY <2>2, <2>3, <2>4, <2>5, <1>a DEF Health!Fail, Health!OnlyRelease
  <2> QED
    BY <2>6 DEF Health!Next
<1>7. ASSUME Tick
      PROVE  Health!Elapse
  <2>1. cool' = [e \in Endpoint |-> IF cool[e] > 0 THEN cool[e] - 1 ELSE 0]
    BY <1>7, <1>b, CooldownEffects DEF Tick
  <2> QED
    BY <1>7, <2>1 DEF Tick, requestVars, Health!Elapse
<1>8. ASSUME \/ \E r \in Request : Begin(r) \/ Refuse(r)
             \/ \E e \in Endpoint : Add(e)
             \/ \E t \in Tenant, k \in KeyID : Remove(t, k)
             \/ UNCHANGED vars
      PROVE  UNCHANGED <<breaker, streak, candidates, picked>>
  BY <1>8 DEF Begin, Refuse, Add, Remove, vars, requestVars
<1>9. CASE Next
  <2>1. CASE \E r \in Request : Begin(r) \/ Refuse(r)
    BY <2>1, <1>1, <1>8
  <2>2. CASE \E r \in Request, e \in Endpoint : Scan(r, e)
    BY <2>2, <1>2 DEF Health!Next
  <2>3. CASE \E r \in Request : Choose(r) \/ Abandon(r)
    BY <2>3, <1>3, <1>4 DEF Health!Next
  <2>4. CASE \E r \in Request : Succeed(r) \/ Fail(r)
    BY <2>4, <1>5, <1>6
  <2>5. CASE \/ \E e \in Endpoint : Add(e)
             \/ \E t \in Tenant, k \in KeyID : Remove(t, k)
    BY <2>5, <1>1, <1>8
  <2>6. CASE Tick
    BY <2>6, <1>7 DEF Health!Next
  <2> QED
    BY <1>9, <2>1, <2>2, <2>3, <2>4, <2>5, <2>6 DEF Next
<1>10. CASE UNCHANGED vars
  BY <1>10, <1>1, <1>8
<1> QED
  BY <1>9, <1>10

(* The router, with its half-open states, late results and torn picks,     *)
(* does only what EndpointHealth allows.                                   *)
THEOREM RouterImplementsHealth == Spec => HealthSpec
BY TypingInvariant, BreakerCorrect, HealthInit, HealthNext, PTL
  DEF Spec, HealthSpec, Health!Spec

-----------------------------------------------------------------------------
(***************************************************************************)
(* The table of provider keys and the router that follows it.  First what  *)
(* every handler and the page keep, whatever overlaps: the types, a dialog *)
(* and calls that name one label and the models of one provider, and rows  *)
(* whose primary keys keep their label for ever.                           *)
(***************************************************************************)
Pure(r) == \A m \in r.models : ProviderOf[m] = r.provider

DialogInv ==
  /\ ~form.open => form = Console!Closed
  /\ form.editing # None => form.label = form.editing
  /\ retyped \/ (Pure(form) /\ \A r \in list : Pure(r))

\* What a call sends: a whole row, or the part that an update changes.
BodyInv(k, l, b) ==
  /\ k # "delete" => b \in Console!Body /\ b.label = l
  /\ k = "create" => b \in Console!Row
  /\ k # "delete" => \/ retyped
                     \/ b.models = {} /\ b.provider = None
                     \/ b.provider \in Providers /\ b.models # {} /\ Pure(b)

CallInv(c) ==
  /\ call[c].label \in Labels
  /\ BodyInv(call[c].kind, call[c].label, call[c].body)
  /\ Console!Running(c) /\ call[c].kind = "update" =>
       /\ call[c].row \in Console!Row /\ call[c].row.label = call[c].label
       /\ call[c].body.models # {} => call[c].row.models = call[c].body.models
       /\ retyped \/ Pure(call[c].row)
  /\ call[c].phase = "found" => call[c].kind # "create"
  /\ call[c].phase = "removed" => call[c].kind = "update"

Active(c) == call[c].phase \notin {"unused", "over"}
CallsInv == \A c \in Console!Calls : Active(c) => CallInv(c)

Holds(c) == Console!Running(c) /\ call[c].kind # "create"

IdsInv ==
  /\ \A i \in Console!Ids : i >= nextId => rows[i] = None
  /\ \A c \in Console!Calls : Holds(c) =>
       /\ call[c].id \in Console!Ids /\ call[c].id < nextId
       /\ rows[call[c].id] # None => rows[call[c].id].label = call[c].label
  /\ \A c, d \in Console!Calls :
       Holds(c) /\ Holds(d) /\ call[c].id = call[d].id => call[c].label = call[d].label

TableInv ==
  /\ Console!TypeOK /\ DialogInv /\ CallsInv /\ IdsInv /\ Console!ModelsOfItsProvider
  /\ ~deleting => left = {}

(***************************************************************************)
(* Then what holds of a label that was not used or served twice: it has at *)
(* most one row and one handler, that handler knows how far table and      *)
(* router are apart, and without a handler they agree; while the tenant is *)
(* deleted it has no handler, and it leaves the router before its row goes.*)
(***************************************************************************)
Served(l) == {e \in served : e.label = l}
Meant(l)  == UNION {Console!EndpointsOf(rows[i]) : i \in Console!RowsOf(l)}
Due(l)    == IF l \in emptied THEN {} ELSE Meant(l)

Sought(c) == IF call[c].kind = "update" THEN call[c].row ELSE call[c].body

Knows(c) ==
  LET l == call[c].label
  IN  /\ call[c].phase = "found" =>
           Console!RowsOf(l) = {call[c].id}
      /\ call[c].phase \in {"written", "removed"} /\ call[c].kind # "delete" =>
           /\ Console!RowsOf(l) # {}
           /\ \A i \in Console!RowsOf(l) : rows[i] = Sought(c)
      /\ call[c].phase = "written" /\ call[c].kind = "delete" => Console!RowsOf(l) = {}
      /\ call[c].phase = "removed" \/ (call[c].phase = "written" /\ call[c].kind = "create")
           => Served(l) = {}

LabelInv(l) ==
  l \notin crossed =>
    /\ \A i, j \in Console!RowsOf(l) : i = j
    /\ \A c, d \in Console!Calls :
         Console!Running(c) /\ Console!Running(d) /\ call[c].label = l /\ call[d].label = l => c = d
    /\ \A c \in Console!Calls : Console!Running(c) /\ call[c].label = l => Knows(c)
    /\ ~Console!Busy(l) /\ ~deleting => Served(l) = Due(l)
    /\ deleting => ~Console!Busy(l) /\ (l \notin left => Served(l) = {})

Phases == {"unused", "sent", "found", "written", "removed", "done", "over"}

\* A step of a call changes its phase and nothing else.
LEMMA CallSteps ==
  ASSUME call \in [Console!Calls -> Console!Call], NEW c \in Console!Calls,
         NEW p \in Phases, Console!Step(c, p)
  PROVE  /\ call' \in [Console!Calls -> Console!Call]
         /\ call'[c].phase = p /\ call'[c].kind = call[c].kind
         /\ call'[c].label = call[c].label /\ call'[c].body = call[c].body
         /\ call'[c].id = call[c].id /\ call'[c].row = call[c].row
         /\ \A d \in Console!Calls \ {c} : call'[d] = call[d]
<1>1. call[c] \in Console!Call
  OBVIOUS
<1>2. [call[c] EXCEPT !.phase = p] \in Console!Call
  BY <1>1 DEF Console!Call, Phases
<1>3. call' = [call EXCEPT ![c] = [call[c] EXCEPT !.phase = p]]
  BY DEF Console!Step
<1>4. /\ call'[c] = [call[c] EXCEPT !.phase = p]
      /\ \A d \in Console!Calls \ {c} : call'[d] = call[d]
  BY <1>3
<1>5. call' \in [Console!Calls -> Console!Call]
  BY <1>2, <1>3
<1> QED
  BY <1>1, <1>4, <1>5 DEF Console!Call

\* A call that ends is neither running nor of any use.
LEMMA CallEnds ==
  ASSUME call \in [Console!Calls -> Console!Call], NEW c \in Console!Calls, Console!Ends(c)
  PROVE  /\ call' \in [Console!Calls -> Console!Call]
         /\ call'[c].phase = "over"
         /\ \A d \in Console!Calls \ {c} : call'[d] = call[d]
<1>1. Console!Gone \in Console!Call /\ Console!Gone.phase = "over"
  BY DEF Console!Gone, Console!Unused, Console!Call, Console!Kinds
<1>2. call' = [call EXCEPT ![c] = Console!Gone]
  BY DEF Console!Ends
<1> QED
  BY <1>1, <1>2

\* What a row is routed as has the types and the label of the row.
LEMMA RoutesTyping ==
  ASSUME NEW r \in Console!Row, NEW ms \in SUBSET Models
  PROVE  /\ Console!Routes(r, ms) \subseteq Console!Route
         /\ \A e \in Console!Routes(r, ms) : e.label = r.label
BY DEF Console!Routes, Console!Row, Console!Route

LEMMA EndpointTyping ==
  ASSUME NEW r \in Console!Row
  PROVE  /\ Console!EndpointsOf(r) \subseteq Console!Route
         /\ \A e \in Console!EndpointsOf(r) : e.label = r.label
<1>1. r.models \in SUBSET Models
  BY DEF Console!Row
<1> QED
  BY <1>1, RoutesTyping DEF Console!EndpointsOf

\* The calls keep what they say of themselves.
LEMMA CallsKeep ==
  ASSUME TableInv, UNCHANGED retyped,
         NEW c \in Console!Calls, NEW p \in Phases, Console!Step(c, p), Active(c),
         p = "found" => call[c].kind # "create",
         p = "removed" => call[c].kind = "update",
         call[c].kind = "create" \/ Console!Running(c)
  PROVE  call' \in [Console!Calls -> Console!Call] /\ CallsInv'
<1>1. call \in [Console!Calls -> Console!Call]
  BY DEF TableInv, Console!TypeOK
<1>2. /\ call' \in [Console!Calls -> Console!Call]
      /\ call'[c].phase = p /\ call'[c].kind = call[c].kind
      /\ call'[c].label = call[c].label /\ call'[c].body = call[c].body
      /\ call'[c].row = call[c].row
      /\ \A d \in Console!Calls \ {c} : call'[d] = call[d]
  BY <1>1, CallSteps
<1>3. CallInv(c) /\ \A d \in Console!Calls \ {c} : Active(d) => CallInv(d)
  BY DEF TableInv, CallsInv
<1>4. CallInv(c)'
  BY <1>2, <1>3 DEF CallInv, BodyInv, Pure, Console!Running
<1>5. ASSUME NEW d \in Console!Calls \ {c}, Active(d)' PROVE CallInv(d)'
  BY <1>2, <1>3, <1>5 DEF CallInv, BodyInv, Pure, Console!Running, Active
<1> QED
  BY <1>2, <1>4, <1>5 DEF CallsInv

\* A call that is not of a running handler may end as it likes.
LEMMA IdsKeep ==
  ASSUME TableInv, UNCHANGED <<rows, nextId>>,
         \A d \in Console!Calls : Console!Running(d)' =>
           Console!Running(d) /\ call'[d].kind = call[d].kind
             /\ call'[d].label = call[d].label /\ call'[d].id = call[d].id
  PROVE  IdsInv'
BY DEF TableInv, IdsInv, Holds

\* The dialog starts closed and the first row alone.
LEMMA TableInit == Console!Init => TableInv
<1> SUFFICES ASSUME Console!Init PROVE TableInv
  OBVIOUS
<1> USE ConsoleAssumption DEF Console!UpstreamAssumption
<1>1. PICK r \in Console!Row :
        /\ Pure(r)
        /\ rows = [i \in Console!Ids |-> IF i = 1 THEN r ELSE None]
        /\ served = Console!EndpointsOf(r) /\ list = {r}
  BY DEF Console!Init, Pure
<1>2. Console!Closed.provider \in Providers
  <2>1. r.provider \in Providers
    BY DEF Console!Row
  <2> QED
    BY <2>1 DEF Console!Closed
<1>3. /\ form = Console!Closed /\ form \in Console!Form /\ Pure(form) /\ form.editing = None
  BY <1>2 DEF Console!Init, Console!Closed, Console!Form, Pure
<1>4. /\ call \in [Console!Calls -> Console!Call]
      /\ \A c \in Console!Calls : call[c].phase = "unused"
  <2>1. Console!Unused \in Console!Call /\ Console!Unused.phase = "unused"
    BY DEF Console!Unused, Console!Call, Console!Kinds
  <2>2. call = [c \in Console!Calls |-> Console!Unused]
    BY DEF Console!Init
  <2> QED
    BY <2>1, <2>2
<1>5. /\ latest \in [Console!Kinds \ {"delete"} -> Console!Calls \cup {0}]
      /\ crossed = {} /\ emptied = {} /\ retyped = FALSE /\ deleting = FALSE /\ left = {}
      /\ nextId = 2 /\ nextId \in 1 .. (MaxRows + 1)
  BY DEF Console!Init
<1>6. Console!TypeOK
  BY <1>1, <1>3, <1>4, <1>5, EndpointTyping DEF Console!TypeOK
<1>7. \A i \in Console!Ids : rows[i] # None => i = 1 /\ rows[i] = r
  BY <1>1
<1>8. DialogInv /\ CallsInv /\ IdsInv /\ Console!ModelsOfItsProvider
  BY <1>1, <1>3, <1>4, <1>5, <1>7
    DEF DialogInv, CallsInv, Active, IdsInv, Holds, Console!Running,
        Console!ModelsOfItsProvider, Console!Live, Pure, Console!Ids
<1> QED
  BY <1>5, <1>6, <1>8 DEF TableInv

\* Whatever the page does, and whatever it sends, keeps the invariant.
LEMMA PageKeepsTable ==
  ASSUME TableInv, Console!Next, UNCHANGED <<Console!server, call, latest, retyped>>
  PROVE  TableInv'
<1> USE ConsoleAssumption DEF Console!UpstreamAssumption
<1>a. UNCHANGED <<rows, nextId, served, deleting, left, crossed, emptied>>
  BY DEF Console!server
<1>1. IdsInv' /\ CallsInv' /\ Console!ModelsOfItsProvider'
  BY <1>a DEF TableInv, IdsInv, Holds, CallsInv, CallInv, BodyInv, Active, Pure,
         Console!Running, Console!ModelsOfItsProvider, Console!Live
<1> SUFFICES form' \in Console!Form /\ list' \subseteq Console!Row /\ DialogInv'
  BY <1>a, <1>1 DEF TableInv, Console!TypeOK
<1> USE DEF TableInv
<1>0. /\ form \in Console!Form /\ list \subseteq Console!Row
      /\ rows \in [Console!Ids -> Console!Row \cup {None}]
  BY DEF Console!TypeOK
<1>00. Console!Closed \in Console!Form /\ Pure(Console!Closed) /\ Console!Closed.editing = None
  <2>1. Console!Closed.provider \in Providers
    BY <1>0 DEF Console!Closed, Console!Form
  <2> QED
    BY <2>1 DEF Console!Closed, Console!Form, Pure
<1>2. CASE form' = form /\ list' = list
  BY <1>0, <1>2 DEF DialogInv, Pure
<1>3. CASE form' = Console!Closed /\ list' = list
  BY <1>0, <1>00, <1>3 DEF DialogInv, Pure
<1>4. CASE Console!ListShown
  BY <1>0, <1>4
    DEF Console!ListShown, DialogInv, Pure, Console!ModelsOfItsProvider, Console!Live
<1>5. CASE Console!AddProviderKey
  <2>1. form' = [form EXCEPT !.open = TRUE] /\ list' = list
    BY <1>5 DEF Console!AddProviderKey, Console!Shows
  <2>2. /\ form' \in Console!Form /\ form'.open = TRUE /\ form'.editing = form.editing
        /\ form'.label = form.label /\ form'.models = form.models /\ form'.provider = form.provider
    BY <1>0, <2>1 DEF Console!Form
  <2> QED
    BY <1>0, <2>1, <2>2 DEF DialogInv, Pure
<1>6. CASE Console!HandleEdit
  <2>1. PICK r \in list : form' = Console!FormOf(r) /\ list' = list
    BY <1>6 DEF Console!HandleEdit, Console!Shows
  <2>2. r \in Console!Row /\ (retyped \/ Pure(r))
    BY <1>0 DEF DialogInv
  <2>3. /\ form' \in Console!Form /\ form'.open = TRUE /\ form'.editing = r.label
        /\ form'.label = r.label /\ form'.models = r.models /\ form'.provider = r.provider
    BY <2>1, <2>2 DEF Console!FormOf, Console!Form, Console!Row
  <2> QED
    BY <1>0, <2>1, <2>2, <2>3 DEF DialogInv, Pure
<1>7. ASSUME NEW l \in Labels, Console!ChooseLabel(l)
      PROVE  form' \in Console!Form /\ list' \subseteq Console!Row /\ DialogInv'
  <2>1. /\ form.open /\ list' = list /\ form' \in Console!Form
        /\ form'.open = form.open /\ form'.editing = form.editing /\ form'.models = form.models
        /\ form'.provider = form.provider /\ form.editing = None
    BY <1>0, <1>7 DEF Console!ChooseLabel, Console!Shows, Console!Form
  <2> QED
    BY <1>0, <2>1 DEF DialogInv, Pure
<1>8. ASSUME NEW p \in Providers, Console!HandleProviderChange(p)
      PROVE  form' \in Console!Form /\ list' \subseteq Console!Row /\ DialogInv'
  <2>1. form.open /\ list' = list /\ form' = [[form EXCEPT !.provider = p] EXCEPT !.models = {}]
    BY <1>0, <1>8 DEF Console!HandleProviderChange, Console!Shows, Console!Form
  <2>2. /\ form' \in Console!Form /\ form'.open = form.open /\ form'.editing = form.editing
        /\ form'.label = form.label /\ form'.models = {}
    BY <1>0, <2>1 DEF Console!Form
  <2> QED
    BY <1>0, <2>1, <2>2 DEF DialogInv, Pure
<1>9. ASSUME NEW m \in Models, Console!ToggleModel(m)
      PROVE  form' \in Console!Form /\ list' \subseteq Console!Row /\ DialogInv'
  <2> DEFINE s == IF m \in form.models THEN form.models \ {m} ELSE form.models \cup {m}
  <2>1. form.open /\ list' = list /\ form' = [form EXCEPT !.models = s]
    BY <1>9 DEF Console!ToggleModel, Console!Shows
  <2>2. s \in SUBSET Models /\ (retyped \/ \A n \in s : ProviderOf[n] = form.provider)
    BY <1>0, <1>9 DEF Console!ToggleModel, Console!Offered, Console!Form, DialogInv, Pure
  <2> HIDE DEF s
  <2>3. /\ form' \in Console!Form /\ form'.open = form.open /\ form'.editing = form.editing
        /\ form'.label = form.label /\ form'.models = s /\ form'.provider = form.provider
    BY <1>0, <2>1, <2>2 DEF Console!Form
  <2> QED
    BY <1>0, <2>1, <2>2, <2>3 DEF DialogInv, Pure
<1>10. CASE Console!ResetForm
  BY <1>3, <1>10 DEF Console!ResetForm, Console!Shows
<1>11. ASSUME NEW c \in Console!Calls,
              \/ Console!CreateInserts(c) \/ Console!CreateAdds(c) \/ Console!Finds(c)
              \/ Console!NotFound(c) \/ Console!UpdateSaves(c) \/ Console!DeleteDeletes(c)
              \/ Console!Removes(c) \/ Console!UpdateAdds(c) \/ Console!HandleSubmit(c)
              \/ Console!HandleDelete(c) \/ Console!UpdatePartly(c) \/ Console!Lost(c)
              \/ Console!Answered(c)
       PROVE  \/ form' = form /\ list' = list
              \/ form' = Console!Closed /\ list' = list
  BY <1>11 DEF Console!CreateInserts, Console!CreateAdds, Console!Finds, Console!NotFound,
     Console!UpdateSaves, Console!DeleteDeletes, Console!Removes, Console!UpdateAdds,
     Console!HandleSubmit, Console!HandleDelete, Console!UpdatePartly, Console!Lost,
     Console!Answered, Console!Submit, Console!Send, Console!page
<1>12. CASE \/ Console!Restart \/ Console!TenantFinds \/ Console!TenantDeletes
            \/ \E l \in Labels : Console!TenantRemoves(l)
  BY <1>2, <1>12 DEF Console!Restart, Console!TenantFinds, Console!TenantDeletes,
     Console!TenantRemoves, Console!page
<1> QED
  BY <1>2, <1>3, <1>4, <1>5, <1>6, <1>7, <1>8, <1>9, <1>10, <1>11, <1>12 DEF Console!Next

\* That a set of numbers has a least one, from its being well-founded.
LEMMA LeastNumber ==
  ASSUME NEW S \in SUBSET Nat, S # {}
  PROVE  \E n \in S : \A m \in S : n <= m
<1> DEFINE R == OpToRel(<, Nat)
<1>1. IsWellFoundedOn(R, Nat)
  BY NatLessThanWellFounded
<1>2. \A x, y \in Nat : <<y, x>> \in R <=> y < x
  BY DEF OpToRel
<1> HIDE DEF R
<1>3. PICK x \in S : \A y \in S : ~ (<<y, x>> \in R)
  BY <1>1, WFMin
<1>4. \A y \in S : ~ (y < x)
  BY <1>2, <1>3
<1>5. \A y \in S : x <= y
  BY <1>4
<1> QED
  BY <1>5

\* The row that an update or a deletion finds has the label it looks for.
LEMMA FirstIsOfLabel ==
  ASSUME NEW l, Console!RowsOf(l) # {}
  PROVE  Console!First(l) \in Console!RowsOf(l)
<1> DEFINE S == Console!RowsOf(l)
<1>1. S \in SUBSET Nat
  BY ConsoleAssumption
    DEF Console!RowsOf, Console!Live, Console!Ids, Console!UpstreamAssumption
<1> HIDE DEF S
<1>2. S # {} => \E n \in S : \A m \in S : n <= m
  BY <1>1, LeastNumber
<1> QED
  BY <1>2 DEF Console!First, S

\* A call that is sent names a label, and a row of the models of one
\* provider or the part of it that an update changes.
LEMMA SendingKeepsTable ==
  ASSUME TableInv, NEW c \in Console!Calls,
         Console!HandleSubmit(c) \/ Console!HandleDelete(c) \/ Console!UpdatePartly(c)
  PROVE  TableInv'
<1> USE ConsoleAssumption DEF Console!UpstreamAssumption, TableInv
<1>0. /\ form \in Console!Form /\ list \subseteq Console!Row
      /\ call \in [Console!Calls -> Console!Call] /\ retyped \in BOOLEAN
      /\ latest \in [Console!Kinds \ {"delete"} -> Console!Calls \cup {0}]
  BY DEF Console!TypeOK
<1>1. PICK k \in Console!Kinds, l \in Labels, b \in Console!Body \cup {None} :
        /\ Console!Send(c, k, l, b) /\ BodyInv(k, l, b)'
        /\ retyped' \in BOOLEAN /\ (retyped => retyped')
        /\ latest' \in [Console!Kinds \ {"delete"} -> Console!Calls \cup {0}]
  <2>1. CASE Console!HandleSubmit(c)
    <3>1. /\ form.label \in Labels /\ form.models # {} /\ UNCHANGED retyped
          /\ form.editing # None => form.editing = form.label
      BY <1>0, <2>1 DEF Console!HandleSubmit, Console!SubmitEnabled, Console!Form, DialogInv
    <3>2. PICK k \in {"update", "create"}, l \in Labels, b \in Console!Row :
            /\ b = [label |-> form.label, provider |-> form.provider, models |-> form.models]
            /\ l = form.label /\ Console!Submit(c, k, l, b)
      BY <1>0, <2>1, <3>1 DEF Console!HandleSubmit, Console!Row, Console!Form
    <3>3. b.label = l /\ b.provider = form.provider /\ b.models = form.models
      BY <3>2
    <3>4. b \in Console!Body /\ b.provider \in Providers /\ (retyped \/ Pure(b))
      BY <1>0, <3>2, <3>3 DEF Console!Body, Console!Row, Pure, DialogInv
    <3>5. BodyInv(k, l, b)'
      BY <3>1, <3>2, <3>3, <3>4 DEF BodyInv, Pure
    <3>6. /\ Console!Send(c, k, l, b) /\ k \in Console!Kinds
          /\ latest' \in [Console!Kinds \ {"delete"} -> Console!Calls \cup {0}]
      <4>1. k \in Console!Kinds \ {"delete"} /\ latest' = [latest EXCEPT ![k] = c]
        BY <3>2 DEF Console!Submit, Console!Kinds
      <4> QED
        BY <1>0, <3>2, <4>1 DEF Console!Submit
    <3> QED
      BY <1>0, <3>1, <3>4, <3>5, <3>6
  <2>2. CASE Console!HandleDelete(c)
    <3>1. PICK r \in list : Console!Send(c, "delete", r.label, None)
      BY <2>2 DEF Console!HandleDelete
    <3>2. r.label \in Labels /\ UNCHANGED <<latest, retyped>>
      BY <1>0, <2>2 DEF Console!Row, Console!HandleDelete
    <3> QED
      BY <1>0, <3>1, <3>2 DEF Console!Kinds, BodyInv
  <2>3. CASE Console!UpdatePartly(c)
    <3>1. PICK l \in Labels, p \in Providers \cup {None} :
            /\ Console!Send(c, "update", l, [label |-> l, provider |-> p, models |-> {}])
            /\ retyped' = (retyped \/ p # None) /\ UNCHANGED latest
      BY <2>3 DEF Console!UpdatePartly
    <3> DEFINE b == [label |-> l, provider |-> p, models |-> {}]
    <3>2. b \in Console!Body /\ b.label = l /\ b.provider = p /\ b.models = {}
      BY DEF Console!Body
    <3> HIDE DEF b
    <3>3. BodyInv("update", l, b)'
      BY <3>1, <3>2 DEF BodyInv
    <3>4. retyped' \in BOOLEAN /\ (retyped => retyped')
      BY <3>1
    <3>5. Console!Send(c, "update", l, b)
      BY <3>1 DEF b
    <3> QED
      BY <1>0, <3>1, <3>2, <3>3, <3>4, <3>5 DEF Console!Kinds
  <2> QED
    BY <2>1, <2>2, <2>3
<1> DEFINE n == [kind |-> k, phase |-> "sent", label |-> l, body |-> b, id |-> 0, row |-> None]
<1>2. /\ n \in Console!Call /\ n.kind = k /\ n.phase = "sent" /\ n.label = l /\ n.body = b
  BY DEF Console!Call
<1>3. /\ call' = [call EXCEPT ![c] = n]
      /\ UNCHANGED <<rows, nextId, served, deleting, left, crossed, emptied, list, form>>
  BY <1>1 DEF Console!Send, Console!server
<1> HIDE DEF n
<1>4. /\ call' \in [Console!Calls -> Console!Call] /\ call'[c] = n
      /\ \A d \in Console!Calls \ {c} : call'[d] = call[d]
  BY <1>0, <1>2, <1>3
<1>5. CallsInv'
  <2>1. CallInv(c)'
    BY <1>1, <1>2, <1>4 DEF CallInv, Console!Running
  <2>2. ASSUME NEW d \in Console!Calls \ {c}, Active(d)' PROVE CallInv(d)'
    <3>1. CallInv(d) /\ call'[d] = call[d]
      BY <1>4, <2>2 DEF CallsInv, Active
    <3> QED
      BY <1>1, <3>1 DEF CallInv, BodyInv, Console!Running, Pure
  <2> QED
    BY <2>1, <2>2 DEF CallsInv
<1>6. IdsInv'
  <2>1. \A d \in Console!Calls : Console!Running(d)' =>
           Console!Running(d) /\ call'[d].kind = call[d].kind
             /\ call'[d].label = call[d].label /\ call'[d].id = call[d].id
    BY <1>2, <1>4 DEF Console!Running
  <2> QED
    BY <1>3, <2>1, IdsKeep
<1>7. DialogInv' /\ Console!ModelsOfItsProvider'
  BY <1>1, <1>3 DEF DialogInv, Pure, Console!Closed, Console!ModelsOfItsProvider, Console!Live
<1>8. Console!TypeOK'
  BY <1>1, <1>3, <1>4 DEF Console!TypeOK
<1> QED
  BY <1>3, <1>5, <1>6, <1>7, <1>8

\* A call that ends leaves the table alone.
LEMMA EndingKeepsTable ==
  ASSUME TableInv, NEW c \in Console!Calls,
         Console!NotFound(c) \/ Console!Answered(c) \/ Console!Lost(c)
  PROVE  TableInv'
<1> USE ConsoleAssumption DEF Console!UpstreamAssumption, TableInv
<1>0. /\ form \in Console!Form /\ call \in [Console!Calls -> Console!Call]
  BY DEF Console!TypeOK
<1>1. /\ Console!Ends(c)
      /\ UNCHANGED <<rows, nextId, served, deleting, left, crossed, emptied, list, latest, retyped>>
      /\ form' = form \/ form' = Console!Closed
  BY DEF Console!NotFound, Console!Answered, Console!Lost, Console!server, Console!page
<1>2. /\ call' \in [Console!Calls -> Console!Call] /\ call'[c].phase = "over"
      /\ \A d \in Console!Calls \ {c} : call'[d] = call[d]
  BY <1>0, <1>1, CallEnds
<1>3. IdsInv'
  <2>1. \A d \in Console!Calls : Console!Running(d)' =>
           Console!Running(d) /\ call'[d].kind = call[d].kind
             /\ call'[d].label = call[d].label /\ call'[d].id = call[d].id
    BY <1>2 DEF Console!Running
  <2> QED
    BY <1>1, <2>1, IdsKeep
<1>4. Console!Closed \in Console!Form /\ Pure(Console!Closed) /\ Console!Closed.editing = None
  <2>1. Console!Closed.provider \in Providers
    BY <1>0 DEF Console!Closed, Console!Form
  <2> QED
    BY <2>1 DEF Console!Closed, Console!Form, Pure
<1>5. DialogInv' /\ form' \in Console!Form /\ Console!ModelsOfItsProvider'
  BY <1>0, <1>1, <1>4 DEF DialogInv, Pure, Console!ModelsOfItsProvider, Console!Live
<1>6. CallsInv'
  <2> SUFFICES ASSUME NEW d \in Console!Calls, Active(d)' PROVE CallInv(d)'
    BY DEF CallsInv
  <2>1. d # c /\ call'[d] = call[d] /\ CallInv(d)
    BY <1>2 DEF Active, CallsInv
  <2> QED
    BY <1>1, <2>1 DEF CallInv, BodyInv, Console!Running, Pure
<1>7. Console!TypeOK'
  BY <1>1, <1>2, <1>5 DEF Console!TypeOK
<1> QED
  BY <1>1, <1>3, <1>5, <1>6, <1>7

LEMMA RowIsNotNone == \A r \in Console!Row : r # None
BY ConsoleAssumption DEF Console!UpstreamAssumption

\* What an update makes of the row it found.
LEMMA MergedIsRow ==
  ASSUME NEW r \in Console!Row, NEW b \in Console!Body, NEW l, BodyInv("update", l, b),
         retyped \/ Pure(r)
  PROVE  LET m == Console!Merged(r, b)
         IN  /\ m \in Console!Row /\ m.label = r.label /\ (retyped \/ Pure(m))
             /\ b.models # {} => m.models = b.models
<1> DEFINE m == Console!Merged(r, b)
<1>1. /\ m.label = r.label
      /\ m.provider = (IF b.provider = None THEN r.provider ELSE b.provider)
      /\ m.models = (IF b.models = {} THEN r.models ELSE b.models)
      /\ m = [label |-> m.label, provider |-> m.provider, models |-> m.models]
  BY DEF Console!Merged
<1>2. /\ r.label \in Labels /\ r.provider \in Providers /\ r.models \in SUBSET Models
      /\ b.provider \in Providers \cup {None} /\ b.models \in SUBSET Models
  BY DEF Console!Row, Console!Body
<1> HIDE DEF m
<1>3. m.label \in Labels /\ m.provider \in Providers /\ m.models \in SUBSET Models
  BY <1>1, <1>2
<1>4. m \in Console!Row
  BY <1>1, <1>3 DEF Console!Row
<1>5. retyped \/ Pure(m)
  <2>1. CASE retyped
    BY <2>1
  <2>2. CASE b.models = {} /\ b.provider = None
    BY <1>1, <2>2 DEF Pure
  <2>3. CASE b.provider \in Providers /\ b.models # {} /\ Pure(b)
    <3>1. b.provider # None
      BY <2>3, ConsoleAssumption DEF Console!UpstreamAssumption
    <3> QED
      BY <1>1, <2>3, <3>1 DEF Pure
  <2> QED
    BY <2>1, <2>2, <2>3 DEF BodyInv
<1> QED
  BY <1>1, <1>4, <1>5 DEF m

\* What a handler does of the table and the router keeps the invariant.
LEMMA HandlingKeepsTable ==
  ASSUME TableInv, NEW c \in Console!Calls,
         \/ Console!CreateInserts(c) \/ Console!CreateAdds(c) \/ Console!Finds(c)
         \/ Console!UpdateSaves(c) \/ Console!DeleteDeletes(c) \/ Console!Removes(c)
         \/ Console!UpdateAdds(c)
  PROVE  TableInv'
<1> USE ConsoleAssumption DEF Console!UpstreamAssumption, TableInv
<1>0. /\ rows \in [Console!Ids -> Console!Row \cup {None}] /\ nextId \in 1 .. (MaxRows + 1)
      /\ served \subseteq Console!Route /\ crossed \subseteq Labels /\ emptied \subseteq Labels
      /\ call \in [Console!Calls -> Console!Call] /\ call[c] \in Console!Call
      /\ MaxRows \in Nat
  BY DEF Console!TypeOK
<1>1. UNCHANGED <<list, form, latest, deleting, left, retyped>>
  BY DEF Console!CreateInserts, Console!CreateAdds, Console!Finds, Console!UpdateSaves,
         Console!DeleteDeletes, Console!Removes, Console!UpdateAdds, Console!page
<1>a. Active(c) /\ CallInv(c) /\ call[c].label \in Labels
  BY DEF CallsInv, CallInv, Active, Console!CreateInserts,
     Console!CreateAdds, Console!Finds, Console!UpdateSaves, Console!DeleteDeletes,
     Console!Removes, Console!UpdateAdds
<1>2. DialogInv' /\ Active(c) /\ CallInv(c) /\ call[c].label \in Labels /\ emptied' \subseteq Labels
  <2>1. DialogInv'
    BY <1>1 DEF DialogInv, Pure, Console!Closed
  <2>2. emptied' \subseteq Labels
    BY <1>0, <1>a DEF Console!CreateInserts, Console!CreateAdds, Console!Finds,
       Console!UpdateSaves, Console!DeleteDeletes, Console!Removes, Console!UpdateAdds
  <2> QED
    BY <1>a, <2>1, <2>2
<1>3. ASSUME rows' \in [Console!Ids -> Console!Row \cup {None}], nextId' \in 1 .. (MaxRows + 1),
             served' \subseteq Console!Route, crossed' \subseteq Labels,
             call' \in [Console!Calls -> Console!Call], CallsInv', IdsInv',
             Console!ModelsOfItsProvider'
      PROVE  TableInv'
  BY <1>1, <1>2, <1>3 DEF Console!TypeOK
<1>4. ASSUME UNCHANGED rows PROVE Console!ModelsOfItsProvider'
  BY <1>1, <1>4 DEF Console!ModelsOfItsProvider, Console!Live
<1>5. ASSUME NEW p \in Phases, Console!Step(c, p),
             p = "found" => call[c].kind # "create",
             p = "removed" => call[c].kind = "update",
             call[c].kind = "create" \/ Console!Running(c)
      PROVE  /\ call' \in [Console!Calls -> Console!Call] /\ CallsInv'
             /\ call'[c].phase = p /\ call'[c].kind = call[c].kind
             /\ call'[c].label = call[c].label /\ call'[c].body = call[c].body
             /\ call'[c].id = call[c].id
             /\ \A d \in Console!Calls \ {c} : call'[d] = call[d]
  BY <1>0, <1>1, <1>2, <1>5, CallsKeep, CallSteps
<1>6. CASE Console!CreateInserts(c)
  <2>1. /\ call[c].kind = "create" /\ call[c].phase = "sent" /\ nextId \in Console!Ids
        /\ rows' = [rows EXCEPT ![nextId] = call[c].body] /\ nextId' = nextId + 1
        /\ Console!Step(c, "written") /\ served' = served /\ crossed' \subseteq Labels
    BY <1>0, <1>2, <1>6 DEF Console!CreateInserts, Console!Cross
  <2>2. call[c].body \in Console!Row /\ (retyped \/ Pure(call[c].body))
    BY <1>2, <2>1 DEF CallInv, BodyInv, Pure
  <2>3. /\ rows' \in [Console!Ids -> Console!Row \cup {None}]
        /\ nextId' \in 1 .. (MaxRows + 1)
    BY <1>0, <2>1, <2>2 DEF Console!Ids
  <2>4. /\ call' \in [Console!Calls -> Console!Call] /\ CallsInv'
        /\ call'[c].kind = "create"
        /\ \A d \in Console!Calls \ {c} : call'[d] = call[d]
    BY <1>5, <2>1 DEF Phases
  <2>5. IdsInv'
    <3>1. \A d \in Console!Calls : Holds(d)' => d # c /\ Holds(d) /\ call'[d] = call[d]
      BY <2>4 DEF Holds, Console!Running
    <3>2. \A i \in Console!Ids : i >= nextId' => rows'[i] = None
      BY <1>0, <2>1 DEF IdsInv, Console!Ids
    <3>3. ASSUME NEW d \in Console!Calls, Holds(d)'
          PROVE  /\ call'[d].id \in Console!Ids /\ call'[d].id < nextId'
                 /\ rows'[call'[d].id] # None => rows'[call'[d].id].label = call'[d].label
      <4>1. /\ call'[d] = call[d] /\ call[d].id \in Console!Ids /\ call[d].id < nextId
            /\ rows[call[d].id] # None => rows[call[d].id].label = call[d].label
        BY <3>1, <3>3 DEF IdsInv
      <4>2. call[d].id # nextId /\ call[d].id < nextId'
        BY <1>0, <2>1, <4>1 DEF Console!Ids
      <4>3. rows'[call[d].id] = rows[call[d].id]
        BY <1>0, <2>1, <4>1, <4>2
      <4> QED
        BY <4>1, <4>2, <4>3
    <3>4. \A d, e \in Console!Calls :
            Holds(d)' /\ Holds(e)' /\ call'[d].id = call'[e].id => call'[d].label = call'[e].label
      BY <3>1 DEF IdsInv
    <3> QED
      BY <3>2, <3>3, <3>4 DEF IdsInv
  <2>6. Console!ModelsOfItsProvider'
    BY <1>0, <1>1, <2>1, <2>2 DEF Console!ModelsOfItsProvider, Console!Live, Pure
  <2> QED
    BY <1>0, <1>3, <2>1, <2>3, <2>4, <2>5, <2>6
<1>7. CASE Console!CreateAdds(c) \/ Console!Removes(c) \/ Console!UpdateAdds(c)
  <2>1. PICK p \in Phases :
          /\ Console!Step(c, p)
          /\ p = "done" \/ (p = "removed" /\ call[c].kind = "update")
    BY <1>7 DEF Console!CreateAdds, Console!Removes, Console!UpdateAdds, Phases
  <2>2. /\ UNCHANGED <<rows, nextId, crossed>> /\ Console!Running(c)
    BY <1>7 DEF Console!CreateAdds, Console!Removes, Console!UpdateAdds, Console!Running
  <2>3. served' \subseteq Console!Route
    <3>1. CASE Console!Removes(c)
      BY <1>0, <3>1 DEF Console!Removes, Console!Remove
    <3>2. CASE Console!CreateAdds(c)
      <4>1. call[c].body \in Console!Row
        BY <1>2, <3>2 DEF Console!CreateAdds, CallInv, BodyInv
      <4> QED
        BY <1>0, <3>2, <4>1, EndpointTyping DEF Console!CreateAdds, Console!Add
    <3>3. CASE Console!UpdateAdds(c)
      <4>1. call[c].row \in Console!Row /\ call[c].body.models \in SUBSET Models
        BY <1>2, <2>2, <3>3 DEF Console!UpdateAdds, CallInv, BodyInv, Console!Body
      <4> QED
        BY <1>0, <3>3, <4>1, RoutesTyping DEF Console!UpdateAdds
    <3> QED
      BY <1>7, <3>1, <3>2, <3>3
  <2>4. /\ call' \in [Console!Calls -> Console!Call] /\ CallsInv'
        /\ call'[c].kind = call[c].kind /\ call'[c].label = call[c].label
        /\ call'[c].id = call[c].id /\ \A d \in Console!Calls \ {c} : call'[d] = call[d]
    BY <1>5, <2>1, <2>2
  <2>5. IdsInv'
    <3>1. \A d \in Console!Calls : Console!Running(d)' =>
             Console!Running(d) /\ call'[d].kind = call[d].kind
               /\ call'[d].label = call[d].label /\ call'[d].id = call[d].id
      BY <2>2, <2>4 DEF Console!Running
    <3> QED
      BY <2>2, <3>1, IdsKeep
  <2> QED
    BY <1>0, <1>3, <1>4, <2>2, <2>3, <2>4, <2>5
<1>8. CASE Console!Finds(c)
  <2> DEFINE l == call[c].label
             f == Console!First(l)
             r == IF call[c].kind = "update" THEN Console!Merged(rows[f], call[c].body) ELSE None
             n == [[[call[c] EXCEPT !.phase = "found"] EXCEPT !.id = f] EXCEPT !.row = r]
  <2>1. /\ call[c].kind # "create" /\ call[c].phase = "sent" /\ Console!RowsOf(l) # {}
        /\ call' = [call EXCEPT ![c] = n]
        /\ UNCHANGED <<rows, nextId, served>> /\ crossed' \subseteq Labels
    BY <1>0, <1>2, <1>8 DEF Console!Finds, Console!Cross
  <2>2. f \in Console!RowsOf(l)
    BY <2>1, FirstIsOfLabel
  <2>3. /\ f \in Console!Ids /\ rows[f] \in Console!Row /\ rows[f].label = l
        /\ retyped \/ Pure(rows[f])
    BY <1>0, <2>2 DEF Console!RowsOf, Console!Live, Console!ModelsOfItsProvider, Pure
  <2>4. f < nextId
    BY <1>0, <2>3 DEF IdsInv, Console!Ids
  <2>5. /\ r \in Console!Row \cup {None}
        /\ call[c].kind = "update" =>
             /\ r \in Console!Row /\ r.label = l /\ (retyped \/ Pure(r))
             /\ call[c].body.models # {} => r.models = call[c].body.models
    <3>1. CASE call[c].kind = "update"
      <4>1. /\ r = Console!Merged(rows[f], call[c].body) /\ call[c].body \in Console!Body
            /\ BodyInv("update", l, call[c].body)
        BY <1>2, <3>1 DEF CallInv, BodyInv
      <4> HIDE DEF f, r
      <4> QED
        BY <2>3, <3>1, <4>1, MergedIsRow
    <3>2. CASE call[c].kind # "update"
      BY <3>2
    <3> QED
      BY <3>1, <3>2
  <2> HIDE DEF f, r
  <2>6. /\ n \in Console!Call /\ n.phase = "found" /\ n.kind = call[c].kind /\ n.label = l
        /\ n.body = call[c].body /\ n.id = f /\ n.row = r
    BY <1>0, <2>3, <2>5 DEF Console!Call
  <2> HIDE DEF n
  <2>7. /\ call' \in [Console!Calls -> Console!Call] /\ call'[c] = n
        /\ \A d \in Console!Calls \ {c} : call'[d] = call[d]
    BY <1>0, <2>1, <2>6
  <2>8. CallsInv'
    <3>1. CallInv(c)'
      BY <1>1, <1>2, <2>1, <2>5, <2>6, <2>7 DEF CallInv, BodyInv, Pure
    <3>2. ASSUME NEW d \in Console!Calls \ {c}, Active(d)' PROVE CallInv(d)'
      <4>1. CallInv(d) /\ call'[d] = call[d]
        BY <2>7, <3>2 DEF CallsInv, Active
      <4> QED
        BY <1>1, <4>1 DEF CallInv, BodyInv, Console!Running, Pure
    <3> QED
      BY <3>1, <3>2 DEF CallsInv
  <2>9. IdsInv'
    <3>1. \A d \in Console!Calls \ {c} : Holds(d)' => Holds(d) /\ call'[d] = call[d]
      BY <2>7 DEF Holds, Console!Running
    <3>2. \A d \in Console!Calls \ {c} : Holds(d)' /\ call'[d].id = f => call'[d].label = l
      BY <2>3, <3>1, RowIsNotNone DEF IdsInv
    <3> QED
      BY <2>1, <2>3, <2>4, <2>6, <2>7, <3>1, <3>2 DEF IdsInv
  <2> QED
    BY <1>0, <1>3, <1>4, <2>1, <2>7, <2>8, <2>9
<1>9. CASE Console!UpdateSaves(c) \/ Console!DeleteDeletes(c)
  <2>1. PICK b \in Console!Row \cup {None} :
          /\ rows' = [rows EXCEPT ![call[c].id] = b]
          /\ b # None => b.label = call[c].label /\ (retyped \/ Pure(b))
    BY <1>2, <1>9 DEF Console!UpdateSaves, Console!DeleteDeletes, CallInv, Console!Running
  <2>2. /\ Console!Step(c, "written") /\ Holds(c) /\ UNCHANGED <<nextId, served, crossed>>
    BY <1>9 DEF Console!UpdateSaves, Console!DeleteDeletes, Holds, Console!Running
  <2>3. /\ call' \in [Console!Calls -> Console!Call] /\ CallsInv'
        /\ call'[c].kind = call[c].kind /\ call'[c].label = call[c].label
        /\ call'[c].id = call[c].id /\ \A d \in Console!Calls \ {c} : call'[d] = call[d]
    BY <1>5, <2>2 DEF Phases, Holds
  <2>4. call[c].id \in Console!Ids /\ call[c].id < nextId
    BY <2>2 DEF IdsInv
  <2>5. rows' \in [Console!Ids -> Console!Row \cup {None}]
    BY <1>0, <2>1, <2>4
  <2>6. \A d \in Console!Calls : Holds(d)' =>
          Holds(d) /\ call'[d].id = call[d].id /\ call'[d].label = call[d].label
    BY <2>2, <2>3 DEF Holds, Console!Running
  <2>7. IdsInv'
    <3>1. \A i \in Console!Ids : i >= nextId => rows'[i] = None
      BY <1>0, <2>1, <2>4 DEF IdsInv, Console!Ids
    <3>2. ASSUME NEW d \in Console!Calls, Holds(d)'
          PROVE  /\ call'[d].id \in Console!Ids /\ call'[d].id < nextId'
                 /\ rows'[call'[d].id] # None => rows'[call'[d].id].label = call'[d].label
      <4>1. /\ call[d].id \in Console!Ids /\ call[d].id < nextId
            /\ rows[call[d].id] # None => rows[call[d].id].label = call[d].label
            /\ call[d].id = call[c].id => call[d].label = call[c].label
        BY <2>2, <2>6, <3>2 DEF IdsInv
      <4> QED
        BY <1>0, <2>1, <2>2, <2>4, <2>6, <3>2, <4>1
    <3>3. \A d, e \in Console!Calls :
            Holds(d)' /\ Holds(e)' /\ call'[d].id = call'[e].id => call'[d].label = call'[e].label
      BY <2>6 DEF IdsInv
    <3> QED
      BY <2>2, <3>1, <3>2, <3>3 DEF IdsInv
  <2>8. Console!ModelsOfItsProvider'
    BY <1>0, <1>1, <2>1, <2>4 DEF Console!ModelsOfItsProvider, Console!Live, Pure
  <2> QED
    BY <1>0, <1>3, <2>2, <2>3, <2>5, <2>7, <2>8
<1> QED
  BY <1>6, <1>7, <1>8, <1>9

\* A restart ends the handlers and routes what the table holds.
LEMMA RestartKeepsTable ==
  ASSUME TableInv, Console!Restart
  PROVE  TableInv' /\ \A c \in Console!Calls : ~Console!Running(c)'
<1> USE ConsoleAssumption DEF Console!UpstreamAssumption, TableInv
<1>0. /\ rows \in [Console!Ids -> Console!Row \cup {None}]
      /\ call \in [Console!Calls -> Console!Call]
  BY DEF Console!TypeOK
<1>1. /\ served' = Console!Routed /\ crossed' \subseteq Labels /\ emptied' = {}
      /\ UNCHANGED <<rows, nextId, list, form, latest, retyped>>
      /\ deleting' = FALSE /\ left' = {}
      /\ call' = [c \in Console!Calls |->
                    IF Console!Running(c) THEN Console!Gone ELSE call[c]]
  BY DEF Console!Restart, Console!page
<1>g. Console!Gone \in Console!Call /\ Console!Gone.phase = "over"
  BY DEF Console!Gone, Console!Unused, Console!Call, Console!Kinds
<1>2. ASSUME NEW c \in Console!Calls
      PROVE  /\ call'[c] \in Console!Call /\ ~Console!Running(c)'
             /\ call'[c] = call[c] \/ call'[c].phase = "over"
  BY <1>0, <1>1, <1>g DEF Console!Running
<1>3. call' \in [Console!Calls -> Console!Call]
  BY <1>1, <1>2
<1>4. CallsInv'
  BY <1>1, <1>2 DEF CallsInv, CallInv, BodyInv, Active, Pure
<1>5. IdsInv'
  BY <1>1, <1>2 DEF IdsInv, Holds
<1>6. DialogInv' /\ Console!ModelsOfItsProvider'
  BY <1>1 DEF DialogInv, Pure, Console!Closed, Console!ModelsOfItsProvider, Console!Live
<1>7. served' \subseteq Console!Route
  BY <1>0, <1>1, EndpointTyping DEF Console!Routed, Console!Live
<1> QED
  BY <1>1, <1>2, <1>3, <1>4, <1>5, <1>6, <1>7 DEF Console!TypeOK

\* The deletion of the tenant, from the rows it finds to the rows it deletes.
TenantSteps ==
  Console!TenantFinds \/ Console!TenantDeletes \/ \E l \in Labels : Console!TenantRemoves(l)

LEMMA TenantKeepsTable ==
  ASSUME TableInv, TenantSteps
  PROVE  TableInv'
<1> USE ConsoleAssumption DEF Console!UpstreamAssumption, TableInv
<1>0. /\ rows \in [Console!Ids -> Console!Row \cup {None}] /\ served \subseteq Console!Route
      /\ crossed \subseteq Labels /\ left \subseteq Labels
  BY DEF Console!TypeOK
<1>1. UNCHANGED <<nextId, emptied, call, list, form, latest, retyped>>
  BY DEF TenantSteps, Console!TenantFinds, Console!TenantDeletes, Console!TenantRemoves,
     Console!page
<1>2. /\ rows' = rows \/ rows' = [i \in Console!Ids |-> None]
      /\ served' \subseteq served /\ deleting' \in BOOLEAN
      /\ left' \subseteq Labels /\ crossed' \subseteq Labels /\ (~deleting' => left' = {})
  <2>1. CASE Console!TenantFinds
    BY <1>0, <2>1 DEF Console!TenantFinds, Console!Live, Console!Row
  <2>2. CASE Console!TenantDeletes
    BY <1>0, <2>2 DEF Console!TenantDeletes
  <2>3. ASSUME NEW l \in Labels, Console!TenantRemoves(l)
        PROVE  /\ UNCHANGED <<rows, deleting, crossed>> /\ deleting
               /\ left' \subseteq left /\ served' \subseteq served
    BY <2>3 DEF Console!TenantRemoves, Console!Remove
  <2> QED
    BY <1>0, <2>1, <2>2, <2>3 DEF TenantSteps, Console!TypeOK
<1>3. rows' \in [Console!Ids -> Console!Row \cup {None}]
  BY <1>0, <1>2
<1>4. CallsInv' /\ DialogInv'
  BY <1>1 DEF CallsInv, CallInv, BodyInv, Active, Pure, Console!Running, DialogInv, Console!Closed
<1>5. IdsInv' /\ Console!ModelsOfItsProvider'
  BY <1>1, <1>2 DEF IdsInv, Holds, Console!Running, Console!ModelsOfItsProvider, Console!Live
<1>6. Console!TypeOK'
  BY <1>0, <1>1, <1>2, <1>3 DEF Console!TypeOK
<1> QED
  BY <1>2, <1>4, <1>5, <1>6

\* What is true of a label stays true while its rows, its endpoints and its
\* running handlers do.
LEMMA LabelKeeps ==
  ASSUME NEW m \in Labels, LabelInv(m), m \in crossed => m \in crossed',
         UNCHANGED <<deleting, left>>, m \in emptied' <=> m \in emptied,
         Console!RowsOf(m)' = Console!RowsOf(m),
         \A i \in Console!RowsOf(m) : rows'[i] = rows[i],
         Served(m)' = Served(m),
         \A d \in Console!Calls :
           IF Console!Running(d) /\ call[d].label = m THEN call'[d] = call[d]
           ELSE ~Console!Running(d)' \/ call'[d].label # m
  PROVE  LabelInv(m)'
<1>1. Due(m)' = Due(m)
  BY DEF Due, Meant
<1>2. \A d \in Console!Calls :
        Console!Running(d)' /\ call'[d].label = m =>
          Console!Running(d) /\ call[d].label = m /\ call'[d] = call[d]
  OBVIOUS
<1>3. Console!Busy(m)' <=> Console!Busy(m)
  BY <1>2 DEF Console!Busy, Console!Running
<1> SUFFICES ASSUME m \notin crossed'
             PROVE  /\ \A i, j \in Console!RowsOf(m)' : i = j
                    /\ \A c, d \in Console!Calls :
                         Console!Running(c)' /\ Console!Running(d)' /\ call'[c].label = m
                           /\ call'[d].label = m => c = d
                    /\ \A c \in Console!Calls :
                         Console!Running(c)' /\ call'[c].label = m => Knows(c)'
                    /\ ~Console!Busy(m)' /\ ~deleting => Served(m)' = Due(m)'
                    /\ deleting => ~Console!Busy(m)' /\ (m \notin left => Served(m)' = {})
  BY DEF LabelInv
<1>4. ASSUME NEW c \in Console!Calls, Console!Running(c)', call'[c].label = m
      PROVE  Knows(c)'
  <2>1. call'[c] = call[c] /\ call[c].label = m /\ Knows(c)
    BY <1>2, <1>4 DEF LabelInv
  <2> QED
    BY <2>1 DEF Knows, Sought
<1> QED
  BY <1>1, <1>2, <1>3, <1>4 DEF LabelInv

\* Changing a row that is not of a label changes nothing of that label.
LEMMA RowsKeep ==
  ASSUME NEW m \in Labels, NEW i \in Console!Ids, NEW b,
         rows \in [Console!Ids -> Console!Row \cup {None}],
         rows' = [rows EXCEPT ![i] = b],
         rows[i] # None => rows[i].label # m, b # None => b.label # m
  PROVE  /\ Console!RowsOf(m)' = Console!RowsOf(m)
         /\ \A j \in Console!RowsOf(m) : rows'[j] = rows[j]
BY DEF Console!RowsOf, Console!Live


\* A step outside the handlers leaves every label as it was.
LEMMA QuietKeepsLabel ==
  ASSUME NEW m \in Labels, LabelInv(m), UNCHANGED Console!server,
         \A d \in Console!Calls :
           call'[d] = call[d] \/ (~Console!Running(d) /\ ~Console!Running(d)')
  PROVE  LabelInv(m)'
<1>0. UNCHANGED <<rows, served, deleting, left, crossed, emptied>>
  BY DEF Console!server
<1>1. /\ Console!RowsOf(m)' = Console!RowsOf(m) /\ Served(m)' = Served(m)
      /\ \A i \in Console!RowsOf(m) : rows'[i] = rows[i]
  BY <1>0 DEF Console!RowsOf, Console!Live, Served
<1>2. \A d \in Console!Calls :
        IF Console!Running(d) /\ call[d].label = m THEN call'[d] = call[d]
        ELSE ~Console!Running(d)' \/ call'[d].label # m
  BY DEF Console!Running
<1> QED
  BY <1>0, <1>1, <1>2, LabelKeeps

\* What a label with no row, or with one row, is to be routed as.
LEMMA MeantOfRow ==
  ASSUME NEW l \in Labels
  PROVE  /\ Console!RowsOf(l) = {} => Meant(l) = {}
         /\ \A i \in Console!RowsOf(l) :
              (\A j \in Console!RowsOf(l) : i = j) => Meant(l) = Console!EndpointsOf(rows[i])
BY DEF Meant

\* Adding the endpoints of a row adds them to its label and to no other.
LEMMA ServedAfterAdd ==
  ASSUME NEW r \in Console!Row, NEW ms \in SUBSET Models,
         served' = served \cup Console!Routes(r, ms)
  PROVE  /\ Served(r.label)' = Served(r.label) \cup Console!Routes(r, ms)
         /\ \A m \in Labels : m # r.label => Served(m)' = Served(m)
<1>1. \A e \in Console!Routes(r, ms) : e.label = r.label
  BY RoutesTyping
<1> QED
  BY <1>1 DEF Served

\* Removing a label removes its endpoints and no other's.
LEMMA ServedAfterRemove ==
  ASSUME NEW l \in Labels, served' = Console!Remove(l)
  PROVE  Served(l)' = {} /\ \A m \in Labels : m # l => Served(m)' = Served(m)
BY DEF Served, Console!Remove

\* A label that one handler serves needs only that handler to know.
LEMMA OneHandler ==
  ASSUME NEW c \in Console!Calls, NEW l \in Labels, call'[c].label = l,
         \A d \in Console!Calls : Console!Running(d)' /\ call'[d].label = l => d = c,
         \A i, j \in Console!RowsOf(l)' : i = j,
         ~deleting', Console!Running(c)' => Knows(c)',
         ~Console!Running(c)' => Served(l)' = Due(l)'
  PROVE  LabelInv(l)'
BY DEF LabelInv, Console!Busy

\* A handler changes nothing of the labels it does not serve.
LEMMA HandlingKeepsOthers ==
  ASSUME TableInv, NEW c \in Console!Calls, NEW m \in Labels, LabelInv(m), call[c].label # m,
         \/ Console!CreateInserts(c) \/ Console!CreateAdds(c) \/ Console!Finds(c)
         \/ Console!UpdateSaves(c) \/ Console!DeleteDeletes(c) \/ Console!Removes(c)
         \/ Console!UpdateAdds(c)
  PROVE  LabelInv(m)'
<1> USE ConsoleAssumption DEF Console!UpstreamAssumption, TableInv
<1>0. /\ rows \in [Console!Ids -> Console!Row \cup {None}] /\ nextId \in 1 .. (MaxRows + 1)
      /\ call \in [Console!Calls -> Console!Call] /\ call[c] \in Console!Call
  BY DEF Console!TypeOK
<1>1. Active(c) /\ CallInv(c)
  BY DEF CallsInv, Active, Console!CreateInserts, Console!CreateAdds, Console!Finds,
     Console!UpdateSaves, Console!DeleteDeletes, Console!Removes, Console!UpdateAdds
<1>2. /\ m \in crossed => m \in crossed'
      /\ UNCHANGED <<deleting, left>> /\ (m \in emptied' <=> m \in emptied)
  BY DEF Console!CreateInserts, Console!CreateAdds, Console!Finds, Console!Cross,
     Console!UpdateSaves, Console!DeleteDeletes, Console!Removes, Console!UpdateAdds
<1>3. call'[c].label = call[c].label /\ \A d \in Console!Calls \ {c} : call'[d] = call[d]
  <2>1. CASE Console!Finds(c)
    <3> DEFINE l == call[c].label
               f == Console!First(l)
               r == IF call[c].kind = "update"
                    THEN Console!Merged(rows[f], call[c].body) ELSE None
               n == [[[call[c] EXCEPT !.phase = "found"] EXCEPT !.id = f] EXCEPT !.row = r]
    <3>1. call' = [call EXCEPT ![c] = n]
      BY <1>0, <2>1 DEF Console!Finds
    <3> HIDE DEF f, r
    <3>2. n.label = call[c].label
      BY <1>0 DEF Console!Call
    <3> HIDE DEF n
    <3> QED
      BY <1>0, <3>1, <3>2
  <2>2. CASE \E p \in Phases : Console!Step(c, p)
    BY <1>0, <2>2, CallSteps
  <2> QED
    BY <2>1, <2>2 DEF Console!CreateInserts, Console!CreateAdds, Console!UpdateSaves,
       Console!DeleteDeletes, Console!Removes, Console!UpdateAdds, Phases
<1>4. \A d \in Console!Calls :
        IF Console!Running(d) /\ call[d].label = m THEN call'[d] = call[d]
        ELSE ~Console!Running(d)' \/ call'[d].label # m
  BY <1>3 DEF Console!Running
<1>5. /\ Console!RowsOf(m)' = Console!RowsOf(m)
      /\ \A i \in Console!RowsOf(m) : rows'[i] = rows[i]
  <2>1. CASE UNCHANGED rows
    BY <2>1 DEF Console!RowsOf, Console!Live
  <2>2. CASE Console!CreateInserts(c)
    <3>1. /\ nextId \in Console!Ids /\ rows' = [rows EXCEPT ![nextId] = call[c].body]
          /\ call[c].body \in Console!Row /\ call[c].body.label # m
      BY <1>1, <2>2 DEF Console!CreateInserts, CallInv, BodyInv
    <3>2. rows[nextId] = None
      BY <1>0, <3>1 DEF IdsInv
    <3> QED
      BY <1>0, <3>1, <3>2, RowsKeep
  <2>3. CASE Console!UpdateSaves(c) \/ Console!DeleteDeletes(c)
    <3>1. Holds(c)
      BY <2>3 DEF Console!UpdateSaves, Console!DeleteDeletes, Holds, Console!Running
    <3>2. call[c].id \in Console!Ids /\ (rows[call[c].id] # None => rows[call[c].id].label # m)
      BY <3>1 DEF IdsInv
    <3>3. PICK b \in Console!Row \cup {None} :
            rows' = [rows EXCEPT ![call[c].id] = b] /\ (b # None => b.label # m)
      BY <1>1, <2>3 DEF Console!UpdateSaves, Console!DeleteDeletes, CallInv, Console!Running
    <3> QED
      BY <1>0, <3>2, <3>3, RowsKeep
  <2> QED
    BY <2>1, <2>2, <2>3 DEF Console!CreateAdds, Console!Finds, Console!Removes,
       Console!UpdateAdds
<1>6. Served(m)' = Served(m)
  <2>1. CASE UNCHANGED served
    BY <2>1 DEF Served
  <2>2. CASE Console!CreateAdds(c)
    <3>1. call[c].body \in Console!Row /\ call[c].body.label # m
          /\ call[c].body.models \in SUBSET Models
      BY <1>1, <2>2 DEF Console!CreateAdds, CallInv, BodyInv, Console!Row
    <3>2. served' = served \cup Console!Routes(call[c].body, call[c].body.models)
      BY <2>2 DEF Console!CreateAdds, Console!Add, Console!EndpointsOf
    <3> QED
      BY <3>1, <3>2, ServedAfterAdd
  <2>4. CASE Console!UpdateAdds(c)
    <3>1. call[c].row \in Console!Row /\ call[c].row.label # m
          /\ call[c].body.models \in SUBSET Models
      BY <1>1, <2>4 DEF Console!UpdateAdds, CallInv, BodyInv, Console!Body, Console!Running
    <3>2. served' = served \cup Console!Routes(call[c].row, call[c].body.models)
      BY <2>4 DEF Console!UpdateAdds
    <3> QED
      BY <3>1, <3>2, ServedAfterAdd
  <2>3. CASE Console!Removes(c)
    BY <1>1, <2>3, ServedAfterRemove DEF Console!Removes, CallInv
  <2> QED
    BY <2>1, <2>2, <2>3, <2>4 DEF Console!CreateInserts, Console!Finds, Console!UpdateSaves,
       Console!DeleteDeletes
<1> QED
  BY <1>2, <1>4, <1>5, <1>6, LabelKeeps


\* A handler that is done leaves its label with no handler.
LEMMA HandlingEnds ==
  ASSUME TableInv, NEW c \in Console!Calls, NEW l \in Labels, LabelInv(l), call[c].label = l,
         Console!Running(c), Console!Step(c, "done"), UNCHANGED <<rows, deleting>>,
         l \notin crossed, Served(l)' = Due(l)'
  PROVE  LabelInv(l)'
<1>1. /\ call'[c].phase = "done" /\ call'[c].label = l
      /\ \A d \in Console!Calls \ {c} : call'[d] = call[d]
  BY CallSteps DEF TableInv, Console!TypeOK, Phases
<1>2. /\ \A d \in Console!Calls : Console!Running(d) /\ call[d].label = l => d = c
      /\ ~deleting /\ \A i, j \in Console!RowsOf(l) : i = j
  BY DEF LabelInv, Console!Busy
<1>3. Console!RowsOf(l)' = Console!RowsOf(l)
  BY DEF Console!RowsOf, Console!Live
<1>4. \A d \in Console!Calls : Console!Running(d)' /\ call'[d].label = l => d = c
  BY <1>1, <1>2 DEF Console!Running
<1> QED
  BY <1>1, <1>2, <1>3, <1>4, OneHandler DEF Console!Running

\* A handler knows how far it has brought the table and the router of its
\* label, and leaves them in step when it is done.
LEMMA HandlingKeepsOwn ==
  ASSUME TableInv, NEW c \in Console!Calls, NEW l \in Labels, LabelInv(l), call[c].label = l,
         \/ Console!CreateInserts(c) \/ Console!CreateAdds(c) \/ Console!Finds(c)
         \/ Console!UpdateSaves(c) \/ Console!DeleteDeletes(c) \/ Console!Removes(c)
         \/ Console!UpdateAdds(c)
  PROVE  LabelInv(l)'
<1> USE ConsoleAssumption DEF Console!UpstreamAssumption
<1>0. /\ rows \in [Console!Ids -> Console!Row \cup {None}] /\ nextId \in 1 .. (MaxRows + 1)
      /\ call \in [Console!Calls -> Console!Call] /\ call[c] \in Console!Call /\ IdsInv
  BY DEF TableInv, Console!TypeOK
<1>1. Active(c) /\ CallInv(c) /\ UNCHANGED <<deleting, left>>
  BY DEF TableInv, CallsInv, Active, Console!CreateInserts, Console!CreateAdds, Console!Finds,
     Console!UpdateSaves, Console!DeleteDeletes, Console!Removes, Console!UpdateAdds
<1>a. call[c].kind = "create" =>
        /\ call[c].body \in Console!Row /\ call[c].body.label = l
        /\ call[c].body.models \in SUBSET Models
  BY <1>1 DEF CallInv, BodyInv, Console!Row
<1>b. call[c].kind = "update" /\ Console!Running(c) =>
        /\ call[c].row \in Console!Row /\ call[c].row.label = l
        /\ call[c].body.models \in SUBSET Models
        /\ call[c].body.models # {} => call[c].row.models = call[c].body.models
  BY <1>1 DEF CallInv, BodyInv, Console!Body
<1> SUFFICES ASSUME l \notin crossed' PROVE LabelInv(l)'
  BY DEF LabelInv
<1>2. l \notin crossed
  BY DEF Console!CreateInserts, Console!CreateAdds, Console!Finds, Console!Cross,
     Console!UpdateSaves, Console!DeleteDeletes, Console!Removes, Console!UpdateAdds
<1>c. ~deleting
  <2>1. CASE Console!Running(c)
    BY <1>2, <2>1 DEF LabelInv, Console!Busy
  <2>2. CASE ~Console!Running(c)
    BY <1>2, <2>2 DEF Console!CreateInserts, Console!CreateAdds, Console!Finds, Console!Cross,
       Console!UpdateSaves, Console!DeleteDeletes, Console!Removes, Console!UpdateAdds,
       Console!Running
  <2> QED
    BY <2>1, <2>2
<1>3. /\ \A i, j \in Console!RowsOf(l) : i = j
      /\ Console!Running(c) =>
           /\ Knows(c)
           /\ \A d \in Console!Calls : Console!Running(d) /\ call[d].label = l => d = c
      /\ ~Console!Busy(l) => Served(l) = Due(l)
  BY <1>2, <1>c DEF LabelInv
<1>4. ~Console!Running(c) => ~Console!Busy(l)
  BY <1>2 DEF Console!CreateInserts, Console!CreateAdds, Console!Finds, Console!Cross, Console!Running,
     Console!UpdateSaves, Console!DeleteDeletes, Console!Removes, Console!UpdateAdds
<1>5. \A d \in Console!Calls \ {c} : ~(Console!Running(d) /\ call[d].label = l)
  BY <1>3, <1>4 DEF Console!Busy
<1>6. ASSUME NEW p \in Phases, Console!Step(c, p)
      PROVE  /\ call'[c].phase = p /\ call'[c].kind = call[c].kind
             /\ call'[c].label = l /\ call'[c].body = call[c].body /\ call'[c].id = call[c].id
             /\ call'[c].row = call[c].row
             /\ \A d \in Console!Calls : Console!Running(d)' /\ call'[d].label = l => d = c
  <2>1. /\ call'[c].phase = p /\ call'[c].kind = call[c].kind
        /\ call'[c].label = l /\ call'[c].body = call[c].body /\ call'[c].id = call[c].id
        /\ call'[c].row = call[c].row
        /\ \A d \in Console!Calls \ {c} : call'[d] = call[d]
    BY <1>0, <1>6, CallSteps
  <2> QED
    BY <1>5, <2>1 DEF Console!Running
<1>7. UNCHANGED rows => Console!RowsOf(l)' = Console!RowsOf(l) /\ Meant(l)' = Meant(l)
  BY DEF Console!RowsOf, Console!Live, Meant
<1>8. UNCHANGED served => Served(l)' = Served(l)
  BY DEF Served
<1>9. CASE Console!CreateInserts(c)
  <2>1. /\ call[c].kind = "create" /\ nextId \in Console!Ids
        /\ rows' = [rows EXCEPT ![nextId] = call[c].body] /\ Console!Step(c, "written")
        /\ UNCHANGED served /\ ~Console!Busy(l) /\ Console!RowsOf(l) = {}
    BY <1>2, <1>9 DEF Console!CreateInserts, Console!Cross
  <2>2. /\ call'[c].phase = "written" /\ call'[c].kind = "create" /\ call'[c].label = l
        /\ call'[c].body = call[c].body
        /\ \A d \in Console!Calls : Console!Running(d)' /\ call'[d].label = l => d = c
    BY <1>6, <2>1 DEF Phases
  <2>3. Console!RowsOf(l)' = {nextId} /\ rows'[nextId] = call[c].body
    BY <1>0, <1>a, <2>1 DEF Console!RowsOf, Console!Live
  <2>4. Served(l)' = {}
    BY <1>3, <1>8, <2>1, MeantOfRow DEF Due
  <2>5. Knows(c)'
    BY <2>2, <2>3, <2>4 DEF Knows, Sought
  <2> QED
    BY <1>1, <1>c, <2>2, <2>3, <2>5, OneHandler DEF Console!Running
<1>10. CASE Console!CreateAdds(c)
  <2>1. /\ call[c].kind = "create" /\ UNCHANGED rows /\ Console!Step(c, "done")
        /\ served' = served \cup Console!Routes(call[c].body, call[c].body.models)
        /\ emptied' = emptied \ {l} /\ Console!Running(c) /\ call[c].phase = "written"
    BY <1>10 DEF Console!CreateAdds, Console!Add, Console!EndpointsOf, Console!Running
  <2>2. /\ Console!RowsOf(l) # {} /\ Served(l) = {}
        /\ \A i \in Console!RowsOf(l) : rows[i] = call[c].body
    BY <1>3, <2>1 DEF Knows, Sought
  <2>3. Meant(l)' = Console!EndpointsOf(call[c].body)
    <3>1. PICK i \in Console!RowsOf(l) : TRUE
      BY <2>2
    <3>2. rows[i] = call[c].body /\ \A k \in Console!RowsOf(l) : i = k
      BY <1>3, <2>2
    <3>3. Meant(l) = Console!EndpointsOf(rows[i])
      BY <3>2, MeantOfRow
    <3> QED
      BY <1>7, <2>1, <3>2, <3>3
  <2>4. Served(l)' = Console!EndpointsOf(call[c].body)
    <3>1. PICK r \in Console!Row, ms \in SUBSET Models :
            r = call[c].body /\ ms = call[c].body.models /\ r.label = l
      BY <1>a, <2>1
    <3>2. Served(l)' = Served(l) \cup Console!Routes(r, ms)
      BY <2>1, <3>1, ServedAfterAdd
    <3> QED
      BY <2>2, <3>1, <3>2 DEF Console!EndpointsOf
  <2>5. Served(l)' = Due(l)'
    BY <2>1, <2>3, <2>4 DEF Due
  <2> QED
    BY <1>1, <1>2, <2>1, <2>5, HandlingEnds
<1>14. CASE Console!UpdateAdds(c)
  <2> DEFINE ms == call[c].body.models
             r  == call[c].row
  <2>1. /\ call[c].kind = "update" /\ UNCHANGED rows /\ Console!Step(c, "done")
        /\ served' = served \cup Console!Routes(r, ms)
        /\ emptied' = (IF ms = {} THEN emptied \cup {l} ELSE emptied \ {l})
        /\ Console!Running(c) /\ call[c].phase = "removed"
    BY <1>1, <1>14 DEF Console!UpdateAdds, CallInv, Console!Running
  <2>2. /\ Console!RowsOf(l) # {} /\ Served(l) = {}
        /\ \A i \in Console!RowsOf(l) : rows[i] = r
    BY <1>3, <2>1 DEF Knows, Sought
  <2>3. Meant(l)' = Console!EndpointsOf(r)
    <3>1. PICK i \in Console!RowsOf(l) : TRUE
      BY <2>2
    <3>2. rows[i] = r /\ \A k \in Console!RowsOf(l) : i = k
      BY <1>3, <2>2
    <3>3. Meant(l) = Console!EndpointsOf(rows[i])
      BY <3>2, MeantOfRow
    <3> QED
      BY <1>7, <2>1, <3>2, <3>3
  <2>4. Served(l)' = Console!Routes(r, ms)
    <3>1. PICK q \in Console!Row, ns \in SUBSET Models : q = r /\ ns = ms /\ q.label = l
      BY <1>b, <2>1
    <3>2. Served(l)' = Served(l) \cup Console!Routes(q, ns)
      BY <2>1, <3>1, ServedAfterAdd
    <3> QED
      BY <2>2, <3>1, <3>2
  <2>5. CASE ms = {}
    <3>1. Served(l)' = {} /\ l \in emptied'
      BY <2>1, <2>4, <2>5 DEF Console!Routes
    <3>2. Served(l)' = Due(l)'
      BY <3>1 DEF Due
    <3> QED
      BY <1>1, <1>2, <2>1, <3>2, HandlingEnds
  <2>6. CASE ms # {}
    <3>1. Served(l)' = Console!EndpointsOf(r) /\ l \notin emptied'
      BY <1>b, <2>1, <2>4, <2>6 DEF Console!EndpointsOf
    <3>2. Served(l)' = Due(l)'
      BY <2>3, <3>1 DEF Due
    <3> QED
      BY <1>1, <1>2, <2>1, <3>2, HandlingEnds
  <2> QED
    BY <2>5, <2>6
<1>11. CASE Console!Finds(c)
  <2> DEFINE f == Console!First(l)
             r == IF call[c].kind = "update" THEN Console!Merged(rows[f], call[c].body) ELSE None
             n == [[[call[c] EXCEPT !.phase = "found"] EXCEPT !.id = f] EXCEPT !.row = r]
  <2>1. /\ call[c].kind # "create" /\ Console!RowsOf(l) # {} /\ ~Console!Busy(l)
        /\ call' = [call EXCEPT ![c] = n] /\ UNCHANGED <<rows, served>>
    BY <1>0, <1>2, <1>11 DEF Console!Finds, Console!Cross
  <2>2. f \in Console!RowsOf(l)
    BY <2>1, FirstIsOfLabel
  <2> HIDE DEF f, r
  <2>3. n.phase = "found" /\ n.label = l /\ n.id = f
    BY <1>0 DEF Console!Call
  <2> HIDE DEF n
  <2>4. call'[c] = n /\ \A d \in Console!Calls \ {c} : call'[d] = call[d]
    BY <1>0, <2>1
  <2>5. \A d \in Console!Calls : Console!Running(d)' /\ call'[d].label = l => d = c
    BY <1>5, <2>4 DEF Console!Running
  <2>6. Console!RowsOf(l)' = {f}
    BY <1>3, <1>7, <2>1, <2>2
  <2>7. Knows(c)'
    BY <2>3, <2>4, <2>6 DEF Knows
  <2> QED
    BY <1>1, <1>c, <2>3, <2>4, <2>5, <2>6, <2>7, OneHandler DEF Console!Running
<1>12. CASE Console!UpdateSaves(c) \/ Console!DeleteDeletes(c)
  <2>1. /\ call[c].phase = "found" /\ Console!Step(c, "written") /\ UNCHANGED served
        /\ Console!RowsOf(l) = {call[c].id}
        /\ \/ call[c].kind = "update" /\ rows' = [rows EXCEPT ![call[c].id] = call[c].row]
           \/ call[c].kind = "delete" /\ rows' = [rows EXCEPT ![call[c].id] = None]
    BY <1>3, <1>12 DEF Console!UpdateSaves, Console!DeleteDeletes, Knows, Console!Running
  <2>2. /\ call'[c].phase = "written" /\ call'[c].kind = call[c].kind /\ call'[c].label = l
        /\ call'[c].row = call[c].row
        /\ \A d \in Console!Calls : Console!Running(d)' /\ call'[d].label = l => d = c
    BY <1>6, <2>1 DEF Phases
  <2>3. call[c].id \in Console!Ids
    BY <2>1 DEF Console!RowsOf, Console!Live
  <2>4. /\ call[c].kind = "update" =>
             Console!RowsOf(l)' = {call[c].id} /\ rows'[call[c].id] = call[c].row
        /\ call[c].kind = "delete" => Console!RowsOf(l)' = {}
    <3>1. Console!Running(c)
      BY <2>1 DEF Console!Running
    <3> QED
      BY <1>0, <1>b, <2>1, <2>3, <3>1, RowIsNotNone DEF Console!RowsOf, Console!Live
  <2>5. Knows(c)'
    BY <2>1, <2>2, <2>4 DEF Knows, Sought
  <2> QED
    BY <1>1, <1>c, <2>1, <2>2, <2>4, <2>5, OneHandler DEF Console!Running
<1>13. CASE Console!Removes(c)
  <2>1. /\ call[c].kind # "create" /\ call[c].phase = "written" /\ UNCHANGED rows
        /\ served' = Console!Remove(l) /\ Knows(c)
        /\ IF call[c].kind = "update" THEN Console!Step(c, "removed")
           ELSE Console!Step(c, "done")
    BY <1>3, <1>13 DEF Console!Removes, Console!Running
  <2>2. Served(l)' = {} /\ \A i, j \in Console!RowsOf(l)' : i = j
    BY <1>3, <1>7, <2>1, ServedAfterRemove
  <2>3. CASE call[c].kind = "update"
    <3>1. /\ call'[c].phase = "removed" /\ call'[c].kind = "update" /\ call'[c].label = l
          /\ call'[c].row = call[c].row
          /\ \A d \in Console!Calls : Console!Running(d)' /\ call'[d].label = l => d = c
      BY <1>6, <2>1, <2>3 DEF Phases
    <3>2. Console!RowsOf(l) # {} /\ \A i \in Console!RowsOf(l) : rows[i] = call[c].row
      BY <2>1, <2>3 DEF Knows, Sought
    <3>3. Knows(c)'
      BY <1>7, <2>1, <2>2, <3>1, <3>2 DEF Knows, Sought
    <3> QED
      BY <1>1, <1>c, <2>2, <3>1, <3>3, OneHandler DEF Console!Running
  <2>4. CASE call[c].kind = "delete"
    <3>1. Meant(l)' = {}
      BY <1>7, <2>1, <2>4, MeantOfRow DEF Knows
    <3>2. Console!Step(c, "done") /\ Served(l)' = Due(l)'
      BY <2>1, <2>2, <2>4, <3>1 DEF Due
    <3> QED
      BY <1>1, <1>2, <2>1, <3>2, HandlingEnds DEF Console!Running
  <2>5. call[c].kind = "update" \/ call[c].kind = "delete"
    BY <1>0, <2>1 DEF Console!Call, Console!Kinds
  <2> QED
    BY <2>3, <2>4, <2>5
<1> QED
  BY <1>9, <1>10, <1>11, <1>12, <1>13, <1>14


\* Sizes mean in the table's module what they mean here.
LEMMA SameCount == \A S : Console!Cardinality(S) = Cardinality(S)
BY DEF Console!Cardinality, Cardinality, Console!IsFiniteSet, IsFiniteSet

\* Two members make a finite set larger than one.
LEMMA AtMostOne ==
  ASSUME NEW S, IsFiniteSet(S), Cardinality(S) <= 1, NEW i \in S, NEW j \in S
  PROVE  i = j
<1> SUFFICES ASSUME i # j PROVE FALSE
  OBVIOUS
<1>1. IsFiniteSet({i}) /\ Cardinality({i}) = 1
  BY FS_Singleton
<1>2. Cardinality({i} \cup {j}) = 2 /\ IsFiniteSet({i} \cup {j})
  <2>1. Cardinality({i} \cup {j}) = Cardinality({i}) + 1 /\ IsFiniteSet({i} \cup {j})
    BY <1>1, FS_AddElement
  <2> QED
    BY <1>1, <2>1
<1>3. {i} \cup {j} \in SUBSET S
  OBVIOUS
<1>4. Cardinality({i} \cup {j}) <= Cardinality(S)
  BY <1>3, FS_Subset
<1>5. Cardinality(S) \in Nat
  BY FS_CardinalityType
<1> QED
  BY <1>2, <1>4, <1>5

\* What is routed from the table is, of a label, what its rows say.
LEMMA RoutedOfLabel ==
  ASSUME TableInv, NEW l \in Labels
  PROVE  {e \in Console!Routed : e.label = l} = Meant(l)
<1>1. \A i \in Console!Live : rows[i] \in Console!Row
  BY DEF TableInv, Console!TypeOK, Console!Live
<1>2. \A i \in Console!Live : \A e \in Console!EndpointsOf(rows[i]) : e.label = rows[i].label
  BY <1>1, EndpointTyping
<1> QED
  BY <1>2 DEF Console!Routed, Meant, Console!RowsOf

\* After a restart a label of one row is routed as that row says.
LEMMA RestartKeepsLabel ==
  ASSUME TableInv, NEW l \in Labels, Console!Restart
  PROVE  LabelInv(l)'
<1>1. /\ served' = Console!Routed /\ UNCHANGED rows
      /\ \A c \in Console!Calls : ~Console!Running(c)'
      /\ crossed' = {m \in Labels : Cardinality(Console!RowsOf(m)) > 1}
      /\ emptied' = {} /\ deleting' = FALSE
  BY RestartKeepsTable, SameCount DEF Console!Restart
<1>2. Console!RowsOf(l)' = Console!RowsOf(l) /\ Meant(l)' = Meant(l)
  BY <1>1 DEF Console!RowsOf, Console!Live, Meant
<1>3. Served(l)' = Due(l)'
  BY <1>1, <1>2, RoutedOfLabel DEF Served, Due
<1>4. IsFiniteSet(Console!RowsOf(l)) /\ Cardinality(Console!RowsOf(l)) \in Nat
  <2>1. Console!RowsOf(l) \in SUBSET (1 .. MaxRows)
    BY DEF Console!RowsOf, Console!Live, Console!Ids
  <2>2. IsFiniteSet(1 .. MaxRows)
    BY ConsoleAssumption, FS_Interval DEF Console!UpstreamAssumption
  <2>3. IsFiniteSet(Console!RowsOf(l))
    BY <2>1, <2>2, FS_Subset
  <2> QED
    BY <2>3, FS_CardinalityType
<1>5. l \notin crossed' => \A i, j \in Console!RowsOf(l) : i = j
  <2>1. l \notin crossed' => Cardinality(Console!RowsOf(l)) <= 1
    BY <1>1, <1>4
  <2> QED
    BY <1>4, <2>1, AtMostOne
<1> QED
  BY <1>1, <1>2, <1>3, <1>5 DEF LabelInv

\* A deleted tenant's label without a handler leaves the router first, and
\* then the table.
LEMMA TenantKeepsLabel ==
  ASSUME TableInv, NEW l \in Labels, LabelInv(l), TenantSteps
  PROVE  LabelInv(l)'
<1> SUFFICES ASSUME l \notin crossed' PROVE LabelInv(l)'
  BY DEF LabelInv
<1>0. UNCHANGED <<call, emptied>>
  BY DEF TenantSteps, Console!TenantFinds, Console!TenantDeletes, Console!TenantRemoves
<1>1. l \notin crossed /\ (Console!Busy(l)' <=> Console!Busy(l))
  BY <1>0 DEF TenantSteps, Console!TenantFinds, Console!TenantDeletes, Console!TenantRemoves,
     Console!Busy, Console!Running
<1>2. /\ \A i, j \in Console!RowsOf(l) : i = j
      /\ ~Console!Busy(l) /\ ~deleting => Served(l) = Due(l)
      /\ deleting => ~Console!Busy(l) /\ (l \notin left => Served(l) = {})
  BY <1>1 DEF LabelInv
<1>3. ~deleting => left = {}
  BY DEF TableInv
<1>4. \A c \in Console!Calls : ~Console!Busy(l) /\ Console!Running(c)' => call'[c].label # l
  BY <1>0 DEF Console!Busy, Console!Running
<1>5. ~Console!Busy(l)
  BY <1>1, <1>2, <1>3 DEF TenantSteps, Console!TenantFinds, Console!TenantDeletes,
     Console!TenantRemoves
<1>6. UNCHANGED rows => Console!RowsOf(l)' = Console!RowsOf(l) /\ Due(l)' = Due(l)
  BY <1>0 DEF Console!RowsOf, Console!Live, Meant, Due
<1>7. CASE Console!TenantFinds
  <2>1. /\ ~deleting /\ deleting' = TRUE /\ UNCHANGED <<rows, served>>
        /\ left' = {rows[i].label : i \in Console!Live}
    BY <1>7 DEF Console!TenantFinds
  <2>2. l \notin left' => Console!RowsOf(l) = {}
    BY <2>1 DEF Console!RowsOf
  <2>3. l \notin left' => Served(l)' = {}
    BY <1>2, <1>5, <2>1, <2>2, MeantOfRow DEF Due, Served
  <2> QED
    BY <1>1, <1>2, <1>4, <1>5, <1>6, <2>1, <2>3 DEF LabelInv
<1>8. ASSUME NEW m \in Labels, Console!TenantRemoves(m) PROVE LabelInv(l)'
  <2>1. /\ deleting /\ UNCHANGED <<rows, deleting>> /\ left' = left \ {m}
        /\ served' = Console!Remove(m)
    BY <1>3, <1>8 DEF Console!TenantRemoves
  <2>2. l \notin left' => Served(l)' = {}
    BY <1>2, <2>1, ServedAfterRemove
  <2> QED
    BY <1>1, <1>2, <1>4, <1>5, <1>6, <2>1, <2>2 DEF LabelInv
<1>9. CASE Console!TenantDeletes
  <2>1. /\ deleting /\ left = {} /\ deleting' = FALSE /\ UNCHANGED served
        /\ rows' = [i \in Console!Ids |-> None]
    BY <1>9 DEF Console!TenantDeletes
  <2>2. Console!RowsOf(l)' = {}
    BY <2>1 DEF Console!RowsOf, Console!Live
  <2>3. Meant(l)' = {} /\ Served(l)' = {}
    BY <1>2, <2>1, <2>2 DEF Meant, Served
  <2> QED
    BY <1>1, <1>4, <1>5, <2>1, <2>2, <2>3 DEF LabelInv, Due
<1> QED
  BY <1>7, <1>8, <1>9 DEF TenantSteps

-----------------------------------------------------------------------------
(***************************************************************************)
(* The invariant of the table and of every label, and its steps.           *)
(***************************************************************************)
SyncInv == TableInv /\ \A l \in Labels : LabelInv(l)

\* At first there is one row, it is routed, and nothing was sent.
LEMMA SyncInit == Console!Init => SyncInv
<1> SUFFICES ASSUME Console!Init, NEW l \in Labels PROVE LabelInv(l)
  BY TableInit DEF SyncInv
<1> USE ConsoleAssumption DEF Console!UpstreamAssumption
<1>1. TableInv
  BY TableInit
<1>2. PICK r \in Console!Row :
        /\ rows = [i \in Console!Ids |-> IF i = 1 THEN r ELSE None]
        /\ served = Console!EndpointsOf(r)
  BY DEF Console!Init
<1>3. Console!Live = {1} /\ rows[1] = r
  BY <1>2 DEF Console!Live, Console!Ids
<1>4. served = Console!Routed
  BY <1>2, <1>3 DEF Console!Routed
<1>5. Served(l) = Due(l) /\ ~deleting
  BY <1>1, <1>4, RoutedOfLabel DEF Served, Due, Console!Init
<1>6. \A i, j \in Console!RowsOf(l) : i = j
  BY <1>3 DEF Console!RowsOf
<1>7. \A c \in Console!Calls : ~Console!Running(c)
  <2>1. \A c \in Console!Calls : call[c].phase = "unused"
    BY DEF Console!Init, Console!Unused
  <2> QED
    BY <2>1 DEF Console!Running
<1> QED
  BY <1>5, <1>6, <1>7 DEF LabelInv

\* Every step of page, handlers and restart keeps it.
LEMMA SyncStep ==
  ASSUME SyncInv, [Console!Next]_Console!vars
  PROVE  SyncInv'
<1> USE DEF SyncInv
<1>1. ASSUME UNCHANGED Console!server,
             \A d \in Console!Calls :
               call'[d] = call[d] \/ (~Console!Running(d) /\ ~Console!Running(d)'),
             TableInv'
      PROVE  SyncInv'
  BY <1>1, QuietKeepsLabel
<1>2. ASSUME Console!Next, UNCHANGED <<Console!server, call, latest, retyped>>
      PROVE  SyncInv'
  BY <1>1, <1>2, PageKeepsTable
<1>3. ASSUME NEW c \in Console!Calls,
             Console!HandleSubmit(c) \/ Console!HandleDelete(c) \/ Console!UpdatePartly(c)
      PROVE  SyncInv'
  <2>1. PICK n : /\ call[c].phase = "unused" /\ n.phase = "sent"
                 /\ call' = [call EXCEPT ![c] = n] /\ UNCHANGED Console!server
    BY <1>3 DEF Console!HandleSubmit, Console!HandleDelete, Console!UpdatePartly,
       Console!Submit, Console!Send
  <2>2. \A d \in Console!Calls :
          call'[d] = call[d] \/ (~Console!Running(d) /\ ~Console!Running(d)')
    BY <2>1 DEF TableInv, Console!TypeOK, Console!Running
  <2> QED
    BY <1>1, <1>3, <2>1, <2>2, SendingKeepsTable
<1>4. ASSUME NEW c \in Console!Calls,
             Console!NotFound(c) \/ Console!Answered(c) \/ Console!Lost(c)
      PROVE  SyncInv'
  <2>1. Console!Ends(c) /\ ~Console!Running(c) /\ UNCHANGED Console!server
    BY <1>4 DEF Console!NotFound, Console!Answered, Console!Lost, Console!Running
  <2>2. call'[c].phase = "over" /\ \A d \in Console!Calls \ {c} : call'[d] = call[d]
    BY <2>1, CallEnds DEF TableInv, Console!TypeOK
  <2>3. \A d \in Console!Calls :
          call'[d] = call[d] \/ (~Console!Running(d) /\ ~Console!Running(d)')
    BY <2>1, <2>2 DEF Console!Running
  <2> QED
    BY <1>1, <1>4, <2>1, <2>3, EndingKeepsTable
<1>5. ASSUME NEW c \in Console!Calls,
             \/ Console!CreateInserts(c) \/ Console!CreateAdds(c) \/ Console!Finds(c)
             \/ Console!UpdateSaves(c) \/ Console!DeleteDeletes(c) \/ Console!Removes(c)
             \/ Console!UpdateAdds(c)
      PROVE  SyncInv'
  <2>1. TableInv'
    BY <1>5, HandlingKeepsTable
  <2>2. ASSUME NEW m \in Labels PROVE LabelInv(m)'
    <3>1. CASE call[c].label = m
      BY <1>5, <3>1, HandlingKeepsOwn
    <3>2. CASE call[c].label # m
      BY <1>5, <3>2, HandlingKeepsOthers
    <3> QED
      BY <3>1, <3>2
  <2> QED
    BY <2>1, <2>2
<1>6. CASE Console!Restart
  BY <1>6, RestartKeepsTable, RestartKeepsLabel
<1>7. CASE UNCHANGED Console!vars
  <2>1. /\ UNCHANGED <<rows, nextId, served, deleting, left, call, list, form, latest>>
        /\ UNCHANGED <<crossed, emptied, retyped, Console!server>>
    BY <1>7 DEF Console!vars, Console!server, Console!page
  <2>2. TableInv'
    BY <2>1 DEF TableInv, Console!TypeOK, DialogInv, Pure, CallsInv, CallInv, BodyInv, Active,
       IdsInv, Holds, Console!Running, Console!ModelsOfItsProvider, Console!Live, Console!Closed
  <2> QED
    BY <1>1, <2>1, <2>2
<1>8. ASSUME Console!AddProviderKey \/ Console!HandleEdit \/ Console!ResetForm
               \/ (\E l \in Labels : Console!ChooseLabel(l))
               \/ (\E p \in Providers : Console!HandleProviderChange(p))
               \/ (\E m \in Models : Console!ToggleModel(m)) \/ Console!ListShown
      PROVE  UNCHANGED <<Console!server, call, latest, retyped>>
  BY <1>8 DEF Console!AddProviderKey, Console!HandleEdit, Console!ResetForm,
     Console!ChooseLabel, Console!HandleProviderChange,
     Console!ToggleModel, Console!ListShown, Console!Shows
<1>9. CASE TenantSteps
  BY <1>9, TenantKeepsTable, TenantKeepsLabel
<1> QED
  BY <1>2, <1>3, <1>4, <1>5, <1>6, <1>7, <1>8, <1>9 DEF Console!Next, TenantSteps

(* Whatever is added, edited and deleted in the page or by another client  *)
(* of the API, however the handlers overlap, whenever the tenant is        *)
(* deleted and whenever the gateway restarts, a label that was used and    *)
(* served once at a time is routed exactly as its row of the table says    *)
(* once no handler is running; unless its last update named no models: the *)
(* row keeps its models, and the label is not routed at all.  A row never  *)
(* mixes the models of two providers while no client changes the provider  *)
(* alone (server.go:553-585, 1054-1151, main.go:88-115,                    *)
(* Upstreams.tsx:81-91).                                                   *)
THEOREM RouterFollowsTable == MCSpec => []InSync
<1>1. MCInit => SyncInv
  BY SyncInit DEF MCInit
<1>2. SyncInv /\ [MCNext]_<<moving, vars, consoleVars, signalVars, pageVars>> => SyncInv'
  <2>1. [MCNext]_<<moving, vars, consoleVars, signalVars, pageVars>>
          => [Console!Next]_Console!vars
    BY DEF MCNext, consoleVars, Console!vars, Console!server, Console!page
  <2> QED
    BY <2>1, SyncStep
<1>3. SyncInv => InSync
  <2> SUFFICES ASSUME SyncInv PROVE InSync
    OBVIOUS
  <2>1. TableInv /\ \A l \in Labels : LabelInv(l)
    BY DEF SyncInv
  <2>2. \A l \in Labels \ crossed : ~Console!Busy(l) /\ ~deleting =>
          {e \in served : e.label = l}
            = IF l \in emptied THEN {} ELSE {e \in Console!Routed : e.label = l}
    BY <2>1, RoutedOfLabel DEF LabelInv, Served, Due
  <2> QED
    BY <2>1, <2>2 DEF TableInv, InSync, Console!InSync
<1> QED
  BY <1>1, <1>2, <1>3, PTL DEF MCSpec


-----------------------------------------------------------------------------
(***************************************************************************)
(* The figures of an endpoint.  First arithmetic of the ring: places that  *)
(* are less than its size apart are different.                             *)
(***************************************************************************)
LEMMA DivMod ==
  ASSUME NEW w \in Nat \ {0}, NEW a \in Nat
  PROVE  a = w * (a \div w) + (a % w)
OBVIOUS

\* Two places less than a turn apart.
LEMMA Apart ==
  ASSUME NEW w \in Nat \ {0}, NEW a \in Nat, NEW b \in Nat, a < b, b - a < w
  PROVE  a % w # b % w
<1> SUFFICES ASSUME a % w = b % w PROVE FALSE
  OBVIOUS
<1>1. a = w * (a \div w) + (a % w) /\ b = w * (b \div w) + (b % w)
  BY DivMod
<1>2. (a \div w) \in Int /\ (b \div w) \in Int
  OBVIOUS
<1> DEFINE q == (b \div w) - (a \div w)
<1>3. q \in Int /\ b - a = w * q
  BY <1>1, <1>2
<1> HIDE DEF q
<1>4. CASE q <= 0
  BY <1>3, <1>4
<1>5. CASE q >= 1
  BY <1>3, <1>5
<1> QED
  BY <1>3, <1>4, <1>5

\* A place of the ring.
LEMMA PlaceType ==
  ASSUME NEW w \in Nat \ {0}, NEW a \in Nat
  PROVE  a % w \in 0 .. (w - 1) /\ (a < w => a % w = a)
OBVIOUS

\* The places of the values of a set.
PlacesIn(m, f, X) == {k \in 1 .. m : f[k] \in X}

\* Whatever is rearranged holds as many values of any set.
LEMMA Rearranged ==
  ASSUME NEW m \in Nat, NEW f, NEW g, NEW p \in Injection(1 .. m, 1 .. m), NEW X,
         \A j \in 1 .. m : f[p[j]] = g[j]
  PROVE  Cardinality(PlacesIn(m, f, X)) = Cardinality(PlacesIn(m, g, X))
<1> DEFINE A == {j \in 1 .. m : g[j] \in X}
           B == {k \in 1 .. m : f[k] \in X}
           q == [j \in A |-> p[j]]
<1>1. IsFiniteSet(1 .. m)
  BY FS_Interval
<1>2. p \in Surjection(1 .. m, 1 .. m)
  BY <1>1, FS_Injection
<1>3. /\ p \in [1 .. m -> 1 .. m] /\ \A a, b \in 1 .. m : p[a] = p[b] => a = b
      /\ \A k \in 1 .. m : \E j \in 1 .. m : p[j] = k
  BY <1>2 DEF Injection, IsInjective, Surjection
<1>4. q \in [A -> B]
  BY <1>3
<1>5. q \in Injection(A, B)
  BY <1>3, <1>4 DEF Injection, IsInjective
<1>6. q \in Surjection(A, B)
  BY <1>3, <1>4 DEF Surjection
<1>7. IsFiniteSet(A)
  <2>1. A \in SUBSET (1 .. m)
    OBVIOUS
  <2> QED
    BY <1>1, <2>1, FS_Subset
<1> HIDE DEF A, B, q
<1>8. ExistsBijection(A, B)
  BY <1>5, <1>6 DEF ExistsBijection, Bijection
<1>9. Cardinality(B) = Cardinality(A)
  BY <1>7, <1>8, FS_Bijection
<1> QED
  BY <1>9 DEF A, B, PlacesIn

\* Numbers can be sorted, by induction on how many there are.
Sorts(p, f, n) ==
  p \in Injection(1 .. n, 1 .. n) /\ \A i, j \in 1 .. n : i < j => f[p[i]] <= f[p[j]]

\* The largest of some numbers.
LEMMA LargestExists ==
  ASSUME NEW n \in Nat \ {0}, NEW f \in [1 .. n -> Nat]
  PROVE  \E m \in 1 .. n : \A i \in 1 .. n : f[i] <= f[m]
<1> DEFINE Below(k, b) == \A i \in 1 .. n : i < k => f[i] <= b
           HasBound(k) == \E b \in Nat : Below(k, b)
           Bad    == {k \in 1 .. (n + 1) : ~HasBound(k)}
           Bounds == {b \in Nat : \A i \in 1 .. n : f[i] <= b}
<1>1. ASSUME NEW k \in 1 .. n, HasBound(k)
      PROVE  HasBound(k + 1)
  <2>1. PICK b \in Nat : Below(k, b)
    BY <1>1
  <2>2. f[k] \in Nat
    OBVIOUS
  <2>3. \A i \in 1 .. n : i < k + 1 => i < k \/ i = k
    OBVIOUS
  <2>4. CASE f[k] <= b
    <3>1. Below(k + 1, b)
      BY <2>1, <2>3, <2>4
    <3> QED
      BY <3>1
  <2>5. CASE b < f[k]
    <3>1. Below(k + 1, f[k])
      BY <2>1, <2>2, <2>3, <2>5
    <3> QED
      BY <2>2, <3>1
  <2> QED
    BY <2>2, <2>4, <2>5
<1>2. HasBound(1)
  <2>1. \A i \in 1 .. n : ~(i < 1)
    OBVIOUS
  <2>2. Below(1, 0)
    BY <2>1
  <2> QED
    BY <2>2
<1>3. HasBound(n + 1) => Bounds # {}
  <2>1. \A i \in 1 .. n : i < n + 1
    OBVIOUS
  <2> QED
    BY <2>1
<1> HIDE DEF HasBound, Below
<1>4. Bad = {}
  <2> SUFFICES ASSUME Bad # {} PROVE FALSE
    OBVIOUS
  <2>1. Bad \in SUBSET Nat
    OBVIOUS
  <2>2. PICK k \in Bad : \A l \in Bad : k <= l
    BY <2>1, LeastNumber
  <2>3. k \in 1 .. (n + 1) /\ ~HasBound(k)
    BY <2>2
  <2>4. k # 1
    BY <1>2, <2>3
  <2>5. k - 1 \in 1 .. n /\ ~(k <= k - 1) /\ (k - 1) + 1 = k
    BY <2>3, <2>4
  <2>6. k - 1 \in 1 .. (n + 1)
    BY <2>5
  <2>7. HasBound(k - 1)
    BY <2>2, <2>5, <2>6
  <2> QED
    BY <1>1, <2>3, <2>5, <2>7
<1>5. HasBound(n + 1)
  <2>1. n + 1 \in 1 .. (n + 1)
    OBVIOUS
  <2> QED
    BY <1>4, <2>1
<1>6. Bounds \in SUBSET Nat /\ Bounds # {}
  BY <1>3, <1>5
<1>7. PICK b \in Bounds : \A c \in Bounds : b <= c
  BY <1>6, LeastNumber
<1>8. b \in Nat /\ \A i \in 1 .. n : f[i] <= b
  BY <1>7
<1>9. CASE \E m \in 1 .. n : f[m] = b
  BY <1>8, <1>9
<1>10. CASE \A m \in 1 .. n : f[m] # b
  <2>1. \A i \in 1 .. n : f[i] < b
    BY <1>8, <1>10
  <2>2. f[1] \in Nat /\ f[1] < b
    BY <2>1
  <2>3. b - 1 \in Nat /\ \A i \in 1 .. n : f[i] <= b - 1
    BY <1>8, <2>1, <2>2
  <2>4. b - 1 \in Bounds /\ ~(b <= b - 1)
    BY <1>8, <2>3
  <2> QED
    BY <1>7, <2>4
<1> QED
  BY <1>9, <1>10

\* Leaving out the largest makes one number less to sort.
LEMMA SortOneMore ==
  ASSUME NEW n \in Nat \ {0}, NEW f \in [1 .. n -> Nat],
         \A g \in [1 .. (n - 1) -> Nat] : \E p : Sorts(p, g, n - 1)
  PROVE  \E p : Sorts(p, f, n)
<1>1. PICK m \in 1 .. n : \A i \in 1 .. n : f[i] <= f[m]
  BY LargestExists
<1> DEFINE skip(i) == IF i < m THEN i ELSE i + 1
           g == [i \in 1 .. (n - 1) |-> f[skip(i)]]
<1>2. \A i \in 1 .. (n - 1) : skip(i) \in 1 .. n /\ skip(i) # m
  OBVIOUS
<1>3. \A i, j \in 1 .. (n - 1) : skip(i) = skip(j) => i = j
  OBVIOUS
<1>4. g \in [1 .. (n - 1) -> Nat]
  BY <1>2
<1>5. PICK p : Sorts(p, g, n - 1)
  BY <1>4
<1>6. /\ p \in [1 .. (n - 1) -> 1 .. (n - 1)]
      /\ \A a, b \in 1 .. (n - 1) : p[a] = p[b] => a = b
      /\ \A i, j \in 1 .. (n - 1) : i < j => g[p[i]] <= g[p[j]]
  BY <1>5 DEF Sorts, Injection, IsInjective
<1> HIDE DEF skip
<1> DEFINE q == [i \in 1 .. n |-> IF i = n THEN m ELSE skip(p[i])]
<1>7. \A i \in 1 .. n : i # n => i \in 1 .. (n - 1) /\ p[i] \in 1 .. (n - 1)
                              /\ q[i] = skip(p[i]) /\ f[q[i]] = g[p[i]]
  BY <1>6
<1>8. n \in 1 .. n /\ q[n] = m
  <2>1. n \in 1 .. n
    OBVIOUS
  <2> QED
    BY <2>1
<1>9. q \in [1 .. n -> 1 .. n]
  <2>1. \A i \in 1 .. n : q[i] \in 1 .. n
    BY <1>2, <1>7, <1>8
  <2> QED
    BY <2>1
<1>10. \A a, b \in 1 .. n : q[a] = q[b] => a = b
  <2>1. \A a \in 1 .. n : a # n => q[a] # m
    BY <1>2, <1>7
  <2>2. \A a, b \in 1 .. n : a # n /\ b # n /\ q[a] = q[b] => a = b
    BY <1>3, <1>6, <1>7
  <2> HIDE DEF q
  <2> QED
    BY <1>8, <2>1, <2>2
<1>11. \A i, j \in 1 .. n : i < j => f[q[i]] <= f[q[j]]
  <2> SUFFICES ASSUME NEW i \in 1 .. n, NEW j \in 1 .. n, i < j PROVE f[q[i]] <= f[q[j]]
    OBVIOUS
  <2>1. i # n
    OBVIOUS
  <2>2. CASE j = n
    BY <1>1, <1>8, <1>9, <2>2
  <2>3. CASE j # n
    BY <1>6, <1>7, <2>1, <2>3
  <2> QED
    BY <2>2, <2>3
<1> HIDE DEF q
<1>12. Sorts(q, f, n)
  BY <1>9, <1>10, <1>11 DEF Sorts, Injection, IsInjective
<1> QED
  BY <1>12

\* Any numbers can be sorted.
LEMMA SortingExists ==
  ASSUME NEW n \in Nat, NEW f \in [1 .. n -> Nat]
  PROVE  \E p : Sorts(p, f, n)
<1> DEFINE All(k) == \A g \in [1 .. k -> Nat] : \E p : Sorts(p, g, k)
           Bad    == {k \in Nat : ~All(k)}
<1>1. All(0)
  <2>1. \A g \in [1 .. 0 -> Nat] : Sorts([i \in 1 .. 0 |-> i], g, 0)
    BY DEF Sorts, Injection, IsInjective
  <2> QED
    BY <2>1
<1>2. ASSUME NEW k \in Nat \ {0}, All(k - 1)
      PROVE  All(k)
  <2>1. \A g \in [1 .. (k - 1) -> Nat] : \E p : Sorts(p, g, k - 1)
    BY <1>2
  <2> SUFFICES ASSUME NEW g \in [1 .. k -> Nat] PROVE \E p : Sorts(p, g, k)
    OBVIOUS
  <2> QED
    BY <2>1, SortOneMore
<1>3. All(n) => \E p : Sorts(p, f, n)
  OBVIOUS
<1> HIDE DEF All
<1>4. Bad = {}
  <2> SUFFICES ASSUME Bad # {} PROVE FALSE
    OBVIOUS
  <2>1. Bad \in SUBSET Nat
    OBVIOUS
  <2>2. PICK k \in Bad : \A l \in Bad : k <= l
    BY <2>1, LeastNumber
  <2>3. k \in Nat /\ ~All(k) /\ k # 0
    BY <1>1, <2>2
  <2>4. k \in Nat \ {0} /\ k - 1 \in Nat /\ ~(k <= k - 1)
    BY <2>3
  <2>5. All(k - 1)
    BY <2>2, <2>4
  <2> QED
    BY <1>2, <2>3, <2>4, <2>5
<1> QED
  BY <1>3, <1>4

-----------------------------------------------------------------------------
(***************************************************************************)
(* The window.  A result is still in its place of the ring as long as it   *)
(* is one of the latest.                                                   *)
(***************************************************************************)
RingInv ==
  /\ Signals!TypeOK
  /\ ttfts.pos = Len(history)
  /\ ttfts.pos <= errors.pos /\ tpss.pos <= errors.pos
  /\ ttfts.count = IF Len(history) < WindowSize THEN Len(history) ELSE WindowSize
  /\ \A k \in 1 .. Len(history) :
       k > Len(history) - WindowSize => ttfts.values[(k - 1) % WindowSize] = history[k]

\* The fields of a window.
LEMMA WindowFields ==
  ASSUME NEW w \in Signals!Window
  PROVE  /\ w.values \in [0 .. (WindowSize - 1) -> Nat]
         /\ w.pos \in 0 .. MaxRecords /\ w.pos \in Nat
         /\ w.count \in 0 .. WindowSize /\ w.count \in Nat
BY SignalsAssumption DEF Signals!SignalsAssumption, Signals!Window

\* What recording does to a window.
LEMMA RecordedWindow ==
  ASSUME NEW w \in Signals!Window, NEW v \in Nat, w.pos < MaxRecords
  PROVE  /\ Signals!Recorded(w, v) \in Signals!Window
         /\ Signals!Recorded(w, v).pos = w.pos + 1
         /\ Signals!Recorded(w, v).count =
              IF w.count < WindowSize THEN w.count + 1 ELSE w.count
         /\ Signals!Recorded(w, v).values = [w.values EXCEPT ![w.pos % WindowSize] = v]
<1> USE SignalsAssumption DEF Signals!SignalsAssumption
<1> DEFINE a == [w.values EXCEPT ![w.pos % WindowSize] = v]
           c == IF w.count < WindowSize THEN w.count + 1 ELSE w.count
           q == w.pos + 1
<1>1. w.values \in [0 .. (WindowSize - 1) -> Nat] /\ w.pos \in 0 .. MaxRecords
      /\ w.count \in 0 .. WindowSize
  BY DEF Signals!Window
<1>2. a \in [0 .. (WindowSize - 1) -> Nat]
  BY <1>1
<1>6. q \in 0 .. MaxRecords /\ c \in 0 .. WindowSize
  BY <1>1
<1>3. Signals!Recorded(w, v) = [values |-> a, pos |-> q, count |-> c]
  BY DEF Signals!Recorded
<1> HIDE DEF a, c, q
<1>4. [values |-> a, pos |-> q, count |-> c] \in Signals!Window
  BY <1>2, <1>6 DEF Signals!Window
<1>5. /\ Signals!Recorded(w, v).pos = q /\ Signals!Recorded(w, v).count = c
      /\ Signals!Recorded(w, v).values = a
  BY <1>3
<1> QED
  BY <1>3, <1>4, <1>5 DEF a, c, q

\* The windows are empty at first.
LEMMA RingInit == Signals!Init => RingInv
<1> SUFFICES ASSUME Signals!Init PROVE RingInv
  OBVIOUS
<1> USE SignalsAssumption DEF Signals!SignalsAssumption
<1> DEFINE z == [k \in 0 .. (WindowSize - 1) |-> 0]
<1>1. z \in [0 .. (WindowSize - 1) -> Nat] /\ 0 \in 0 .. MaxRecords /\ 0 \in 0 .. WindowSize
  OBVIOUS
<1>2. Signals!Fresh = [values |-> z, pos |-> 0, count |-> 0]
  BY DEF Signals!Fresh
<1> HIDE DEF z
<1>3. Signals!Fresh \in Signals!Window /\ Signals!Fresh.pos = 0 /\ Signals!Fresh.count = 0
  BY <1>1, <1>2 DEF Signals!Window
<1>4. history \in Seq(Values) /\ Len(history) = 0
  BY DEF Signals!Init
<1> QED
  BY <1>3, <1>4 DEF Signals!Init, RingInv, Signals!TypeOK

\* A result that is recorded takes the place of the one that is no longer
\* among the latest, and of no other.
LEMMA RingStep ==
  ASSUME RingInv, [Signals!Next]_Signals!vars
  PROVE  RingInv'
<1> USE SignalsAssumption DEF Signals!SignalsAssumption
<1>0. /\ ttfts \in Signals!Window /\ tpss \in Signals!Window /\ errors \in Signals!Window
      /\ history \in Seq(Values) /\ Len(history) \in Nat
      /\ ttfts.pos \in Nat /\ tpss.pos \in Nat /\ errors.pos \in Nat
      /\ ttfts.count \in Nat
  <2>1. /\ ttfts \in Signals!Window /\ tpss \in Signals!Window /\ errors \in Signals!Window
        /\ history \in Seq(Values)
    BY DEF RingInv, Signals!TypeOK
  <2> QED
    BY <2>1, WindowFields
<1>1. ASSUME NEW u \in Values, NEW v \in Values, Signals!RecordSuccess(u, v)
      PROVE  RingInv'
  <2>1. /\ errors.pos < MaxRecords
        /\ ttfts' = Signals!Recorded(ttfts, u) /\ tpss' = Signals!Recorded(tpss, v)
        /\ errors' = Signals!Recorded(errors, 0) /\ history' = Append(history, u)
        /\ u \in Nat /\ v \in Nat
    BY <1>1 DEF Signals!RecordSuccess
  <2>2. ttfts.pos < MaxRecords /\ tpss.pos < MaxRecords
    BY <1>0, <2>1 DEF RingInv
  <2>3. /\ ttfts' \in Signals!Window /\ ttfts'.pos = ttfts.pos + 1
        /\ ttfts'.count = IF ttfts.count < WindowSize THEN ttfts.count + 1 ELSE ttfts.count
        /\ ttfts'.values = [ttfts.values EXCEPT ![ttfts.pos % WindowSize] = u]
    BY <1>0, <2>1, <2>2, RecordedWindow
  <2>4. /\ tpss' \in Signals!Window /\ tpss'.pos = tpss.pos + 1
        /\ errors' \in Signals!Window /\ errors'.pos = errors.pos + 1
    <3>1. 0 \in Nat
      OBVIOUS
    <3> QED
      BY <1>0, <2>1, <2>2, <3>1, RecordedWindow
  <2>5. /\ history' \in Seq(Values) /\ Len(history') = Len(history) + 1
        /\ history'[Len(history) + 1] = u
        /\ \A k \in 1 .. Len(history) : history'[k] = history[k]
    BY <1>0, <2>1
  <2>6. ASSUME NEW k \in 1 .. Len(history'), k > Len(history') - WindowSize
        PROVE  ttfts'.values[(k - 1) % WindowSize] = history'[k]
    <3>1. /\ ttfts.pos = Len(history)
          /\ ttfts.values \in [0 .. (WindowSize - 1) -> Nat]
      BY <1>0 DEF RingInv, Signals!Window
    <3>2. CASE k = Len(history) + 1
      <4>1. k - 1 = ttfts.pos
        BY <1>0, <3>1, <3>2
      <4>2. ttfts.pos % WindowSize \in 0 .. (WindowSize - 1)
        BY <1>0, PlaceType
      <4> QED
        BY <2>3, <2>5, <3>1, <3>2, <4>1, <4>2
    <3>3. CASE k # Len(history) + 1
      <4>1. k \in 1 .. Len(history) /\ k > Len(history) - WindowSize
        BY <1>0, <2>5, <2>6, <3>3
      <4>2. ttfts.values[(k - 1) % WindowSize] = history[k]
        BY <4>1 DEF RingInv
      <4>3. /\ k - 1 \in Nat /\ k - 1 < ttfts.pos /\ ttfts.pos - (k - 1) < WindowSize
        BY <1>0, <2>5, <2>6, <3>1, <4>1
      <4>4. (k - 1) % WindowSize # ttfts.pos % WindowSize
        BY <1>0, <4>3, Apart
      <4>5. (k - 1) % WindowSize \in 0 .. (WindowSize - 1)
        BY <4>3, PlaceType
      <4> QED
        BY <2>3, <2>5, <3>1, <4>1, <4>2, <4>4, <4>5
    <3> QED
      BY <3>2, <3>3
  <2>7. ttfts'.count =
          IF Len(history') < WindowSize THEN Len(history') ELSE WindowSize
    BY <1>0, <2>3, <2>5 DEF RingInv
  <2>8. /\ ttfts'.pos = Len(history') /\ ttfts'.pos <= errors'.pos /\ tpss'.pos <= errors'.pos
    BY <1>0, <2>3, <2>4, <2>5 DEF RingInv
  <2>9. Signals!TypeOK'
    BY <2>3, <2>4, <2>5 DEF Signals!TypeOK
  <2> QED
    BY <2>6, <2>7, <2>8, <2>9 DEF RingInv
<1>2. CASE Signals!RecordError
  <2>1. /\ errors.pos < MaxRecords /\ errors' = Signals!Recorded(errors, 1)
        /\ UNCHANGED <<ttfts, tpss, history>> /\ 1 \in Nat
    BY <1>2 DEF Signals!RecordError
  <2>2. errors' \in Signals!Window /\ errors'.pos = errors.pos + 1
    BY <1>0, <2>1, RecordedWindow
  <2> QED
    BY <1>0, <2>1, <2>2 DEF RingInv, Signals!TypeOK
<1>3. CASE UNCHANGED Signals!vars
  BY <1>3 DEF Signals!vars, RingInv, Signals!TypeOK
<1> QED
  BY <1>1, <1>2, <1>3 DEF Signals!Next

\* The window is a rearrangement of the latest results.
LEMMA WindowIsLatest ==
  ASSUME RingInv
  PROVE  /\ Len(Signals!Latest) = ttfts.count /\ ttfts.count \in Nat
         /\ Signals!Latest \in [1 .. ttfts.count -> Nat]
         /\ Signals!Held(ttfts) \in [1 .. ttfts.count -> Nat]
         /\ \E p \in Injection(1 .. ttfts.count, 1 .. ttfts.count) :
              \A j \in 1 .. ttfts.count : Signals!Held(ttfts)[p[j]] = Signals!Latest[j]
<1> USE SignalsAssumption DEF Signals!SignalsAssumption
<1> DEFINE n == Len(history)
           m == ttfts.count
           o == IF n > WindowSize THEN n - WindowSize ELSE 0
           slot(j) == ((o + j) - 1) % WindowSize
           p == [j \in 1 .. m |-> slot(j) + 1]
<1>1. /\ history \in Seq(Values) /\ n \in Nat /\ m \in Nat /\ o \in Nat
      /\ m = n - o /\ m <= WindowSize
      /\ ttfts.values \in [0 .. (WindowSize - 1) -> Nat]
  <2>1. ttfts \in Signals!Window /\ history \in Seq(Values) /\ n \in Nat
    BY DEF RingInv, Signals!TypeOK
  <2>2. m = IF n < WindowSize THEN n ELSE WindowSize
    BY DEF RingInv
  <2>3. o \in Nat /\ m \in Nat /\ m = n - o /\ m <= WindowSize
    <3>1. o = IF n > WindowSize THEN n - WindowSize ELSE 0
      OBVIOUS
    <3>2. n \in Nat /\ WindowSize \in Nat
      BY <2>1
    <3> HIDE DEF n, m, o
    <3> QED
      BY <2>2, <3>1, <3>2
  <2> QED
    BY <2>1, <2>3, WindowFields
<1>2. \A k \in 1 .. n : history[k] \in Nat
  <2>1. \A k \in 1 .. n : history[k] \in Values
    BY <1>1
  <2> QED
    BY <2>1
<1>3. Signals!Latest = SubSeq(history, o + 1, n)
  BY <1>1 DEF Signals!Latest
<1>4. /\ Len(Signals!Latest) = m /\ Signals!Latest \in Seq(Nat)
      /\ \A j \in 1 .. m : Signals!Latest[j] = history[o + j]
  <2>1. o + 1 \in Int /\ n \in Int /\ \A i \in (o + 1) .. n : history[i] \in Nat
    BY <1>1, <1>2
  <2>2. /\ n - (o + 1) + 1 = m /\ (IF o + 1 <= n THEN n - (o + 1) + 1 ELSE 0) = m
        /\ \A j \in 1 .. m : o + 1 + j - 1 = o + j
    <3>1. n \in Nat /\ m \in Nat /\ o \in Nat /\ m = n - o
      BY <1>1
    <3> HIDE DEF n, o, m
    <3> QED
      BY <3>1
  <2> HIDE DEF n, o, m
  <2>3. /\ SubSeq(history, o + 1, n) \in Seq(Nat)
        /\ Len(SubSeq(history, o + 1, n)) = IF o + 1 <= n THEN n - (o + 1) + 1 ELSE 0
        /\ \A i \in 1 .. n - (o + 1) + 1 :
             SubSeq(history, o + 1, n)[i] = history[o + 1 + i - 1]
    BY <2>1, SubSeqProperties
  <2> QED
    BY <1>3, <2>2, <2>3
<1>5. Signals!Latest \in [1 .. m -> Nat] /\ \A j \in 1 .. m : Signals!Latest[j] = history[o + j]
  <2> DEFINE L == Signals!Latest
  <2>1. L \in Seq(Nat) /\ Len(L) = m /\ \A j \in 1 .. m : L[j] = history[o + j]
    BY <1>4
  <2> HIDE DEF L, m, o
  <2>2. L \in [1 .. Len(L) -> Nat]
    BY <2>1
  <2> QED
    BY <2>1, <2>2 DEF L
<1>6. /\ Signals!Held(ttfts) \in [1 .. m -> Nat]
      /\ \A k \in 1 .. m : Signals!Held(ttfts)[k] = ttfts.values[k - 1]
  BY <1>1 DEF Signals!Held
<1>7. ASSUME NEW j \in 1 .. m
      PROVE  /\ (o + j) - 1 \in Nat /\ o + j \in 1 .. n
             /\ slot(j) \in 0 .. (m - 1) /\ ttfts.values[slot(j)] = history[o + j]
  <2>1. /\ (o + j) - 1 \in Nat /\ o + j \in 1 .. n /\ o + j > n - WindowSize
    BY <1>1
  <2>2. slot(j) \in 0 .. (WindowSize - 1) /\ ((o + j) - 1 < WindowSize => slot(j) = (o + j) - 1)
    BY <2>1, PlaceType
  <2>3. slot(j) \in 0 .. (m - 1)
    <3>1. CASE n > WindowSize
      BY <1>1, <2>2, <3>1
    <3>2. CASE ~(n > WindowSize)
      <4>1. o = 0 /\ m = n /\ (o + j) - 1 < WindowSize /\ (o + j) - 1 \in 0 .. (m - 1)
        BY <1>1, <3>2
      <4> QED
        BY <2>2, <4>1
    <3> QED
      BY <3>1, <3>2
  <2>4. ttfts.values[slot(j)] = history[o + j]
    BY <2>1 DEF RingInv
  <2> QED
    BY <2>1, <2>3, <2>4
<1>8. ASSUME NEW i \in 1 .. m, NEW j \in 1 .. m, i < j
      PROVE  slot(i) # slot(j)
  <2> DEFINE a == (o + i) - 1
             b == (o + j) - 1
  <2>1. a \in Nat /\ b \in Nat /\ a < b /\ b - a < WindowSize
    BY <1>1, <1>8
  <2> HIDE DEF a, b
  <2>2. a % WindowSize # b % WindowSize
    BY <2>1, Apart
  <2> QED
    BY <2>2 DEF a, b
<1>9. \A j \in 1 .. m : slot(j) \in 0 .. (m - 1) /\ ttfts.values[slot(j)] = history[o + j]
  BY <1>7
<1>10. \A i, j \in 1 .. m : slot(i) = slot(j) => i = j
  <2>1. \A i, j \in 1 .. m : i < j \/ j < i \/ i = j
    OBVIOUS
  <2> QED
    BY <1>8, <2>1
<1> HIDE DEF slot, n, o
<1>11. \A j \in 1 .. m : slot(j) + 1 \in 1 .. m /\ (slot(j) + 1) - 1 = slot(j)
  BY <1>1, <1>9
<1>12. p \in [1 .. m -> 1 .. m] /\ \A j \in 1 .. m : p[j] = slot(j) + 1
  BY <1>11
<1> HIDE DEF p
<1>13. p \in Injection(1 .. m, 1 .. m)
  <2>1. \A a, b \in 1 .. m : p[a] = p[b] => a = b
    BY <1>9, <1>10, <1>12
  <2> QED
    BY <1>12, <2>1 DEF Injection, IsInjective
<1>14. \A j \in 1 .. m : Signals!Held(ttfts)[p[j]] = Signals!Latest[j]
  <2> TAKE j \in 1 .. m
  <2>1. p[j] = slot(j) + 1 /\ p[j] \in 1 .. m /\ p[j] - 1 = slot(j)
    BY <1>11, <1>12
  <2>2. Signals!Held(ttfts)[p[j]] = ttfts.values[p[j] - 1]
    BY <1>6, <2>1
  <2> QED
    BY <1>5, <1>9, <2>1, <2>2
<1> QED
  BY <1>1, <1>4, <1>5, <1>6, <1>13, <1>14

\* The window and the latest results, and the window and its sorted values,
\* hold as many values of any kind.
LEMMA SignalNames ==
  /\ \A S : Signals!Cardinality(S) = Cardinality(S)
  /\ \A S, T : Signals!Injection(S, T) = Injection(S, T)
BY DEF Signals!Cardinality, Cardinality, Signals!IsFiniteSet, IsFiniteSet,
   Signals!Injection, Injection, Signals!IsInjective, IsInjective

\* What is sorted has the same values, in order.
LEMMA SortedValues ==
  ASSUME NEW m \in Nat, NEW h \in [1 .. m -> Nat]
  PROVE  /\ Signals!Sorted(h) \in [1 .. m -> Nat]
         /\ \A i, j \in 1 .. m : i < j => Signals!Sorted(h)[i] <= Signals!Sorted(h)[j]
         /\ \E p \in Injection(1 .. m, 1 .. m) : \A j \in 1 .. m : h[p[j]] = Signals!Sorted(h)[j]
<1> DEFINE p == Signals!Places(h)
<1>1. DOMAIN h = 1 .. m
  OBVIOUS
<1>2. p = CHOOSE r \in Injection(1 .. m, 1 .. m) :
            \A i, j \in 1 .. m : i < j => h[r[i]] <= h[r[j]]
  BY <1>1, SignalNames DEF Signals!Places
<1>3. \E r \in Injection(1 .. m, 1 .. m) : \A i, j \in 1 .. m : i < j => h[r[i]] <= h[r[j]]
  BY SortingExists DEF Sorts
<1>4. p \in Injection(1 .. m, 1 .. m) /\ \A i, j \in 1 .. m : i < j => h[p[i]] <= h[p[j]]
  BY <1>2, <1>3
<1>5. Signals!Sorted(h) = [i \in 1 .. m |-> h[p[i]]]
  BY <1>1 DEF Signals!Sorted
<1> HIDE DEF p
<1>6. \A i \in 1 .. m : p[i] \in 1 .. m
  BY <1>4 DEF Injection
<1> QED
  BY <1>4, <1>5, <1>6

\* The place of the percentile.
LEMMA IndexOfPercentile ==
  ASSUME NEW m \in Nat \ {0}
  PROVE  /\ Signals!Index(m) + 1 \in 1 .. m
         /\ 100 * (Signals!Index(m) + 1) >= 99 * m
         /\ 100 * Signals!Index(m) < 99 * m
<1> DEFINE a == 99 * m + 99
           x == a \div 100
           y == a % 100
<1>1. a \in Nat
  OBVIOUS
<1>2. a = 100 * x + y /\ x \in Int /\ y \in 0 .. 99
  <2> HIDE DEF a
  <2> QED
    BY <1>1, DivMod
<1>3. Signals!Index(m) = x - 1
  BY DEF Signals!Index
<1> HIDE DEF x, y
<1>4. x \in 1 .. m /\ 100 * x >= 99 * m /\ 100 * (x - 1) < 99 * m
  BY <1>2
<1> QED
  BY <1>2, <1>3, <1>4

\* In ascending order a value is not below as many as there are up to its
\* place, and a smaller one is not below fewer.
LEMMA CountUpTo ==
  ASSUME NEW m \in Nat, NEW s \in [1 .. m -> Nat], NEW x \in 1 .. m,
         \A i, j \in 1 .. m : i < j => s[i] <= s[j]
  PROVE  /\ Cardinality({k \in 1 .. m : s[k] <= s[x]}) \in Nat
         /\ Cardinality({k \in 1 .. m : s[k] <= s[x]}) >= x
         /\ \A v \in Nat : v < s[x] =>
              /\ Cardinality({k \in 1 .. m : s[k] <= v}) \in Nat
              /\ Cardinality({k \in 1 .. m : s[k] <= v}) <= x - 1
<1>1. IsFiniteSet(1 .. m) /\ IsFiniteSet(1 .. (x - 1)) /\ Cardinality(1 .. x) = x
      /\ Cardinality(1 .. (x - 1)) = x - 1
  BY FS_Interval
<1> DEFINE A(v) == {k \in 1 .. m : s[k] <= v}
<1>2. \A v \in Nat : IsFiniteSet(A(v)) /\ Cardinality(A(v)) \in Nat
  <2> TAKE v \in Nat
  <2>1. A(v) \in SUBSET (1 .. m)
    OBVIOUS
  <2> HIDE DEF A
  <2>2. IsFiniteSet(A(v))
    BY <1>1, <2>1, FS_Subset
  <2> QED
    BY <2>2, FS_CardinalityType
<1>3. s[x] \in Nat
  OBVIOUS
<1>4. 1 .. x \in SUBSET A(s[x])
  <2> SUFFICES ASSUME NEW k \in 1 .. x PROVE k \in 1 .. m /\ s[k] <= s[x]
    OBVIOUS
  <2>1. k \in 1 .. m /\ (k < x \/ k = x)
    OBVIOUS
  <2> QED
    BY <1>3, <2>1
<1>5. \A v \in Nat : v < s[x] => A(v) \in SUBSET (1 .. (x - 1))
  <2> SUFFICES ASSUME NEW v \in Nat, v < s[x], NEW k \in 1 .. m, s[k] <= v
               PROVE  k \in 1 .. (x - 1)
    OBVIOUS
  <2>1. s[k] \in Nat /\ s[k] < s[x]
    BY <1>3
  <2>2. ~(x < k) /\ k # x
    BY <1>3, <2>1
  <2> QED
    BY <2>2
<1> HIDE DEF A
<1>6. Cardinality(1 .. x) <= Cardinality(A(s[x]))
  BY <1>2, <1>3, <1>4, FS_Subset
<1>7. \A v \in Nat : v < s[x] => Cardinality(A(v)) <= Cardinality(1 .. (x - 1))
  BY <1>1, <1>5, FS_Subset
<1>8. /\ Cardinality(A(s[x])) \in Nat /\ Cardinality(A(s[x])) >= x
      /\ \A v \in Nat : v < s[x] => Cardinality(A(v)) \in Nat /\ Cardinality(A(v)) <= x - 1
  BY <1>1, <1>2, <1>3, <1>6, <1>7
<1> QED
  BY <1>8 DEF A

\* The window holds the latest results, and its percentile is theirs.
LEMMA WindowIsTrue ==
  ASSUME RingInv
  PROVE  Signals!WindowHoldsLatest /\ Signals!PercentileOfLatest
<1> DEFINE m == ttfts.count
           h == Signals!Held(ttfts)
           l == Signals!Latest
           s == Signals!Sorted(h)
           x == Signals!Index(m) + 1
<1>1. /\ m \in Nat /\ Len(l) = m
      /\ l \in [1 .. m -> Nat] /\ h \in [1 .. m -> Nat]
      /\ \E p \in Injection(1 .. m, 1 .. m) : \A j \in 1 .. m : h[p[j]] = l[j]
  BY WindowIsLatest
<1>2. /\ s \in [1 .. m -> Nat] /\ \A i, j \in 1 .. m : i < j => s[i] <= s[j]
      /\ \E p \in Injection(1 .. m, 1 .. m) : \A j \in 1 .. m : h[p[j]] = s[j]
  <2> HIDE DEF m, h
  <2> QED
    BY <1>1, SortedValues
<1>3. Signals!P99(ttfts) = IF m = 0 THEN 0 ELSE s[x]
  BY DEF Signals!P99
<1>4. \A v : Signals!Occurrences(h, v) = Cardinality({k \in 1 .. m : h[k] = v})
             /\ Signals!Occurrences(l, v) = Cardinality({k \in 1 .. m : l[k] = v})
  <2>1. DOMAIN h = 1 .. m /\ DOMAIN l = 1 .. m
    BY <1>1
  <2> HIDE DEF h, l, m
  <2> QED
    BY <2>1, SignalNames DEF Signals!Occurrences
<1>5. m # 0 => x \in 1 .. m /\ 100 * x >= 99 * m /\ 100 * (x - 1) < 99 * m
  <2>1. m # 0 => Signals!Index(m) + 1 \in 1 .. m /\ 100 * (Signals!Index(m) + 1) >= 99 * m
                 /\ 100 * Signals!Index(m) < 99 * m
    <3> HIDE DEF m
    <3> QED
      BY <1>1, IndexOfPercentile
  <2>2. Signals!Index(m) \in Int
    BY <1>1 DEF Signals!Index
  <2>3. (Signals!Index(m) + 1) - 1 = Signals!Index(m)
    BY <2>2
  <2> QED
    BY <2>1, <2>3
<1> HIDE DEF h, l, s, x, m
<1>6. \A X : Cardinality(PlacesIn(m, h, X)) = Cardinality(PlacesIn(m, l, X))
  <2>1. PICK p \in Injection(1 .. m, 1 .. m) : \A j \in 1 .. m : h[p[j]] = l[j]
    BY <1>1
  <2>2. m \in Nat
    BY <1>1
  <2> QED
    BY <2>1, <2>2, Rearranged
<1>7. \A X : Cardinality(PlacesIn(m, h, X)) = Cardinality(PlacesIn(m, s, X))
  <2>1. PICK p \in Injection(1 .. m, 1 .. m) : \A j \in 1 .. m : h[p[j]] = s[j]
    BY <1>2
  <2>2. m \in Nat
    BY <1>1
  <2> QED
    BY <2>1, <2>2, Rearranged
<1>8. \A f, v : PlacesIn(m, f, {v}) = {k \in 1 .. m : f[k] = v}
  BY DEF PlacesIn
<1>9. \A v \in Nat : PlacesIn(m, l, 0 .. v) = {k \in 1 .. m : l[k] <= v}
                     /\ PlacesIn(m, s, 0 .. v) = {k \in 1 .. m : s[k] <= v}
  <2> TAKE v \in Nat
  <2>1. \A k \in 1 .. m : l[k] \in Nat /\ s[k] \in Nat
    BY <1>1, <1>2
  <2>2. \A k \in 1 .. m : (l[k] \in 0 .. v <=> l[k] <= v) /\ (s[k] \in 0 .. v <=> s[k] <= v)
    BY <2>1
  <2> QED
    BY <2>2 DEF PlacesIn
<1>10. \A v : Signals!Occurrences(h, v) = Signals!Occurrences(l, v)
  <2> TAKE v
  <2>1. Cardinality(PlacesIn(m, h, {v})) = Cardinality(PlacesIn(m, l, {v}))
    BY <1>6
  <2>2. PlacesIn(m, h, {v}) = {k \in 1 .. m : h[k] = v} /\ PlacesIn(m, l, {v}) = {k \in 1 .. m : l[k] = v}
    BY <1>8, Zenon
  <2> QED
    BY <1>4, <2>1, <2>2
<1>11. \A v \in Nat : Cardinality({k \in 1 .. m : l[k] <= v})
                       = Cardinality({k \in 1 .. m : s[k] <= v})
  <2> TAKE v \in Nat
  <2>1. Cardinality(PlacesIn(m, l, 0 .. v)) = Cardinality(PlacesIn(m, s, 0 .. v))
    BY <1>6, <1>7
  <2> QED
    BY <1>9, <2>1
<1>12. Signals!WindowHoldsLatest
  <2>1. ttfts.count = Len(Signals!Latest)
    BY <1>1 DEF m, l
  <2> QED
    BY <1>10, <2>1 DEF Signals!WindowHoldsLatest, h, l
<1>13. ASSUME m > 0 PROVE
         /\ Signals!Occurrences(l, s[x]) > 0
         /\ 100 * Cardinality({k \in 1 .. m : l[k] <= s[x]}) >= 99 * m
         /\ \A k \in 1 .. m :
              100 * Cardinality({j \in 1 .. m : l[j] <= l[k]}) >= 99 * m => s[x] <= l[k]
  <2>1. x \in 1 .. m /\ 100 * x >= 99 * m /\ 100 * (x - 1) < 99 * m
    BY <1>1, <1>5, <1>13
  <2>2. s[x] \in Nat
    BY <1>2, <2>1
  <2> DEFINE c(v) == Cardinality({k \in 1 .. m : s[k] <= v})
  <2>3. /\ c(s[x]) \in Nat /\ c(s[x]) >= x
        /\ \A v \in Nat : v < s[x] => c(v) \in Nat /\ c(v) <= x - 1
    <3>1. m \in Nat /\ s \in [1 .. m -> Nat] /\ x \in 1 .. m
          /\ \A i, j \in 1 .. m : i < j => s[i] <= s[j]
      BY <1>1, <1>2, <2>1
    <3> QED
      BY <3>1, CountUpTo, Zenon
  <2>4. \A v \in Nat : c(v) = Cardinality({k \in 1 .. m : l[k] <= v})
    BY <1>11
  <2> HIDE DEF c
  <2>5. 100 * c(s[x]) >= 99 * m
    BY <1>1, <2>1, <2>3
  <2>6. \A v \in Nat : v < s[x] => ~(100 * c(v) >= 99 * m)
    BY <1>1, <2>1, <2>3
  <2>7. ASSUME NEW k \in 1 .. m, 100 * c(l[k]) >= 99 * m
        PROVE  s[x] <= l[k]
    <3>1. l[k] \in Nat
      BY <1>1
    <3> QED
      BY <2>2, <2>6, <2>7, <3>1
  <2>8. \A k \in 1 .. m : l[k] \in Nat
    BY <1>1
  <2>9. Signals!Occurrences(l, s[x]) > 0
    <3> DEFINE B == {k \in 1 .. m : s[k] = s[x]}
    <3>1. B \in SUBSET (1 .. m) /\ x \in B
      BY <2>1
    <3> HIDE DEF B
    <3>2. IsFiniteSet(1 .. m)
      BY <1>1, FS_Interval
    <3>3. IsFiniteSet(B)
      BY <3>1, <3>2, FS_Subset, Zenon
    <3>4. Cardinality(B) \in Nat
      BY <3>3, FS_CardinalityType, Zenon
    <3>5. Cardinality(B) # 0
      BY <3>1, <3>3, FS_EmptySet, Zenon
    <3>6. B = PlacesIn(m, s, {s[x]})
      BY <1>8, Zenon DEF B
    <3>7. Cardinality(PlacesIn(m, s, {s[x]})) = Cardinality(PlacesIn(m, l, {s[x]}))
      BY <1>6, <1>7
    <3>8. PlacesIn(m, l, {s[x]}) = {k \in 1 .. m : l[k] = s[x]}
      BY <1>8, Zenon
    <3>9. Signals!Occurrences(l, s[x]) = Cardinality(B)
      BY <1>4, <3>6, <3>7, <3>8
    <3> QED
      BY <3>4, <3>5, <3>9
  <2> QED
    BY <2>2, <2>4, <2>5, <2>7, <2>8, <2>9
<1>14. Signals!PercentileOfLatest
  <2> SUFFICES ASSUME m > 0 PROVE Signals!PercentileOfLatest
    BY DEF Signals!PercentileOfLatest, m
  <2>1. Signals!P99(ttfts) = s[x]
    BY <1>1, <1>3
  <2>2. DOMAIN l = 1 .. m /\ Len(l) = m
    BY <1>1
  <2> QED
    BY <1>13, <2>1, <2>2, SignalNames DEF Signals!PercentileOfLatest, l
<1> QED
  BY <1>12, <1>14

-----------------------------------------------------------------------------
(***************************************************************************)
(* The Router page.                                                        *)
(***************************************************************************)
LEMMA PageNames ==
  /\ \A S : Page!Cardinality(S) = Cardinality(S)
  /\ \A S : Page!IsFiniteSet(S) <=> IsFiniteSet(S)
  /\ \A S, T : Page!Injection(S, T) = Injection(S, T)
  /\ \A f, S : Page!Restrict(f, S) = [e \in S |-> f[e]]
BY DEF Page!Cardinality, Cardinality, Page!IsFiniteSet, IsFiniteSet, Page!Restrict,
   Page!Injection, Injection, Page!IsInjective, IsInjective

\* An answer is the health of some endpoints.
LEMMA AnswerIs ==
  ASSUME NEW S \in SUBSET Endpoints, NEW f \in [S -> Page!Health]
  PROVE  f \in Page!Answers
BY DEF Page!Answers

LEMMA AnswerHas ==
  ASSUME NEW f \in Page!Answers
  PROVE  DOMAIN f \in SUBSET Endpoints /\ f \in [DOMAIN f -> Page!Health]
<1>1. PICK S \in SUBSET Endpoints : f \in [S -> Page!Health]
  BY DEF Page!Answers
<1> QED
  BY <1>1

\* Nothing is shown until the first answer.
LEMMA PageInit == Page!Init => Page!TypeOK
<1> SUFFICES ASSUME Page!Init PROVE Page!TypeOK
  OBVIOUS
<1> USE PageAssumption DEF Page!RouterPageAssumption
<1>1. Page!InitialHealth \in Page!Health
  <2>1. "CLOSED" \in Page!States /\ 0 \in 0 .. MaxScore
    BY DEF Page!States
  <2> QED
    BY <2>1 DEF Page!InitialHealth, Page!Health
<1>2. PICK S \in SUBSET Endpoints : health = [e \in S |-> Page!InitialHealth]
  BY DEF Page!Init
<1>3. health \in [S -> Page!Health]
  BY <1>1, <1>2
<1>4. health \in Page!Answers
  BY <1>3, AnswerIs
<1>5. data \in [{} -> Page!Health]
  BY DEF Page!Init
<1>6. data \in Page!Answers
  BY <1>5, AnswerIs
<1> QED
  BY <1>4, <1>6 DEF Page!Init, Page!TypeOK

\* What the page holds stays an answer of the gateway.
LEMMA PageStep ==
  ASSUME Page!TypeOK, [Page!Next]_Page!vars
  PROVE  Page!TypeOK'
<1> USE PageAssumption DEF Page!RouterPageAssumption
<1>1. /\ health \in Page!Answers /\ data \in Page!Answers
      /\ asked \in BOOLEAN /\ tenantId \in Tenant
      /\ DOMAIN health \in SUBSET Endpoints /\ health \in [DOMAIN health -> Page!Health]
  BY AnswerHas DEF Page!TypeOK
<1>2. ASSUME NEW e \in Endpoints, Page!AddEndpoint(e)
      PROVE  Page!TypeOK'
  <2> DEFINE S == DOMAIN health \cup {e}
  <2>1. "CLOSED" \in Page!States /\ 0 \in 0 .. MaxScore
    BY DEF Page!States
  <2>2. Page!InitialHealth \in Page!Health
    BY <2>1 DEF Page!InitialHealth, Page!Health
  <2>3. S \in SUBSET Endpoints
    BY <1>1
  <2>4. health' = [f \in S |-> IF f = e THEN Page!InitialHealth ELSE health[f]]
        /\ UNCHANGED <<data, asked, tenantId>>
    BY <1>2 DEF Page!AddEndpoint
  <2>5. \A f \in S : f # e => health[f] \in Page!Health
    BY <1>1
  <2> HIDE DEF S
  <2>6. health' \in [S -> Page!Health]
    BY <2>2, <2>4, <2>5
  <2>7. health' \in Page!Answers
    BY <2>3, <2>6, AnswerIs
  <2> QED
    BY <1>1, <2>4, <2>7 DEF Page!TypeOK
<1>3. ASSUME NEW e \in Endpoints, Page!RemoveEndpoint(e)
      PROVE  Page!TypeOK'
  <2> DEFINE S == DOMAIN health \ {e}
  <2>1. S \in SUBSET Endpoints /\ \A f \in S : health[f] \in Page!Health
    BY <1>1
  <2>2. health' = [f \in S |-> health[f]] /\ UNCHANGED <<data, asked, tenantId>>
    BY <1>3, PageNames DEF Page!RemoveEndpoint
  <2> HIDE DEF S
  <2>3. health' \in [S -> Page!Health]
    BY <2>1, <2>2
  <2>4. health' \in Page!Answers
    BY <2>1, <2>3, AnswerIs
  <2> QED
    BY <1>1, <2>2, <2>4 DEF Page!TypeOK
<1>4. ASSUME NEW e \in Endpoints, NEW h \in Page!Health, Page!HealthChanges(e, h)
      PROVE  Page!TypeOK'
  <2>1. health' = [health EXCEPT ![e] = h] /\ UNCHANGED <<data, asked, tenantId>>
    BY <1>4 DEF Page!HealthChanges
  <2>2. health' \in [DOMAIN health -> Page!Health]
    BY <1>1, <1>4, <2>1
  <2>3. health' \in Page!Answers
    BY <1>1, <2>2, AnswerIs
  <2> QED
    BY <1>1, <2>1, <2>3 DEF Page!TypeOK
<1>5. ASSUME NEW t \in Tenant, Page!TenantChanges(t)
      PROVE  Page!TypeOK'
  BY <1>1, <1>5 DEF Page!TenantChanges, Page!TypeOK
<1>6. CASE Page!Focus \/ Page!Answered \/ Page!Fails
  BY <1>1, <1>6 DEF Page!Focus, Page!Answered, Page!Fails, Page!TypeOK
<1>7. CASE UNCHANGED Page!vars
  BY <1>7 DEF Page!vars, Page!TypeOK
<1> QED
  BY <1>2, <1>3, <1>4, <1>5, <1>6, <1>7 DEF Page!Next

\* A table holds the endpoints of its provider, each once and the best first.
LEMMA TableIsSorted ==
  ASSUME Page!TypeOK, NEW v
  PROVE  LET n == Cardinality(Page!Grouped(v))
             t == Page!Table(v)
         IN  /\ n \in Nat /\ t \in [1 .. n -> Page!Grouped(v)]
             /\ \A e \in Page!Grouped(v) : \E k \in 1 .. n : t[k] = e
             /\ \A k, l \in 1 .. n : k < l => data[t[k]].score >= data[t[l]].score
<1> USE PageAssumption DEF Page!RouterPageAssumption
<1> DEFINE G == Page!Grouped(v)
           n == Cardinality(G)
           t == Page!Table(v)
           score(e) == data[e].score
<1>1. DOMAIN data \in SUBSET Endpoints /\ data \in [DOMAIN data -> Page!Health]
  BY AnswerHas DEF Page!TypeOK
<1>2. G \in SUBSET Endpoints /\ G \in SUBSET DOMAIN data
  BY <1>1 DEF Page!Grouped, Page!Shown
<1>3. \A e \in G : score(e) \in 0 .. MaxScore
  BY <1>1, <1>2 DEF Page!Health
<1>4. t = CHOOSE s \in Injection(1 .. n, G) :
            \A k, l \in DOMAIN s : k < l => score(s[k]) >= score(s[l])
  BY PageNames DEF Page!Table
<1>5. IsFiniteSet(Endpoints)
  BY PageNames
<1> HIDE DEF G, t, score
<1>6. IsFiniteSet(G)
  BY <1>2, <1>5, FS_Subset, Zenon
<1>7. n \in Nat /\ ExistsBijection(1 .. n, G)
  BY <1>6, FS_CardinalityType, Zenon
<1>8. PICK b : b \in Bijection(1 .. n, G)
  BY <1>7 DEF ExistsBijection
<1> HIDE DEF n
<1>9. b \in [1 .. n -> G] /\ \A i, j \in 1 .. n : b[i] = b[j] => i = j
  BY <1>8 DEF Bijection, Injection, IsInjective
<1> DEFINE f == [i \in 1 .. n |-> MaxScore - score(b[i])]
<1>10. f \in [1 .. n -> Nat]
  <2>1. \A i \in 1 .. n : MaxScore - score(b[i]) \in Nat
    BY <1>3, <1>9
  <2> QED
    BY <2>1
<1>11. \A i \in 1 .. n : f[i] = MaxScore - score(b[i])
  OBVIOUS
<1> HIDE DEF f
<1>12. PICK p : Sorts(p, f, n)
  BY <1>7, <1>10, SortingExists
<1>13. /\ p \in [1 .. n -> 1 .. n] /\ \A i, j \in 1 .. n : p[i] = p[j] => i = j
       /\ \A i, j \in 1 .. n : i < j => f[p[i]] <= f[p[j]]
  BY <1>12 DEF Sorts, Injection, IsInjective
<1> DEFINE s == [i \in 1 .. n |-> b[p[i]]]
<1>14. \A i \in 1 .. n : s[i] = b[p[i]] /\ p[i] \in 1 .. n
  BY <1>13
<1>15. s \in [1 .. n -> G]
  BY <1>9, <1>13
<1> HIDE DEF s
<1>16. \A i, j \in 1 .. n : s[i] = s[j] => i = j
  BY <1>9, <1>13, <1>14
<1>17. \A i, j \in 1 .. n : i < j => score(s[i]) >= score(s[j])
  <2> SUFFICES ASSUME NEW i \in 1 .. n, NEW j \in 1 .. n, i < j
               PROVE  score(s[i]) >= score(s[j])
    OBVIOUS
  <2>1. f[p[i]] <= f[p[j]]
    BY <1>13
  <2>2. f[p[i]] = MaxScore - score(s[i]) /\ f[p[j]] = MaxScore - score(s[j])
    BY <1>11, <1>14
  <2>3. score(s[i]) \in Nat /\ score(s[j]) \in Nat
    BY <1>3, <1>15
  <2> QED
    BY <2>1, <2>2, <2>3
<1>18. s \in Injection(1 .. n, G) /\ DOMAIN s = 1 .. n
  BY <1>15, <1>16 DEF Injection, IsInjective
<1>19. /\ t \in Injection(1 .. n, G)
       /\ \A k, l \in DOMAIN t : k < l => score(t[k]) >= score(t[l])
  <2>1. \A k, l \in DOMAIN s : k < l => score(s[k]) >= score(s[l])
    BY <1>17, <1>18
  <2> QED
    BY <1>4, <1>18, <2>1
<1>20. IsFiniteSet(1 .. n) /\ Cardinality(1 .. n) = n
  <2>1. /\ IsFiniteSet(1 .. n)
        /\ Cardinality(1 .. n) = IF 1 > n THEN 0 ELSE n - 1 + 1
    BY <1>7, FS_Interval
  <2> QED
    BY <1>7, <2>1
<1>21. t \in Surjection(1 .. n, G)
  <2>1. Cardinality(1 .. n) = Cardinality(G)
    BY <1>20 DEF n
  <2> QED
    BY <1>6, <1>19, <2>1, FS_Injection, Zenon
<1>22. t \in [1 .. n -> G] /\ DOMAIN t = 1 .. n
       /\ \A e \in G : \E k \in 1 .. n : t[k] = e
  BY <1>21 DEF Surjection
<1> QED
  BY <1>7, <1>19, <1>22 DEF n, G, t, score

\* The page shows the endpoints of its tenant.
LEMMA PageIsTrue ==
  ASSUME Page!TypeOK
  PROVE  Page!TablesOfTenant /\ Page!BestFirst
<1> DEFINE n(v) == Cardinality(Page!Grouped(v))
<1>1. ASSUME NEW v
      PROVE  /\ n(v) \in Nat /\ Page!Table(v) \in [1 .. n(v) -> Page!Grouped(v)]
             /\ \A e \in Page!Grouped(v) : \E k \in 1 .. n(v) : Page!Table(v)[k] = e
             /\ \A k, l \in 1 .. n(v) :
                  k < l => data[Page!Table(v)[k]].score >= data[Page!Table(v)[l]].score
  BY TableIsSorted
<1> HIDE DEF n
<1>2. ASSUME NEW v PROVE Page!Rows(v) = Page!Grouped(v)
  <2>1. DOMAIN Page!Table(v) = 1 .. n(v)
    BY <1>1
  <2> QED
    BY <1>1, <2>1 DEF Page!Rows
<1>3. UNION {Page!Rows(v) : v \in Page!ProvidersShown} = Page!Shown
  <2>1. UNION {Page!Rows(v) : v \in Page!ProvidersShown}
          = UNION {Page!Grouped(v) : v \in Page!ProvidersShown}
    BY <1>2
  <2>2. UNION {Page!Grouped(v) : v \in Page!ProvidersShown} = Page!Shown
    BY DEF Page!Grouped, Page!ProvidersShown
  <2> QED
    BY <2>1, <2>2
<1>4. ASSUME NEW v PROVE Len(Page!Table(v)) = Page!Cardinality(Page!Grouped(v))
  <2>1. Page!Table(v) \in Seq(Page!Grouped(v))
    BY <1>1, SeqDef
  <2>2. Len(Page!Table(v)) \in Nat /\ DOMAIN Page!Table(v) = 1 .. Len(Page!Table(v))
    BY <2>1, LenProperties
  <2>3. DOMAIN Page!Table(v) = 1 .. n(v) /\ n(v) \in Nat
    BY <1>1
  <2>4. Len(Page!Table(v)) = n(v)
    BY <2>2, <2>3
  <2> QED
    BY <2>4, PageNames DEF n
<1>5. Page!TablesOfTenant
  <2>1. Page!Shown = {e \in DOMAIN data : TenantOf[e] = tenantId}
    BY DEF Page!Shown
  <2>2. \A s \in Page!States : Page!Count(s) = Page!Cardinality(
          {e \in UNION {Page!Rows(v) : v \in Page!ProvidersShown} : data[e].circuitState = s})
    BY <1>3 DEF Page!Count
  <2> QED
    BY <1>3, <1>4, <2>1, <2>2 DEF Page!TablesOfTenant
<1>6. Page!BestFirst
  <2> SUFFICES ASSUME NEW v \in Page!ProvidersShown, NEW k \in DOMAIN Page!Table(v),
                      NEW l \in DOMAIN Page!Table(v), k < l
               PROVE  data[Page!Table(v)[k]].score >= data[Page!Table(v)[l]].score
    BY DEF Page!BestFirst
  <2>1. k \in 1 .. n(v) /\ l \in 1 .. n(v)
    BY <1>1
  <2> QED
    BY <1>1, <2>1
<1> QED
  BY <1>5, <1>6

(* Whatever results are recorded and in which order, the window of an      *)
(* endpoint holds the latest of them and its percentile is theirs; and     *)
(* whichever answer the page holds, and whatever tenant is in scope, its   *)
(* tables show the endpoints of that tenant, all of them and best first,   *)
(* for any endpoints, window and values (endpoint.go:86-134,               *)
(* Router.tsx:50-58, 82-120).                                              *)
THEOREM FiguresAreAlwaysTrue == MCSpec => []FiguresAreTrue
<1> DEFINE Inv == RingInv /\ Page!TypeOK
<1>1. MCInit => Inv
  BY RingInit, PageInit DEF MCInit
<1>2. Inv /\ [MCNext]_<<moving, vars, consoleVars, signalVars, pageVars>> => Inv'
  <2>1. [MCNext]_<<moving, vars, consoleVars, signalVars, pageVars>>
          => [Signals!Next]_Signals!vars /\ [Page!Next]_Page!vars
    BY DEF MCNext, signalVars, Signals!vars, pageVars, Page!vars
  <2> QED
    BY <2>1, RingStep, PageStep
<1>3. Inv => FiguresAreTrue
  <2> SUFFICES ASSUME Inv PROVE FiguresAreTrue
    OBVIOUS
  <2>1. Signals!TypeOK
    BY DEF RingInv
  <2> QED
    BY <2>1, WindowIsTrue, PageIsTrue DEF FiguresAreTrue
<1> QED
  BY <1>1, <1>2, <1>3, PTL DEF MCSpec

=============================================================================
