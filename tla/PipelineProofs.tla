--------------------------- MODULE PipelineProofs --------------------------
(***************************************************************************)
(* Theorems about RequestPipeline, for any number of requests, with and    *)
(* without the detector, for any threshold and probe interval, and about   *)
(* the checks of a request: the cached copies of rules and verdicts, for   *)
(* any lifetimes, and the evaluation of any rules and lists of patterns.   *)
(***************************************************************************)
EXTENDS MCRequestPipeline, Sequences, WellFoundedInduction, TLAPS

(***************************************************************************)
(* The types.                                                              *)
(***************************************************************************)
LEMMA TypingInit == Init => TypeOK
BY BreakerAssumption, BreakerTyping
  DEF Init, TypeOK, Places, Apis, NewBreaker, Breaker, CircuitState

\* Every step of the handlers, the endpoint and time keeps the types.
LEMMA TypingNext == TypeOK /\ [Next]_vars => TypeOK'
<1> SUFFICES ASSUME TypeOK, [Next]_vars
             PROVE  TypeOK'
  OBVIOUS
<1> USE DEF TypeOK, Goto, vars, handlerVars, callVars, historyVars, healthVars
<1>a. ASSUME NEW r \in Request, NEW p \in Places, Goto(r, p)
      PROVE  pc' \in [Request -> Places]
  BY <1>a
<1>b. ASSUME NEW r \in Request, WriteHeader(r)
      PROVE  heads' \in [Request -> 0 .. 2]
  BY <1>b DEF WriteHeader
<1>c. ASSUME NEW r \in Request, NEW p \in Places, WriteError(r, p)
      PROVE  pc' \in [Request -> Places] /\ heads' \in [Request -> 0 .. 2]
  BY <1>b, <1>c DEF WriteError, Places
<1>d. ASSUME RecordError
      PROVE  breaker' \in Breaker /\ streak' \in 0 .. FailThreshold
  BY <1>d, BreakerTyping, BreakerAssumption DEF RecordError, Extended
<1>e. ASSUME NEW r \in Request, NEW S, EndSpans(r, S)
      PROVE  open' \in [Request -> SUBSET {"thread", "llm", "upstream"}]
  BY <1>e DEF EndSpans
<1>1. ASSUME NEW r \in Request, NEW a \in Apis, Start(r, a)
      PROVE  TypeOK'
  BY <1>1 DEF Start, Places
<1>2. ASSUME NEW r \in Request, GiveUp(r)
      PROVE  TypeOK'
  BY <1>2 DEF GiveUp
<1>3. ASSUME NEW r \in Request, BadRequest(r)
      PROVE  TypeOK'
  BY <1>3, <1>c DEF BadRequest, Places
<1>4. ASSUME NEW r \in Request, Accept(r)
      PROVE  TypeOK'
  BY <1>4 DEF Accept, Places, InputChecks
<1>5. ASSUME NEW r \in Request, CheckPasses(r)
      PROVE  TypeOK'
  BY <1>5 DEF CheckPasses, AfterCheck, Places, InputChecks
<1>6. ASSUME NEW r \in Request, CheckRefuses(r)
      PROVE  TypeOK'
  BY <1>6, <1>b DEF CheckRefuses, WriteError, Places
<1>7. ASSUME NEW r \in Request, BeginPick(r)
      PROVE  TypeOK'
  BY <1>7 DEF BeginPick, Places
<1>8. ASSUME NEW r \in Request, ScanEndpoint(r)
      PROVE  TypeOK'
  <2>1. Available(breaker) \in BOOLEAN /\ AfterAvailable(breaker) \in Breaker
    BY BreakerTyping DEF Available
  <2> QED
    BY <1>8, <2>1 DEF ScanEndpoint, Places
<1>9. ASSUME NEW r \in Request, PickFails(r)
      PROVE  TypeOK'
  BY <1>9, <1>b DEF PickFails, WriteError, Places
<1>10. ASSUME NEW r \in Request, PickSucceeds(r)
       PROVE  TypeOK'
  BY <1>10 DEF PickSucceeds, Places, Calling
<1>11. ASSUME NEW r \in Request, BuildFails(r)
       PROVE  TypeOK'
  BY <1>11, <1>b DEF BuildFails, WriteError, Places
<1>12. ASSUME NEW r \in Request, Build(r)
       PROVE  TypeOK'
  BY <1>12 DEF Build, Places, Calling
<1>13. ASSUME NEW r \in Request, DoFails(r)
       PROVE  TypeOK'
  BY <1>13, <1>b, <1>d, <1>e DEF DoFails, WriteError, Places
<1>14. ASSUME NEW r \in Request, NEW s \in {"ok", "4xx", "5xx"}, Answered(r, s)
       PROVE  TypeOK'
  BY <1>14, <1>e DEF Answered, Places, Calling
<1>15. ASSUME NEW r \in Request, NEW b \in {"whole", "brokenOff", "left"}, BodyEnds(r, b)
       PROVE  body' \in [Request -> {"none", "whole", "brokenOff", "left"}]
  BY <1>15 DEF BodyEnds
<1>16. ASSUME NEW r \in Request, WriteHead(r)
       PROVE  TypeOK'
  BY <1>16, <1>b DEF WriteHead, Places, Calling
<1>17. ASSUME NEW r \in Request, NEW b \in {"whole", "brokenOff", "left"}, Relay(r, b)
       PROVE  TypeOK'
  BY <1>17, <1>15 DEF Relay, Places, Calling
<1>18. ASSUME NEW r \in Request, NEW b \in {"whole", "brokenOff", "left"}, ReadBody(r, b)
       PROVE  TypeOK'
  BY <1>18, <1>15 DEF ReadBody, Places, Calling
<1>19. ASSUME NEW r \in Request, OutputPasses(r)
       PROVE  TypeOK'
  BY <1>19 DEF OutputPasses, Places, Calling
<1>20. ASSUME NEW r \in Request, OutputRefuses(r)
       PROVE  TypeOK'
  BY <1>20, <1>b, <1>e DEF OutputRefuses, WriteError, Places
<1>21. ASSUME NEW r \in Request, Deliver(r)
       PROVE  TypeOK'
  BY <1>21, <1>b DEF Deliver, Places, Calling
<1>22. ASSUME NEW r \in Request, Record(r)
       PROVE  TypeOK'
  <2>1. breaker' \in Breaker /\ streak' \in 0 .. FailThreshold
    BY <1>22, <1>d, BreakerTyping, BreakerAssumption DEF Record
  <2> QED
    BY <1>22, <2>1, <1>e DEF Record, Places
<1>23. ASSUME NEW r \in Request, Return(r)
       PROVE  TypeOK'
  BY <1>23 DEF Return, Places, Apis
<1>24. ASSUME Tick
       PROVE  TypeOK'
  BY <1>24, BreakerTyping DEF Tick
<1>25. CASE UNCHANGED vars
  BY <1>25
<1> QED
  BY <1>1, <1>2, <1>3, <1>4, <1>5, <1>6, <1>7, <1>8, <1>9, <1>10, <1>11, <1>12,
     <1>13, <1>14, <1>16, <1>17, <1>18, <1>19, <1>20, <1>21, <1>22, <1>23,
     <1>24, <1>25
  DEF Next, Compute, Judge, Converse

(* Every reachable state of the pipeline has the type TypeOK states. *)
THEOREM TypeCorrect == Spec => []TypeOK
BY TypingInit, TypingNext, PTL DEF Spec

-----------------------------------------------------------------------------
(***************************************************************************)
(* What a handler has done is fixed by where it stands: which spans it has *)
(* open, whether it has written a header, whether a check has refused and  *)
(* whether the model's answer is out.  This is inductive, and the three    *)
(* safety invariants are read off it.                                      *)
(***************************************************************************)
Before == {"read", "pick", "scanning", "scanned", "build"} \cup InputChecks

Stands(place, spans, written, ref, s, d) ==
  /\ place = "idle" => spans = {} /\ written = 0 /\ ref = {} /\ ~s /\ ~d
  /\ place \in Before =>
       spans = {"thread"} /\ written = 0 /\ ref = {} /\ ~s /\ ~d
  /\ place = "call" =>
       spans = {"thread", "llm", "upstream"} /\ written = 0 /\ ref = {} /\ ~d
  /\ place \in {"body", "inspect", "deliver", "head"} =>
       spans = {"thread", "llm"} /\ written = 0 /\ ref = {} /\ ~d
  /\ place \in {"relay", "record"} =>
       /\ spans = {"thread", "llm"} /\ written = 1 /\ ref = {}
       /\ place = "relay" => ~d
  /\ place = "done" =>
       /\ spans = {"thread"} /\ written = 1
       /\ "input" \in ref => ~s
       /\ "output" \in ref => ~d

Standing ==
  \A r \in Request :
    Stands(pc[r], open[r], heads[r], refused[r], sent[r], delivered[r])

\* A request that has not come in stands nowhere and has done nothing.
LEMMA StandingInit == Init => Standing
BY DEF Init, Standing, Stands, Before, InputChecks

\* Every step leaves each handler's marks as its place says.
LEMMA StandingNext == TypeOK /\ Standing /\ [Next]_vars => Standing'
<1> SUFFICES ASSUME TypeOK, Standing, [Next]_vars, NEW x \in Request
             PROVE  Stands(pc'[x], open'[x], heads'[x], refused'[x], sent'[x], delivered'[x])
  BY DEF Standing
<1> DEFINE StandsNext ==
      Stands(pc'[x], open'[x], heads'[x], refused'[x], sent'[x], delivered'[x])
<1>a. Stands(pc[x], open[x], heads[x], refused[x], sent[x], delivered[x])
  BY DEF Standing
<1> USE DEF TypeOK, Goto, callVars, historyVars, Stands, Before, InputChecks
<1>1. ASSUME NEW r \in Request, NEW a \in Apis, Start(r, a)
      PROVE  StandsNext
  BY <1>a, <1>1 DEF Start
<1>2. ASSUME NEW r \in Request, GiveUp(r)
      PROVE  StandsNext
  BY <1>a, <1>2 DEF GiveUp
<1>3. ASSUME NEW r \in Request, BadRequest(r)
      PROVE  StandsNext
  BY <1>a, <1>3 DEF BadRequest, WriteError, WriteHeader
<1>4. ASSUME NEW r \in Request, Accept(r)
      PROVE  StandsNext
  BY <1>a, <1>4 DEF Accept
<1>5. ASSUME NEW r \in Request, CheckPasses(r)
      PROVE  StandsNext
  BY <1>a, <1>5 DEF CheckPasses, AfterCheck
<1>6. ASSUME NEW r \in Request, CheckRefuses(r)
      PROVE  StandsNext
  BY <1>a, <1>6 DEF CheckRefuses, WriteError, WriteHeader
<1>7. ASSUME NEW r \in Request, BeginPick(r)
      PROVE  StandsNext
  BY <1>a, <1>7 DEF BeginPick
<1>8. ASSUME NEW r \in Request, ScanEndpoint(r)
      PROVE  StandsNext
  BY <1>a, <1>8 DEF ScanEndpoint
<1>9. ASSUME NEW r \in Request, PickFails(r)
      PROVE  StandsNext
  BY <1>a, <1>9 DEF PickFails, WriteError, WriteHeader
<1>10. ASSUME NEW r \in Request, PickSucceeds(r)
       PROVE  StandsNext
  BY <1>a, <1>10 DEF PickSucceeds
<1>11. ASSUME NEW r \in Request, BuildFails(r)
       PROVE  StandsNext
  BY <1>a, <1>11 DEF BuildFails, WriteError, WriteHeader
<1>12. ASSUME NEW r \in Request, Build(r)
       PROVE  StandsNext
  BY <1>a, <1>12 DEF Build
<1>13. ASSUME NEW r \in Request, DoFails(r)
       PROVE  StandsNext
  BY <1>a, <1>13 DEF DoFails, WriteError, WriteHeader, EndSpans
<1>14. ASSUME NEW r \in Request, NEW s \in {"ok", "4xx", "5xx"}, Answered(r, s)
       PROVE  StandsNext
  BY <1>a, <1>14 DEF Answered, EndSpans
<1>15. ASSUME NEW r \in Request, WriteHead(r)
       PROVE  StandsNext
  BY <1>a, <1>15 DEF WriteHead, WriteHeader
<1>16. ASSUME NEW r \in Request, NEW b \in {"whole", "brokenOff", "left"}, Relay(r, b)
       PROVE  StandsNext
  BY <1>a, <1>16 DEF Relay
<1>17. ASSUME NEW r \in Request, NEW b \in {"whole", "brokenOff", "left"}, ReadBody(r, b)
       PROVE  StandsNext
  BY <1>a, <1>17 DEF ReadBody
<1>18. ASSUME NEW r \in Request, OutputPasses(r)
       PROVE  StandsNext
  BY <1>a, <1>18 DEF OutputPasses
<1>19. ASSUME NEW r \in Request, OutputRefuses(r)
       PROVE  StandsNext
  BY <1>a, <1>19 DEF OutputRefuses, WriteError, WriteHeader, EndSpans
<1>20. ASSUME NEW r \in Request, Deliver(r)
       PROVE  StandsNext
  BY <1>a, <1>20 DEF Deliver, WriteHeader
<1>21. ASSUME NEW r \in Request, Record(r)
       PROVE  StandsNext
  BY <1>a, <1>21 DEF Record, EndSpans
<1>22. ASSUME NEW r \in Request, Return(r)
       PROVE  StandsNext
  BY <1>a, <1>22 DEF Return
<1>23. CASE Tick \/ UNCHANGED vars
  BY <1>a, <1>23 DEF Tick, vars, handlerVars
<1> QED
  BY <1>1, <1>2, <1>3, <1>4, <1>5, <1>6, <1>7, <1>8, <1>9, <1>10, <1>11, <1>12, <1>13, <1>14, <1>15, <1>16, <1>17, <1>18, <1>19, <1>20, <1>21, <1>22, <1>23
  DEF Next, Compute, Judge, Converse

\* Types and standings hold in every reachable state.
LEMMA StandingInvariant == Spec => [](TypeOK /\ Standing)
BY TypingInit, TypingNext, StandingInit, StandingNext, PTL DEF Spec

(* No refusal is followed by the call or the answer it refuses. *)
THEOREM RefusalFinality == Spec => []RefusalIsFinal
<1>1. TypeOK /\ Standing => RefusalIsFinal
  BY DEF TypeOK, Places, Calling, Standing, Stands, Before, RefusalIsFinal
<1> QED
  BY <1>1, StandingInvariant, PTL

(* No request is answered twice, and none is left without an answer. *)
THEOREM SingleAnswer == Spec => []AnsweredOnce
<1>1. TypeOK /\ Standing => AnsweredOnce
  BY DEF TypeOK, Places, Calling, Standing, Stands, Before, AnsweredOnce
<1> QED
  BY <1>1, StandingInvariant, PTL

(* Spans nest, and every way out of a handler ends those it began. *)
THEOREM SpanDiscipline == Spec => []SpansAreEnded
<1>1. TypeOK /\ Standing => SpansAreEnded
  BY DEF TypeOK, Places, Calling, Standing, Stands, Before, SpansAreEnded
<1> QED
  BY <1>1, StandingInvariant, PTL

-----------------------------------------------------------------------------
(***************************************************************************)
(* The refinement.  Router sees of a handler whether it picks or calls, so *)
(* most steps are none for it; the others each map to one step of Router,  *)
(* on the fields below, which are what INSTANCE puts in their place.       *)
(***************************************************************************)
Away == Places \ ({"scanning", "scanned"} \cup Calling)

barPc      == [r \in Request |-> RouterPc(r)]
barScan    == [r \in Request |-> {e \in {"endpoint"} : pc[r] = "scanning"}]
barFound   == [r \in Request |-> {e \in {"endpoint"} : pc[r] = "scanned" /\ candidate[r]}]
barPicked  == [r \in Request |-> IF pc[r] \in Calling THEN "endpoint" ELSE "none"]
barWant    == [r \in Request |-> [tenant |-> "tenant", model |-> "model"]]
barBreaker == [e \in {"endpoint"} |-> breaker]
barStreak  == [e \in {"endpoint"} |-> streak]
bars == <<barPc, barScan, barFound, barPicked, barWant, barBreaker, barStreak>>

\* A step between two places that Router does not tell apart is a stutter of it.
LEMMA Unseen ==
  ASSUME TypeOK, NEW r \in Request, NEW p \in Places, Goto(r, p),
         UNCHANGED <<candidate, breaker, streak>>,
         \/ pc[r] \in Away /\ p \in Away
         \/ pc[r] \in Calling /\ p \in Calling
  PROVE  UNCHANGED bars
<1>1. \A x \in Request :
        /\ RouterPc(x)' = RouterPc(x)
        /\ pc'[x] \in Calling <=> pc[x] \in Calling
        /\ pc'[x] = "scanning" <=> pc[x] = "scanning"
        /\ pc'[x] = "scanned" <=> pc[x] = "scanned"
  BY DEF TypeOK, Goto, RouterPc, Away, Calling, Places, InputChecks
<1>2. barPc' = barPc /\ barScan' = barScan /\ barPicked' = barPicked
  BY <1>1 DEF barPc, barScan, barPicked
<1>3. barFound' = barFound
  BY <1>1 DEF barFound
<1> QED
  BY <1>2, <1>3 DEF bars, barWant, barBreaker, barStreak

\* The mapped variables are all that the abstract router depends on.
LEMMA Stuttering == UNCHANGED bars => UNCHANGED Requests!vars
BY DEF bars, barPc, barScan, barFound, barPicked, barWant, barBreaker, barStreak,
       Requests!vars, Requests!routerVars, Requests!requestVars

(* Between two places that Router tells apart, the fields of one request   *)
(* change and those of the others do not.                                  *)
LEMMA Seen ==
  ASSUME TypeOK, NEW r \in Request, NEW p \in Places, Goto(r, p)
  PROVE  /\ barPc' = [barPc EXCEPT ![r] = IF p \in {"scanning", "scanned"} THEN "picking"
                                         ELSE IF p \in Calling THEN "calling"
                                         ELSE "idle"]
         /\ barScan' = [barScan EXCEPT ![r] = {e \in {"endpoint"} : p = "scanning"}]
         /\ barPicked' = [barPicked EXCEPT ![r] =
                            IF p \in Calling THEN "endpoint" ELSE "none"]
         /\ candidate' = candidate =>
              barFound' = [barFound EXCEPT ![r] =
                             {e \in {"endpoint"} : p = "scanned" /\ candidate[r]}]
<1>1. pc'[r] = p /\ \A x \in Request \ {r} : pc'[x] = pc[x]
  BY DEF TypeOK, Goto
<1>2. barPc' = [barPc EXCEPT ![r] = IF p \in {"scanning", "scanned"} THEN "picking"
                                    ELSE IF p \in Calling THEN "calling"
                                    ELSE "idle"]
  BY <1>1 DEF barPc, RouterPc
<1>3. barScan' = [barScan EXCEPT ![r] = {e \in {"endpoint"} : p = "scanning"}]
  BY <1>1 DEF barScan
<1>4. barPicked' = [barPicked EXCEPT ![r] = IF p \in Calling THEN "endpoint" ELSE "none"]
  <2>1. \A x \in Request :
          (IF pc'[x] \in Calling THEN "endpoint" ELSE "none") =
            IF x = r THEN (IF p \in Calling THEN "endpoint" ELSE "none")
            ELSE (IF pc[x] \in Calling THEN "endpoint" ELSE "none")
    BY <1>1
  <2> QED
    BY <2>1 DEF barPicked
<1>5. ASSUME candidate' = candidate
      PROVE  barFound' = [barFound EXCEPT ![r] =
                            {e \in {"endpoint"} : p = "scanned" /\ candidate[r]}]
  <2>1. \A x \in Request :
          {e \in {"endpoint"} : pc'[x] = "scanned" /\ candidate'[x]} =
            IF x = r THEN {e \in {"endpoint"} : p = "scanned" /\ candidate[r]}
            ELSE {e \in {"endpoint"} : pc[x] = "scanned" /\ candidate[x]}
    BY <1>1, <1>5
  <2> QED
    BY <2>1 DEF barFound
<1> QED
  BY <1>2, <1>3, <1>4, <1>5

\* Mapped fields change only where a handler enters or leaves Router's places.
LEMMA Unmoved ==
  ASSUME TypeOK, NEW r \in Request, NEW p \in Places, Goto(r, p),
         candidate' = candidate
  PROVE  /\ pc[r] # "scanned" /\ p # "scanned" => barFound' = barFound
         /\ pc[r] # "scanning" /\ p # "scanning" => barScan' = barScan
         /\ pc[r] \notin Calling /\ p \notin Calling => barPicked' = barPicked
<1>1. pc'[r] = p /\ \A x \in Request \ {r} : pc'[x] = pc[x]
  BY DEF TypeOK, Goto
<1>2. ASSUME pc[r] # "scanned", p # "scanned"
      PROVE  barFound' = barFound
  <2>1. \A x \in Request :
          {e \in {"endpoint"} : pc'[x] = "scanned" /\ candidate'[x]} =
            {e \in {"endpoint"} : pc[x] = "scanned" /\ candidate[x]}
    BY <1>1, <1>2
  <2> QED
    BY <2>1 DEF barFound
<1>3. ASSUME pc[r] # "scanning", p # "scanning"
      PROVE  barScan' = barScan
  <2>1. \A x \in Request : {e \in {"endpoint"} : pc'[x] = "scanning"} =
                              {e \in {"endpoint"} : pc[x] = "scanning"}
    BY <1>1, <1>3
  <2> QED
    BY <2>1 DEF barScan
<1>4. ASSUME pc[r] \notin Calling, p \notin Calling
      PROVE  barPicked' = barPicked
  <2>1. \A x \in Request : (IF pc'[x] \in Calling THEN "endpoint" ELSE "none") =
                              (IF pc[x] \in Calling THEN "endpoint" ELSE "none")
    BY <1>1, <1>4
  <2> QED
    BY <2>1 DEF barPicked
<1> QED
  BY <1>2, <1>3, <1>4

(* The steps of Router, one by one. *)
LEMMA Picks ==
  ASSUME TypeOK, NEW r \in Request, BeginPick(r)
  PROVE  Requests!Begin(r)
<1>1. Goto(r, "scanning") /\ UNCHANGED <<candidate, breaker, streak>>
      /\ pc[r] = "pick"
  BY DEF BeginPick, callVars, healthVars
<1>2. "scanning" \in Places /\ "scanning" \notin Calling /\ pc[r] \notin Calling
  BY <1>1 DEF Places, Calling
<1>6. barPc[r] = "idle" /\ barPc' = [barPc EXCEPT ![r] = "picking"]
  BY <1>1, <1>2, Seen DEF barPc, RouterPc
<1>7. barScan' = [barScan EXCEPT ![r] = {"endpoint"}]
  BY <1>1, <1>2, Seen
<1>8. barFound' = barFound /\ barPicked' = barPicked
  BY <1>1, <1>2, Unmoved
<1>10. barBreaker' = barBreaker /\ barStreak' = barStreak
  BY <1>1 DEF barBreaker, barStreak
<1>3. [tenant |-> "tenant", model |-> "model"] \in Requests!Wanted
  BY DEF Requests!Wanted
<1>4. {e \in {"endpoint"} :
         Requests!Matches(e, [tenant |-> "tenant", model |-> "model"])} = {"endpoint"}
  BY DEF Requests!Matches
<1>5. barWant' = [barWant EXCEPT ![r] = [tenant |-> "tenant", model |-> "model"]]
  BY DEF barWant
<1>9. barScan' = [barScan EXCEPT ![r] =
        {e \in {"endpoint"} :
           Requests!Matches(e, [tenant |-> "tenant", model |-> "model"])}]
  BY <1>4, <1>7
<1>11. \E w \in Requests!Wanted :
         /\ barWant' = [barWant EXCEPT ![r] = w]
         /\ barScan' = [barScan EXCEPT ![r] = {e \in {"endpoint"} : Requests!Matches(e, w)}]
  BY <1>3, <1>5, <1>9
<1> QED
  BY <1>6, <1>8, <1>10, <1>11
  DEF Requests!Begin, Requests!routerVars, barPc, barScan, barFound, barPicked,
      barWant, barBreaker, barStreak

\* Asking the breaker of the endpoint is Router's scan (router.go:98-103).
LEMMA Scans ==
  ASSUME TypeOK, NEW r \in Request, ScanEndpoint(r)
  PROVE  Requests!Scan(r, "endpoint")
<1>1. /\ pc[r] = "scanning" /\ Goto(r, "scanned")
      /\ candidate' = [candidate EXCEPT ![r] = Available(breaker)]
      /\ breaker' = AfterAvailable(breaker) /\ streak' = streak
  BY DEF ScanEndpoint
<1>2. /\ pc'[r] = "scanned" /\ candidate'[r] = Available(breaker)
      /\ \A x \in Request \ {r} : pc'[x] = pc[x] /\ candidate'[x] = candidate[x]
      /\ "scanned" \in Places
  BY <1>1 DEF TypeOK, Goto, Places
<1>3. barPc[r] = "picking" /\ barPc' = barPc
  <2>1. \A x \in Request : RouterPc(x)' = RouterPc(x)
    BY <1>1, <1>2 DEF RouterPc
  <2> QED
    BY <1>1, <2>1 DEF barPc, RouterPc
<1>4. "endpoint" \in barScan[r] /\ barScan' = [barScan EXCEPT ![r] = @ \ {"endpoint"}]
  <2>1. barScan[r] = {"endpoint"}
    BY <1>1 DEF barScan
  <2>2. barScan' = [barScan EXCEPT ![r] = {e \in {"endpoint"} : "scanned" = "scanning"}]
    BY <1>1, <1>2, Seen
  <2>3. {e \in {"endpoint"} : "scanned" = "scanning"} = {"endpoint"} \ {"endpoint"}
    OBVIOUS
  <2> QED
    BY <2>1, <2>2, <2>3
<1>5. barBreaker' = [barBreaker EXCEPT !["endpoint"] = Requests!AfterAvailable(@)]
  BY <1>1 DEF barBreaker, AfterAvailable, Requests!AfterAvailable
<1>6. Requests!Available(barBreaker["endpoint"]) <=> Available(breaker)
  BY DEF barBreaker, Available, Requests!Available
<1>7. barFound[r] = {} /\ \A x \in Request \ {r} :
         {e \in {"endpoint"} : pc'[x] = "scanned" /\ candidate'[x]} = barFound[x]
  BY <1>1, <1>2 DEF barFound
<1>8. barFound' = IF Available(breaker)
                  THEN [barFound EXCEPT ![r] = @ \cup {"endpoint"}] ELSE barFound
  <2>1. {e \in {"endpoint"} : pc'[r] = "scanned" /\ candidate'[r]} =
          IF Available(breaker) THEN {"endpoint"} ELSE {}
    BY <1>2
  <2>2. CASE Available(breaker)
    BY <1>7, <2>1, <2>2 DEF barFound
  <2>3. CASE ~Available(breaker)
    BY <1>7, <2>1, <2>3 DEF barFound
  <2> QED
    BY <2>2, <2>3
<1>9. barPicked' = barPicked /\ barStreak' = barStreak /\ barWant' = barWant
  <2>1. \A x \in Request : (IF pc'[x] \in Calling THEN "endpoint" ELSE "none") =
                              (IF pc[x] \in Calling THEN "endpoint" ELSE "none")
    BY <1>1, <1>2 DEF Calling
  <2> QED
    BY <1>1, <2>1 DEF barPicked, barStreak, barWant
<1> QED
  BY <1>3, <1>4, <1>5, <1>6, <1>8, <1>9
  DEF Requests!Scan, Requests!routerVars, barPc, barScan, barFound, barPicked,
      barWant, barBreaker, barStreak

(* A pick ends with the endpoint or without one. *)
LEMMA Chooses ==
  ASSUME TypeOK, NEW r \in Request, PickSucceeds(r)
  PROVE  Requests!Choose(r)
<1>1. /\ pc[r] = "scanned" /\ candidate[r] /\ Goto(r, "build")
      /\ UNCHANGED <<candidate, breaker, streak>>
      /\ "build" \in Places /\ "build" \in Calling /\ pc[r] \notin Calling
  BY DEF PickSucceeds, callVars, healthVars, Places, Calling
<1>2. barPc[r] = "picking" /\ barPc' = [barPc EXCEPT ![r] = "calling"]
  BY <1>1, Seen DEF barPc, RouterPc
<1>3. barScan[r] = {} /\ barScan' = barScan
  BY <1>1, Unmoved DEF barScan
<1>4. "endpoint" \in barFound[r] /\ barFound' = [barFound EXCEPT ![r] = {}]
  <2>1. barFound' = [barFound EXCEPT ![r] =
                       {e \in {"endpoint"} : "build" = "scanned" /\ candidate[r]}]
    BY <1>1, Seen
  <2>2. {e \in {"endpoint"} : "build" = "scanned" /\ candidate[r]} = {}
    OBVIOUS
  <2> QED
    BY <1>1, <2>1, <2>2 DEF barFound
<1>5. barPicked' = [barPicked EXCEPT ![r] = "endpoint"]
  BY <1>1, Seen
<1>6. barWant' = barWant /\ barBreaker' = barBreaker /\ barStreak' = barStreak
  BY <1>1 DEF barWant, barBreaker, barStreak
<1>7. \E e \in barFound[r] : barPicked' = [barPicked EXCEPT ![r] = e]
  BY <1>4, <1>5
<1> QED
  BY <1>2, <1>3, <1>4, <1>6, <1>7
  DEF Requests!Choose, Requests!routerVars, barPc, barScan, barFound, barPicked,
      barWant, barBreaker, barStreak

\* A pick that finds no endpoint is Router's refusal (router.go:105-107).
LEMMA Refuses ==
  ASSUME TypeOK, NEW r \in Request, PickFails(r)
  PROVE  Requests!Refuse(r)
<1>1. /\ pc[r] = "scanned" /\ ~candidate[r] /\ Goto(r, "done")
      /\ UNCHANGED <<candidate, breaker, streak>>
      /\ "done" \in Places /\ "done" \notin Calling /\ pc[r] \notin Calling
  BY DEF PickFails, WriteError, callVars, healthVars, Places, Calling
<1>2. barPc[r] = "picking" /\ barPc' = [barPc EXCEPT ![r] = "idle"]
  BY <1>1, Seen DEF barPc, RouterPc
<1>3. barScan[r] = {} /\ barScan' = barScan /\ barPicked' = barPicked
  BY <1>1, Unmoved DEF barScan
<1>4. barFound[r] = {} /\ barFound' = barFound
  <2>1. barFound[r] = {}
    BY <1>1 DEF barFound
  <2>2. barFound' = [barFound EXCEPT ![r] =
                       {e \in {"endpoint"} : "done" = "scanned" /\ candidate[r]}]
    BY <1>1, Seen
  <2>3. {e \in {"endpoint"} : "done" = "scanned" /\ candidate[r]} = {}
    OBVIOUS
  <2> QED
    BY <2>1, <2>2, <2>3 DEF barFound
<1>5. barWant' = barWant /\ barBreaker' = barBreaker /\ barStreak' = barStreak
  BY <1>1 DEF barWant, barBreaker, barStreak
<1> QED
  BY <1>2, <1>3, <1>4, <1>5
  DEF Requests!Refuse, Requests!routerVars, barPc, barScan, barFound, barPicked,
      barWant, barBreaker, barStreak

(* A call ends in one of three ways: with a failure, a success or no result. *)
LEMMA Leaves ==
  ASSUME TypeOK, NEW r \in Request, pc[r] \in Calling, Goto(r, "done"),
         candidate' = candidate
  PROVE  Requests!Leave(r) /\ barPicked[r] = "endpoint"
<1>1. /\ "done" \in Places /\ "done" \notin Calling
      /\ pc[r] # "scanned" /\ pc[r] # "scanning"
  BY DEF Places, Calling
<1>2. barPc[r] = "calling" /\ barPc' = [barPc EXCEPT ![r] = "idle"]
  BY <1>1, Seen DEF barPc, RouterPc
<1>3. barPicked[r] = "endpoint" /\ barPicked' = [barPicked EXCEPT ![r] = "none"]
  BY <1>1, Seen DEF barPicked
<1>4. barScan' = barScan /\ barFound' = barFound /\ barWant' = barWant
  BY <1>1, Unmoved DEF barWant
<1> QED
  BY <1>2, <1>3, <1>4
  DEF Requests!Leave, Requests!routerVars, barPc, barScan, barFound, barPicked, barWant

\* A call that fails and is recorded is Router's failure (endpoint.go:182-185).
LEMMA Fails ==
  ASSUME TypeOK, NEW r \in Request, pc[r] \in Calling, Goto(r, "done"),
         candidate' = candidate, RecordError
  PROVE  Requests!Fail(r)
<1>1. barBreaker' = [barBreaker EXCEPT !["endpoint"] = Requests!RecordFailure(@)]
  BY DEF barBreaker, RecordError, RecordFailure, Requests!RecordFailure
<1>2. barStreak' = [barStreak EXCEPT !["endpoint"] =
                      IF @ < FailThreshold THEN @ + 1 ELSE @]
  BY DEF barStreak, RecordError, Extended
<1> QED
  BY <1>1, <1>2, Leaves DEF Requests!Fail, barPicked, barBreaker, barStreak

\* A call that succeeds and is recorded is Router's success (endpoint.go:175-180).
LEMMA Succeeds ==
  ASSUME TypeOK, NEW r \in Request, pc[r] \in Calling, Goto(r, "done"),
         candidate' = candidate, breaker' = RecordSuccess(breaker), streak' = 0
  PROVE  Requests!Succeed(r)
<1>1. barBreaker' = [barBreaker EXCEPT !["endpoint"] = Requests!RecordSuccess(@)]
  BY DEF barBreaker, RecordSuccess, Requests!RecordSuccess, NewBreaker, Requests!NewBreaker
<1>2. barStreak' = [barStreak EXCEPT !["endpoint"] = 0]
  BY DEF barStreak
<1> QED
  BY <1>1, <1>2, Leaves DEF Requests!Succeed, barPicked, barBreaker, barStreak

\* A handler that leaves without a record is Router's abandonment (handlers.go).
LEMMA Abandons ==
  ASSUME TypeOK, NEW r \in Request, pc[r] \in Calling, Goto(r, "done"),
         candidate' = candidate, breaker' = breaker, streak' = streak
  PROVE  Requests!Abandon(r)
<1>1. barBreaker' = barBreaker /\ barStreak' = barStreak
  BY DEF barBreaker, barStreak
<1> QED
  BY <1>1, Leaves DEF Requests!Abandon, barBreaker, barStreak

\* Time passes for the mapped breaker as it does for Router's.
LEMMA Ticks ==
  ASSUME TypeOK, Tick
  PROVE  Requests!Tick
<1>1. UNCHANGED <<pc, candidate, streak>> /\ breaker' = Age(breaker)
  BY DEF Tick, handlerVars, callVars
<1>2. barBreaker' = [e \in {"endpoint"} |-> Requests!Age(barBreaker[e])]
  BY <1>1 DEF barBreaker, Age, Requests!Age
<1>3. UNCHANGED <<barPc, barScan, barFound, barPicked, barWant, barStreak>>
  BY <1>1 DEF barPc, RouterPc, barScan, barFound, barPicked, barWant, barStreak
<1> QED
  BY <1>2, <1>3
  DEF Requests!Tick, Requests!routerVars, Requests!requestVars, barPc, barScan,
      barFound, barPicked, barWant, barBreaker, barStreak

\* The pipeline's initial states map to the router's.
LEMMA RefinesInit == Init => Requests!Init
<1> SUFFICES ASSUME Init
             PROVE  Requests!Init
  OBVIOUS
<1>1. /\ barBreaker = [e \in {"endpoint"} |-> Requests!NewBreaker]
      /\ barStreak = [e \in {"endpoint"} |-> 0]
  BY DEF Init, barBreaker, barStreak, NewBreaker, Requests!NewBreaker
<1>2. /\ barPc = [r \in Request |-> "idle"]
      /\ barPicked = [r \in Request |-> "none"]
  BY DEF Init, barPc, RouterPc, barPicked, Calling
<1>3. barScan = [r \in Request |-> {}]
  <2>1. \A r \in Request : {e \in {"endpoint"} : pc[r] = "scanning"} = {}
    BY DEF Init
  <2> QED
    BY <2>1 DEF barScan
<1>4. barFound = [r \in Request |-> {}]
  <2>1. \A r \in Request : {e \in {"endpoint"} : pc[r] = "scanned" /\ candidate[r]} = {}
    BY DEF Init
  <2> QED
    BY <2>1 DEF barFound
<1>5. barWant \in [Request -> Requests!Wanted]
  BY DEF barWant, Requests!Wanted
<1> QED
  BY <1>1, <1>2, <1>3, <1>4, <1>5
  DEF Requests!Init, barPc, barScan, barFound, barPicked, barWant, barBreaker, barStreak

\* Every step of the pipeline maps to a step of the router or a stutter.
LEMMA RefinesNext ==
  TypeOK /\ [Next]_vars => [Requests!Next]_(Requests!vars)
<1> SUFFICES ASSUME TypeOK, [Next]_vars
             PROVE  Requests!Next \/ UNCHANGED Requests!vars
  OBVIOUS
<1> DEFINE Step == Requests!Next \/ UNCHANGED Requests!vars
<1> USE DEF callVars, handlerVars, healthVars, historyVars
<1>s. ASSUME UNCHANGED bars
      PROVE  Step
  BY <1>s, Stuttering
<1>r. ASSUME NEW r \in Request,
             \/ Requests!Begin(r) \/ Requests!Scan(r, "endpoint") \/ Requests!Choose(r)
             \/ Requests!Refuse(r) \/ Requests!Succeed(r) \/ Requests!Fail(r)
             \/ Requests!Abandon(r)
      PROVE  Step
  BY <1>r DEF Requests!Next
<1>1. ASSUME NEW r \in Request, NEW a \in Apis, Start(r, a)
      PROVE  Step
  BY <1>1, <1>s, Unseen DEF Start, Away, Places, Calling
<1>2. ASSUME NEW r \in Request, GiveUp(r)
      PROVE  Step
  <2>1. UNCHANGED <<pc, candidate, breaker, streak>>
    BY <1>2 DEF GiveUp
  <2>2. UNCHANGED bars
    BY <2>1 DEF bars, barPc, RouterPc, barScan, barFound, barPicked, barWant,
                barBreaker, barStreak
  <2> QED
    BY <2>2, <1>s
<1>3. ASSUME NEW r \in Request, BadRequest(r)
      PROVE  Step
  BY <1>3, <1>s, Unseen DEF BadRequest, WriteError, Away, Places, Calling
<1>4. ASSUME NEW r \in Request, Accept(r)
      PROVE  Step
  BY <1>4, <1>s, Unseen DEF Accept, Away, Places, InputChecks, Calling
<1>5. ASSUME NEW r \in Request, CheckPasses(r)
      PROVE  Step
  <2>1. pc[r] \in Away /\ AfterCheck(r) \in Away /\ AfterCheck(r) \in Places
    BY <1>5 DEF CheckPasses, AfterCheck, Away, Places, InputChecks, Calling
  <2> QED
    BY <1>5, <2>1, <1>s, Unseen DEF CheckPasses
<1>6. ASSUME NEW r \in Request, CheckRefuses(r)
      PROVE  Step
  BY <1>6, <1>s, Unseen DEF CheckRefuses, WriteError, Away, Places, InputChecks, Calling
<1>7. ASSUME NEW r \in Request, BeginPick(r)
      PROVE  Step
  BY <1>7, <1>r, Picks
<1>8. ASSUME NEW r \in Request, ScanEndpoint(r)
      PROVE  Step
  BY <1>8, <1>r, Scans
<1>9. ASSUME NEW r \in Request, PickFails(r)
      PROVE  Step
  BY <1>9, <1>r, Refuses
<1>10. ASSUME NEW r \in Request, PickSucceeds(r)
       PROVE  Step
  BY <1>10, <1>r, Chooses
<1>11. ASSUME NEW r \in Request, BuildFails(r)
       PROVE  Step
  BY <1>11, <1>r, Abandons DEF BuildFails, WriteError, Calling
<1>12. ASSUME NEW r \in Request, Build(r)
       PROVE  Step
  BY <1>12, <1>s, Unseen DEF Build, Places, Calling
<1>13. ASSUME NEW r \in Request, DoFails(r)
       PROVE  Step
  BY <1>13, <1>r, Fails DEF DoFails, WriteError, Calling
<1>14. ASSUME NEW r \in Request, NEW s \in {"ok", "4xx", "5xx"}, Answered(r, s)
       PROVE  Step
  BY <1>14, <1>s, Unseen DEF Answered, Places, Calling
<1>15. ASSUME NEW r \in Request, WriteHead(r)
       PROVE  Step
  BY <1>15, <1>s, Unseen DEF WriteHead, Places, Calling
<1>16. ASSUME NEW r \in Request, NEW b \in {"whole", "brokenOff", "left"}, Relay(r, b)
       PROVE  Step
  BY <1>16, <1>s, Unseen DEF Relay, Places, Calling
<1>17. ASSUME NEW r \in Request, NEW b \in {"whole", "brokenOff", "left"}, ReadBody(r, b)
       PROVE  Step
  BY <1>17, <1>s, Unseen DEF ReadBody, Places, Calling
<1>18. ASSUME NEW r \in Request, OutputPasses(r)
       PROVE  Step
  BY <1>18, <1>s, Unseen DEF OutputPasses, Places, Calling
<1>19. ASSUME NEW r \in Request, OutputRefuses(r)
       PROVE  Step
  BY <1>19, <1>r, Abandons DEF OutputRefuses, WriteError, Calling
<1>20. ASSUME NEW r \in Request, Deliver(r)
       PROVE  Step
  BY <1>20, <1>s, Unseen DEF Deliver, Places, Calling
<1>21. ASSUME NEW r \in Request, Record(r)
       PROVE  Step
  <2>1. pc[r] \in Calling /\ Goto(r, "done") /\ candidate' = candidate
    BY <1>21 DEF Record, Calling
  <2>2. \/ RecordError
        \/ breaker' = RecordSuccess(breaker) /\ streak' = 0
    BY <1>21 DEF Record
  <2> QED
    BY <2>1, <2>2, <1>r, Fails, Succeeds
<1>22. ASSUME NEW r \in Request, Return(r)
       PROVE  Step
  <2>1. \A x \in Request : {e \in {"endpoint"} : pc'[x] = "scanned" /\ candidate'[x]} =
                              {e \in {"endpoint"} : pc[x] = "scanned" /\ candidate[x]}
    BY <1>22 DEF Return, Goto, TypeOK
  <2>2. barFound' = barFound
    BY <2>1 DEF barFound
  <2>3. \A x \in Request :
          /\ RouterPc(x)' = RouterPc(x)
          /\ pc'[x] \in Calling <=> pc[x] \in Calling
          /\ pc'[x] = "scanning" <=> pc[x] = "scanning"
    <3>1. pc[r] = "done" /\ pc'[r] = "idle" /\ \A x \in Request \ {r} : pc'[x] = pc[x]
      BY <1>22 DEF Return, Goto, TypeOK
    <3> QED
      BY <3>1 DEF RouterPc, Calling
  <2>4. barPc' = barPc /\ barScan' = barScan /\ barPicked' = barPicked
    BY <2>3 DEF barPc, barScan, barPicked
  <2>5. UNCHANGED bars
    BY <1>22, <2>2, <2>4 DEF Return, bars, barWant, barBreaker, barStreak
  <2> QED
    BY <2>5, <1>s
<1>23. ASSUME Tick
       PROVE  Step
  BY <1>23, Ticks DEF Requests!Next
<1>24. ASSUME UNCHANGED vars
       PROVE  Step
  <2>1. UNCHANGED bars
    BY <1>24 DEF vars, bars, barPc, RouterPc, barScan, barFound, barPicked, barWant,
                 barBreaker, barStreak
  <2> QED
    BY <2>1, <1>s
<1> QED
  BY <1>1, <1>2, <1>3, <1>4, <1>5, <1>6, <1>7, <1>8, <1>9, <1>10, <1>11, <1>12,
     <1>13, <1>14, <1>15, <1>16, <1>17, <1>18, <1>19, <1>20, <1>21, <1>22, <1>23,
     <1>24
  DEF Next, Compute, Judge, Converse

(* Router is what the pipeline does to the breaker: every behaviour of the *)
(* handlers is one of Router's requests, so what is proved of Router's     *)
(* breakers holds of the endpoint the handlers call.                       *)
THEOREM Refinement == Spec => RequestsSpec
<1>1. Spec => []TypeOK
  BY TypeCorrect
<1> QED
  BY <1>1, RefinesInit, RefinesNext, PTL DEF Spec, RequestsSpec, Requests!Spec

-----------------------------------------------------------------------------
(***************************************************************************)
(* The copy of a tenant's rules in Redis.  What a request has read is of   *)
(* the table unless it is marked old, and a copy that is not excused is of *)
(* the table unless a handler has still to delete it.                      *)
(***************************************************************************)
LoadsAreTrue ==
  \A q \in Loaders : load[q] # None /\ ~load[q].old => load[q].rules = Rules!InForce(rows)

CopyIsTrue ==
  cache # None /\ ~excused =>
    (\E h \in Request : call[h] # None) \/ cache.rules = Rules!InForce(rows)

RulesInv == Rules!TypeOK /\ Rules!RulesAreRecent /\ LoadsAreTrue /\ CopyIsTrue

\* Nothing is read or cached at first.
LEMMA RulesInit == Rules!Init => RulesInv
<1> SUFFICES ASSUME Rules!Init PROVE RulesInv
  OBVIOUS
<1> USE RulesAssumption DEF Rules!GuardrailRulesAssumption, Rules!Init
<1>1. Rules!Oldest \in 0 .. Rules!Oldest
  BY DEF Rules!Oldest
<1>2. \A q \in Loaders : load[q] = None
  OBVIOUS
<1>3. /\ rows \in [Ids -> Rules!Row \cup {None}]
      /\ load \in [Loaders -> Rules!Load \cup {None}]
      /\ call \in [Request -> Rules!Call \cup {None}]
      /\ age \in [Rules!Rules -> 0 .. Rules!Oldest]
  BY <1>1
<1> QED
  BY <1>2, <1>3
    DEF RulesInv, Rules!TypeOK, Rules!RulesAreRecent, LoadsAreTrue, CopyIsTrue

\* The rules in force are rules.
LEMMA InForceTyping ==
  ASSUME NEW t \in [Ids -> Rules!Row \cup {None}]
  PROVE  Rules!InForce(t) \in SUBSET Rules!Rules
BY DEF Rules!InForce, Rules!Present, Rules!Row

\* Whatever the rows become, what was read before is marked, and a rule that
\* was switched is of age 0.
LEMMA Becoming ==
  ASSUME RulesInv, NEW t \in [Ids -> Rules!Row \cup {None}], Rules!Becomes(t), cache' = cache
  PROVE  /\ rows' \in [Ids -> Rules!Row \cup {None}]
         /\ load' \in [Loaders -> Rules!Load \cup {None}]
         /\ age' \in [Rules!Rules -> 0 .. Rules!Oldest]
         /\ Rules!RulesAreRecent' /\ LoadsAreTrue'
<1> USE RulesAssumption DEF Rules!GuardrailRulesAssumption, RulesInv, Rules!TypeOK
<1>0. 0 \in 0 .. Rules!Oldest
  BY DEF Rules!Oldest
<1>1. /\ rows' = t
      /\ \A r \in Rules!Rules :
           age'[r] = IF (r \in Rules!InForce(t)) = (r \in Rules!InForce(rows)) THEN age[r] ELSE 0
      /\ age' \in [Rules!Rules -> 0 .. Rules!Oldest]
  BY <1>0 DEF Rules!Becomes
<1>2. ASSUME NEW q \in Loaders
      PROVE  /\ load[q] = None => load'[q] = None
             /\ load[q] # None =>
                  /\ load[q] \in Rules!Load /\ load'[q] \in Rules!Load
                  /\ load'[q].rules = load[q].rules /\ load'[q].waited = load[q].waited
                  /\ load'[q].old = (load[q].old \/ Rules!InForce(t) # Rules!InForce(rows))
  <2>1. load'[q] = IF load[q] = None THEN None
          ELSE [load[q] EXCEPT !.old = @ \/ Rules!InForce(t) # Rules!InForce(rows)]
    BY DEF Rules!Becomes
  <2>2. CASE load[q] # None
    <3> DEFINE o == load[q].old \/ Rules!InForce(t) # Rules!InForce(rows)
    <3>1. o \in BOOLEAN
      BY <2>2 DEF Rules!Load
    <3>2. load[q] \in Rules!Load /\ load'[q] = [load[q] EXCEPT !.old = o]
      BY <2>1, <2>2
    <3> HIDE DEF o
    <3>3. /\ load'[q] \in Rules!Load /\ load'[q].rules = load[q].rules
          /\ load'[q].waited = load[q].waited /\ load'[q].old = o
      BY <3>1, <3>2 DEF Rules!Load
    <3> QED
      BY <2>2, <3>2, <3>3 DEF o
  <2> QED
    BY <2>1, <2>2
<1>3. load' \in [Loaders -> Rules!Load \cup {None}]
  <2>1. DOMAIN load' = Loaders /\ load' = [q \in Loaders |-> load'[q]]
    BY DEF Rules!Becomes
  <2> QED
    BY <1>2, <2>1
<1>4. LoadsAreTrue'
  BY <1>1, <1>2 DEF LoadsAreTrue, Rules!Load
<1>5. Rules!RulesAreRecent'
  <2>1. ASSUME cache # None, NEW r \in Rules!Rules, age'[r] > (TTL - cache.left) + MaxDelay
        PROVE  r \in cache.rules <=> r \in Rules!InForce(t)
    <3>1. TTL - cache.left \in Nat
      BY <2>1 DEF Rules!Copy
    <3>2. age'[r] # 0 /\ age'[r] = age[r] /\ (r \in Rules!InForce(t) <=> r \in Rules!InForce(rows))
      BY <1>1, <2>1, <3>1
    <3> QED
      BY <2>1, <3>2 DEF Rules!RulesAreRecent
  <2>2. ASSUME NEW q \in Loaders, load'[q] # None, NEW r \in Rules!Rules, age'[r] > load'[q].waited
        PROVE  r \in load'[q].rules <=> r \in Rules!InForce(t)
    <3>1. load[q] # None /\ load[q].waited \in Nat
      BY <1>2, <2>2 DEF Rules!Load
    <3>2. age'[r] # 0 /\ age'[r] = age[r] /\ (r \in Rules!InForce(t) <=> r \in Rules!InForce(rows))
      BY <1>1, <1>2, <2>2, <3>1
    <3> QED
      BY <1>2, <2>2, <3>1, <3>2 DEF Rules!RulesAreRecent
  <2> QED
    BY <1>1, <2>1, <2>2 DEF Rules!RulesAreRecent
<1> QED
  BY <1>1, <1>3, <1>4, <1>5

\* Every step of handlers, requests and time keeps the copies recent and true.
LEMMA RulesStep == RulesInv /\ [Rules!Next]_Rules!vars => RulesInv'
<1> SUFFICES ASSUME RulesInv, [Rules!Next]_Rules!vars
             PROVE  RulesInv'
  OBVIOUS
<1> USE RulesAssumption DEF Rules!GuardrailRulesAssumption, RulesInv
<1>0. Rules!TypeOK
  OBVIOUS
<1>1. ASSUME NEW h \in Request, NEW p \in {"seed", "invalidate"}, Rules!Then(h, p)
      PROVE  call' \in [Request -> Rules!Call \cup {None}] /\ call'[h] # None
  <2>1. [op |-> "write", at |-> p, missing |-> {}] \in Rules!Call
    BY DEF Rules!Call
  <2> QED
    BY <1>0, <1>1, <2>1 DEF Rules!Then, Rules!TypeOK
<1>2. ASSUME NEW h \in Request, NEW i \in Ids, NEW r \in Rules!Rules, Rules!CreateRule(h, i, r)
      PROVE  RulesInv'
  <2>1. [rows EXCEPT ![i] = Rules!NewRow(r)] \in [Ids -> Rules!Row \cup {None}]
    BY <1>0 DEF Rules!TypeOK, Rules!NewRow, Rules!Row
  <2>2. Rules!Then(h, "invalidate") /\ UNCHANGED <<cache, excused, removed>>
    BY <1>2 DEF Rules!CreateRule
  <2>3. Rules!Becomes([rows EXCEPT ![i] = Rules!NewRow(r)])
    BY <1>2 DEF Rules!CreateRule
  <2> DEFINE t == [rows EXCEPT ![i] = Rules!NewRow(r)]
  <2> HIDE DEF t
  <2>4. t \in [Ids -> Rules!Row \cup {None}] /\ Rules!Becomes(t)
    BY <2>1, <2>3 DEF t
  <2> QED
    BY <1>0, <1>1, <2>2, <2>4, Becoming DEF Rules!TypeOK, CopyIsTrue
<1>3. ASSUME NEW h \in Request, NEW i \in Ids, NEW e \in BOOLEAN, Rules!UpdateRule(h, i, e)
      PROVE  RulesInv'
  <2>1. [rows EXCEPT ![i].enabled = e] \in [Ids -> Rules!Row \cup {None}]
    <3>1. rows[i] \in Rules!Row
      BY <1>0, <1>3 DEF Rules!UpdateRule, Rules!TypeOK
    <3>2. [rows[i] EXCEPT !.enabled = e] \in Rules!Row
      BY <3>1 DEF Rules!Row
    <3> QED
      BY <1>0, <3>2 DEF Rules!TypeOK
  <2>2. Rules!Then(h, "invalidate") /\ UNCHANGED <<cache, excused, removed>>
    BY <1>3 DEF Rules!UpdateRule
  <2>3. Rules!Becomes([rows EXCEPT ![i].enabled = e])
    BY <1>3 DEF Rules!UpdateRule
  <2> DEFINE t == [rows EXCEPT ![i].enabled = e]
  <2> HIDE DEF t
  <2>4. t \in [Ids -> Rules!Row \cup {None}] /\ Rules!Becomes(t)
    BY <2>1, <2>3 DEF t
  <2> QED
    BY <1>0, <1>1, <2>2, <2>4, Becoming DEF Rules!TypeOK, CopyIsTrue
<1>4. ASSUME NEW h \in Request, NEW i \in Ids, Rules!DeleteRule(h, i)
      PROVE  RulesInv'
  <2>1. [rows EXCEPT ![i] = None] \in [Ids -> Rules!Row \cup {None}]
    BY <1>0 DEF Rules!TypeOK
  <2>2. /\ Rules!Then(h, "invalidate") /\ UNCHANGED <<cache, excused>>
        /\ removed' \subseteq Managed
    BY <1>0, <1>4 DEF Rules!DeleteRule, Rules!TypeOK
  <2>3. Rules!Becomes([rows EXCEPT ![i] = None])
    BY <1>4 DEF Rules!DeleteRule
  <2> DEFINE t == [rows EXCEPT ![i] = None]
  <2> HIDE DEF t
  <2>4. t \in [Ids -> Rules!Row \cup {None}] /\ Rules!Becomes(t)
    BY <2>1, <2>3 DEF t
  <2> QED
    BY <1>0, <1>1, <2>2, <2>4, Becoming DEF Rules!TypeOK, CopyIsTrue
<1>5. ASSUME NEW h \in Request, NEW i \in Ids, NEW m \in Rules!Rules, Rules!SeedOne(h, i, m)
      PROVE  RulesInv'
  <2>1. [rows EXCEPT ![i] = Rules!NewRow(m)] \in [Ids -> Rules!Row \cup {None}]
    BY <1>0 DEF Rules!TypeOK, Rules!NewRow, Rules!Row
  <2>2. UNCHANGED <<cache, excused, removed>>
    BY <1>5 DEF Rules!SeedOne
  <2>3. call[h] \in Rules!Call /\ call' = [call EXCEPT ![h].missing = @ \ {m}]
    BY <1>0, <1>5 DEF Rules!SeedOne, Rules!TypeOK
  <2>4. [call[h] EXCEPT !.missing = @ \ {m}] \in Rules!Call
    BY <2>3 DEF Rules!Call
  <2>5. call' \in [Request -> Rules!Call \cup {None}] /\ call'[h] # None
    BY <1>0, <2>3, <2>4 DEF Rules!TypeOK
  <2>6. Rules!Becomes([rows EXCEPT ![i] = Rules!NewRow(m)])
    BY <1>5 DEF Rules!SeedOne
  <2> DEFINE t == [rows EXCEPT ![i] = Rules!NewRow(m)]
  <2> HIDE DEF t
  <2>7. t \in [Ids -> Rules!Row \cup {None}] /\ Rules!Becomes(t)
    BY <2>1, <2>6 DEF t
  <2> QED
    BY <1>0, <2>2, <2>5, <2>7, Becoming DEF Rules!TypeOK, CopyIsTrue
<1>6. ASSUME UNCHANGED <<rows, load, age>>, cache' = cache \/ cache' = None
      PROVE  Rules!RulesAreRecent' /\ LoadsAreTrue'
  BY <1>6 DEF Rules!RulesAreRecent, LoadsAreTrue
<1>7. ASSUME NEW h \in Request, Rules!ListRules(h) \/ Rules!SeedNoMore(h)
      PROVE  RulesInv'
  <2>1. /\ UNCHANGED <<rows, cache, load, age, excused, removed>>
        /\ call' \in [Request -> Rules!Call \cup {None}] /\ call'[h] # None
    <3>1. CASE Rules!ListRules(h)
      <4> DEFINE c == [op |-> "list", at |-> "seed", missing |-> Managed \ Rules!Seeded(rows)]
      <4>1. c \in Rules!Call
        BY DEF Rules!Call
      <4>2. call' = [call EXCEPT ![h] = c]
        BY <3>1 DEF Rules!ListRules
      <4> HIDE DEF c
      <4> QED
        BY <1>0, <3>1, <4>1, <4>2 DEF Rules!ListRules, Rules!TypeOK
    <3>2. CASE Rules!SeedNoMore(h)
      <4>1. call[h] \in Rules!Call
        BY <1>0, <3>2 DEF Rules!SeedNoMore, Rules!TypeOK
      <4>2. [[call[h] EXCEPT !.at = "invalidate"] EXCEPT !.missing = {}] \in Rules!Call
        BY <4>1 DEF Rules!Call
      <4>3. call' = [call EXCEPT ![h] = [[call[h] EXCEPT !.at = "invalidate"] EXCEPT !.missing = {}]]
        BY <1>0, <3>2 DEF Rules!SeedNoMore, Rules!TypeOK
      <4> QED
        BY <1>0, <3>2, <4>2, <4>3 DEF Rules!SeedNoMore, Rules!TypeOK
    <3> QED
      BY <1>7, <3>1, <3>2
  <2> QED
    BY <1>0, <1>6, <2>1 DEF Rules!TypeOK, CopyIsTrue
<1>8. ASSUME NEW h \in Request, Rules!InvalidateCache(h) \/ Rules!InvalidateFails(h)
      PROVE  RulesInv'
  BY <1>0, <1>6, <1>8 DEF Rules!InvalidateCache, Rules!InvalidateFails, Rules!TypeOK, CopyIsTrue
<1>9. ASSUME NEW q \in Loaders, Rules!Miss(q)
      PROVE  RulesInv'
  <2> DEFINE l == [rules |-> Rules!InForce(rows), waited |-> 0, old |-> FALSE]
  <2>1. l \in Rules!Load /\ l.rules = Rules!InForce(rows)
    BY <1>0, InForceTyping DEF Rules!Load, Rules!TypeOK
  <2>2. load' = [load EXCEPT ![q] = l] /\ UNCHANGED <<rows, cache, call, age, excused, removed>>
    BY <1>9 DEF Rules!Miss
  <2> HIDE DEF l
  <2>3. Rules!RulesAreRecent' /\ LoadsAreTrue'
    BY <1>0, <2>1, <2>2 DEF Rules!RulesAreRecent, LoadsAreTrue, Rules!TypeOK
  <2> QED
    BY <1>0, <2>1, <2>2, <2>3 DEF Rules!TypeOK, CopyIsTrue
<1>10. ASSUME NEW q \in Loaders, Rules!Store(q)
       PROVE  RulesInv'
  <2> DEFINE c == [rules |-> load[q].rules, left |-> TTL]
  <2>0. load[q] # None /\ load[q] \in Rules!Load
    BY <1>0, <1>10 DEF Rules!Store, Rules!TypeOK
  <2>1. c \in Rules!Copy /\ c.rules = load[q].rules /\ c.left = TTL
    BY <2>0 DEF Rules!Load, Rules!Copy
  <2>2. /\ cache' = c /\ load' = [load EXCEPT ![q] = None] /\ excused' = load[q].old
        /\ UNCHANGED <<rows, call, age, removed>>
    BY <1>10 DEF Rules!Store
  <2> HIDE DEF c
  <2>3. Rules!RulesAreRecent'
    <3>1. \A r \in Rules!Rules : age[r] > (TTL - TTL) + MaxDelay => age[r] > load[q].waited
      BY <1>0, <2>0 DEF Rules!TypeOK, Rules!Load
    <3>2. \A r \in Rules!Rules : age[r] > load[q].waited =>
            (r \in load[q].rules <=> r \in Rules!InForce(rows))
      BY <2>0 DEF Rules!RulesAreRecent
    <3> QED
      BY <1>0, <2>1, <2>2, <3>1, <3>2 DEF Rules!RulesAreRecent, Rules!TypeOK
  <2>4. LoadsAreTrue' /\ CopyIsTrue'
    BY <1>0, <2>0, <2>1, <2>2 DEF LoadsAreTrue, CopyIsTrue, Rules!TypeOK
  <2> QED
    BY <1>0, <2>0, <2>1, <2>2, <2>3, <2>4 DEF Rules!TypeOK, Rules!Load
<1>11. ASSUME NEW q \in Loaders, Rules!StoreFails(q)
       PROVE  RulesInv'
  BY <1>0, <1>11
    DEF Rules!StoreFails, Rules!TypeOK, Rules!RulesAreRecent, LoadsAreTrue, CopyIsTrue
<1>12. CASE Rules!Tick
  <2>1. UNCHANGED <<rows, call, removed>> /\ excused' = (excused /\ cache' # None)
    BY <1>12 DEF Rules!Tick
  <2>2. ASSUME NEW q \in Loaders
        PROVE  /\ load[q] = None => load'[q] = None
               /\ load[q] # None =>
                    /\ load[q] \in Rules!Load /\ load'[q] \in Rules!Load
                    /\ load'[q].rules = load[q].rules /\ load'[q].old = load[q].old
                    /\ load'[q].waited = load[q].waited + 1 /\ load[q].waited < MaxDelay
    <3>1. load'[q] = IF load[q] = None THEN None ELSE [load[q] EXCEPT !.waited = @ + 1]
      BY <1>12 DEF Rules!Tick
    <3>2. CASE load[q] # None
      <4>1. load[q] \in Rules!Load /\ load[q].waited < MaxDelay
        BY <1>0, <1>12, <3>2 DEF Rules!TypeOK, Rules!Tick
      <4>2. load[q].waited + 1 \in 0 .. MaxDelay
        BY <4>1 DEF Rules!Load
      <4> QED
        BY <3>1, <3>2, <4>1, <4>2 DEF Rules!Load
    <3> QED
      BY <3>1, <3>2
  <2>3. load' \in [Loaders -> Rules!Load \cup {None}] /\ LoadsAreTrue'
    <3>1. DOMAIN load' = Loaders /\ load' = [q \in Loaders |-> load'[q]]
      BY <1>12 DEF Rules!Tick
    <3> QED
      BY <2>1, <2>2, <3>1 DEF LoadsAreTrue
  <2>4. /\ age' \in [Rules!Rules -> 0 .. Rules!Oldest]
        /\ \A r \in Rules!Rules : age'[r] = IF age[r] = Rules!Oldest THEN Rules!Oldest ELSE age[r] + 1
    BY <1>0, <1>12 DEF Rules!Tick, Rules!TypeOK, Rules!Oldest
  <2>5. \/ cache' = None
        \/ /\ cache # None /\ cache' # None /\ cache \in Rules!Copy /\ cache' \in Rules!Copy
           /\ cache'.rules = cache.rules /\ cache'.left = cache.left - 1
    <3>1. cache' = IF cache = None \/ cache.left = 1 THEN None ELSE [cache EXCEPT !.left = @ - 1]
      BY <1>12 DEF Rules!Tick
    <3>2. CASE cache # None /\ cache.left # 1
      <4>1. cache \in Rules!Copy /\ cache.left - 1 \in 1 .. TTL
        BY <1>0, <3>2 DEF Rules!TypeOK, Rules!Copy
      <4> QED
        BY <3>1, <3>2, <4>1 DEF Rules!Copy
    <3> QED
      BY <3>1, <3>2
  <2>6. Rules!RulesAreRecent'
    <3>1. ASSUME cache' # None, NEW r \in Rules!Rules, age'[r] > (TTL - cache'.left) + MaxDelay
          PROVE  r \in cache'.rules <=> r \in Rules!InForce(rows)
      <4>1. age[r] > (TTL - cache.left) + MaxDelay
        BY <1>0, <2>4, <2>5, <3>1 DEF Rules!TypeOK, Rules!Copy, Rules!Oldest
      <4> QED
        BY <2>5, <3>1, <4>1 DEF Rules!RulesAreRecent
    <3>2. ASSUME NEW q \in Loaders, load'[q] # None, NEW r \in Rules!Rules, age'[r] > load'[q].waited
          PROVE  r \in load'[q].rules <=> r \in Rules!InForce(rows)
      <4>1. load[q] # None /\ age[r] > load[q].waited
        BY <1>0, <2>2, <2>4, <3>2 DEF Rules!TypeOK, Rules!Load, Rules!Oldest
      <4> QED
        BY <2>2, <3>2, <4>1 DEF Rules!RulesAreRecent
    <3> QED
      BY <2>1, <3>1, <3>2 DEF Rules!RulesAreRecent
  <2>7. CopyIsTrue'
    BY <2>1, <2>5 DEF CopyIsTrue
  <2> QED
    BY <1>0, <2>1, <2>3, <2>4, <2>5, <2>6, <2>7 DEF Rules!TypeOK
<1>13. CASE UNCHANGED Rules!vars
  BY <1>0, <1>6, <1>13 DEF Rules!vars, Rules!TypeOK, CopyIsTrue
<1>14. ASSUME NEW q \in Loaders, Rules!Hit(q)
       PROVE  RulesInv'
  BY <1>13, <1>14 DEF Rules!Hit
<1> QED
  BY <1>2, <1>3, <1>4, <1>5, <1>7, <1>8, <1>9, <1>10, <1>11, <1>12, <1>13, <1>14 DEF Rules!Next

-----------------------------------------------------------------------------
(***************************************************************************)
(* The verdicts of the detector.  The sidecar has given an entry's answer  *)
(* no longer ago than the entry is old and a write may be late, and the    *)
(* answer a check holds no longer ago than the check has waited.           *)
(***************************************************************************)
EntriesAreRecent ==
  \A t \in Text : ttl[t] > 0 /\ cached[t] \in Verdicts!Readable =>
    since[t][cached[t]] <= (CacheTTL - ttl[t]) + CallTimeout

AnswersAreRecent ==
  \A r \in Request : at[r] = "store" /\ result[r] \in Verdicts!Readable =>
    since[text[r]][result[r]] <= waited[r]

VerdictInv == Verdicts!TypeOK /\ EntriesAreRecent /\ AnswersAreRecent

\* There is no entry, and no check is under way.
LEMMA VerdictInit == Verdicts!Init => VerdictInv
<1> SUFFICES ASSUME Verdicts!Init PROVE VerdictInv
  OBVIOUS
<1> USE VerdictAssumption DEF Verdicts!VerdictAssumption, Verdicts!Init
<1>1. Verdicts!Horizon \in 0 .. Verdicts!Horizon
  BY DEF Verdicts!Horizon
<1>2. since \in [Text -> [Verdicts!Readable -> 0 .. Verdicts!Horizon]]
  BY <1>1
<1>3. Verdicts!TypeOK
  BY <1>2 DEF Verdicts!TypeOK, Verdicts!Label, Verdicts!Readable
<1> QED
  BY <1>3 DEF VerdictInv, EntriesAreRecent, AnswersAreRecent

\* Every step of checks, of Redis, of the sidecar and of time keeps them recent.
LEMMA VerdictStep == VerdictInv /\ [Verdicts!Next]_Verdicts!vars => VerdictInv'
<1> SUFFICES ASSUME VerdictInv, [Verdicts!Next]_Verdicts!vars
             PROVE  VerdictInv'
  OBVIOUS
<1> USE VerdictAssumption
    DEF Verdicts!VerdictAssumption, VerdictInv, Verdicts!TypeOK, Verdicts!sidecarVars,
        Verdicts!redisVars, Verdicts!checkVars
<1>1. CASE UNCHANGED Verdicts!vars
  BY <1>1 DEF Verdicts!vars, EntriesAreRecent, AnswersAreRecent
<1>2. ASSUME NEW r \in Request, NEW p \in {"idle", "lookup", "call"}, Verdicts!Goto(r, p),
             UNCHANGED since,
             \A q \in Request \ {r} :
               text'[q] = text[q] /\ result'[q] = result[q] /\ waited'[q] = waited[q]
      PROVE  at' \in [Request -> {"idle", "lookup", "call", "store"}] /\ AnswersAreRecent'
  BY <1>2 DEF Verdicts!Goto, AnswersAreRecent
<1>3. ASSUME NEW r \in Request, NEW l \in Verdicts!Label, Verdicts!Judge(r, l)
      PROVE  /\ verdict' \in [Request -> {"none", "injection", "safe", "error"}]
             /\ result' \in [Request -> Verdicts!Label]
             /\ waited' \in [Request -> 0 .. CallTimeout]
             /\ Verdicts!Goto(r, "idle")
             /\ \A q \in Request \ {r} : result'[q] = result[q] /\ waited'[q] = waited[q]
  BY <1>3 DEF Verdicts!Judge, Verdicts!Verdict, Verdicts!Label, Verdicts!Readable
<1>4. ASSUME NEW r \in Request, NEW t \in Text, Verdicts!IsInjection(r, t)
      PROVE  VerdictInv'
  <2>1. UNCHANGED <<since, result, waited>> /\ \A q \in Request \ {r} : text'[q] = text[q]
    BY <1>4 DEF Verdicts!IsInjection
  <2> QED
    BY <1>2, <1>4, <2>1 DEF Verdicts!IsInjection, EntriesAreRecent
<1>5. ASSUME NEW r \in Request, Verdicts!CacheHit(r) \/ Verdicts!CacheMiss(r) \/ Verdicts!Failed(r)
      PROVE  VerdictInv'
  BY <1>2, <1>3, <1>5
    DEF Verdicts!CacheHit, Verdicts!CacheMiss, Verdicts!Failed, EntriesAreRecent
<1>6. ASSUME NEW r \in Request, Verdicts!StoreFails(r)
      PROVE  VerdictInv'
  BY <1>2, <1>3, <1>6 DEF Verdicts!StoreFails, EntriesAreRecent
<1>7. ASSUME NEW r \in Request, Verdicts!Answered(r)
      PROVE  VerdictInv'
  <2> DEFINE a == model[text[r]]
             s == [l \in Verdicts!Readable |-> IF l = a THEN 0 ELSE since[text[r]][l]]
  <2>0. a \in Verdicts!Label /\ text[r] \in Text /\ 0 \in 0 .. Verdicts!Horizon
    BY DEF Verdicts!Horizon
  <2>1. since' = [since EXCEPT ![text[r]] = s]
    BY <1>7 DEF Verdicts!Answered
  <2>2. /\ s \in [Verdicts!Readable -> 0 .. Verdicts!Horizon]
        /\ \A l \in Verdicts!Readable : s[l] <= since[text[r]][l]
        /\ a \in Verdicts!Readable => s[a] = 0
    <3>1. since[text[r]] \in [Verdicts!Readable -> 0 .. Verdicts!Horizon]
      BY <2>0
    <3>2. \A l \in Verdicts!Readable : since[text[r]][l] \in Nat
      BY <3>1
    <3> QED
      BY <2>0, <3>1, <3>2
  <2>3. /\ result' = [result EXCEPT ![r] = a] /\ waited' = [waited EXCEPT ![r] = 0]
        /\ at' = [at EXCEPT ![r] = "store"]
        /\ UNCHANGED <<model, cached, ttl, text, verdict>>
    BY <1>7 DEF Verdicts!Answered, Verdicts!Goto
  <2> HIDE DEF a, s
  <2>4. /\ since' \in [Text -> [Verdicts!Readable -> 0 .. Verdicts!Horizon]]
        /\ \A t \in Text : \A l \in Verdicts!Readable : since'[t][l] <= since[t][l]
    <3>1. \A t \in Text : since[t] \in [Verdicts!Readable -> 0 .. Verdicts!Horizon]
      OBVIOUS
    <3>2. \A t \in Text : \A l \in Verdicts!Readable : since[t][l] \in Nat
      BY <3>1
    <3> QED
      BY <2>0, <2>1, <2>2, <3>1, <3>2
  <2>5. EntriesAreRecent'
    <3> SUFFICES ASSUME NEW t \in Text, ttl[t] > 0, cached[t] \in Verdicts!Readable
                 PROVE  since'[t][cached[t]] <= (CacheTTL - ttl[t]) + CallTimeout
      BY <2>3 DEF EntriesAreRecent
    <3>1. /\ since[t][cached[t]] <= (CacheTTL - ttl[t]) + CallTimeout
          /\ since'[t][cached[t]] <= since[t][cached[t]]
      BY <2>4 DEF EntriesAreRecent
    <3>2. since[t][cached[t]] \in Nat /\ since'[t][cached[t]] \in Nat /\ ttl[t] \in Nat
      <4>1. since[t] \in [Verdicts!Readable -> 0 .. Verdicts!Horizon]
        OBVIOUS
      <4>2. since'[t] \in [Verdicts!Readable -> 0 .. Verdicts!Horizon]
        BY <2>4
      <4> QED
        BY <4>1, <4>2
    <3> QED
      BY <3>1, <3>2
  <2>6. AnswersAreRecent'
    <3> SUFFICES ASSUME NEW q \in Request, at'[q] = "store", result'[q] \in Verdicts!Readable
                 PROVE  since'[text[q]][result'[q]] <= waited'[q]
      BY <2>3 DEF AnswersAreRecent
    <3>1. CASE q = r
      BY <2>0, <2>1, <2>2, <2>3, <3>1
    <3>2. CASE q # r
      <4>1. /\ result'[q] = result[q] /\ waited'[q] = waited[q] /\ at[q] = "store"
            /\ since[text[q]][result[q]] <= waited[q]
        BY <2>3, <3>2 DEF AnswersAreRecent
      <4>2. since'[text[q]][result[q]] <= since[text[q]][result[q]]
        BY <2>4, <4>1
      <4>3. /\ since[text[q]] \in [Verdicts!Readable -> 0 .. Verdicts!Horizon]
            /\ since'[text[q]] \in [Verdicts!Readable -> 0 .. Verdicts!Horizon]
        BY <2>4
      <4>4. /\ since[text[q]][result[q]] \in Nat /\ since'[text[q]][result[q]] \in Nat
            /\ waited[q] \in Nat
        BY <4>1, <4>3
      <4> QED
        BY <4>1, <4>2, <4>4
    <3> QED
      BY <3>1, <3>2
  <2> QED
    BY <2>0, <2>3, <2>4, <2>5, <2>6
<1>8. ASSUME NEW r \in Request, Verdicts!Store(r)
      PROVE  VerdictInv'
  <2>1. /\ at[r] = "store" /\ result[r] \in Verdicts!Label /\ text[r] \in Text
        /\ cached' = [cached EXCEPT ![text[r]] = result[r]]
        /\ ttl' = [ttl EXCEPT ![text[r]] = CacheTTL]
        /\ Verdicts!Judge(r, result[r])
        /\ UNCHANGED <<model, since, text>>
    BY <1>8 DEF Verdicts!Store
  <2>2. AnswersAreRecent' /\ at' \in [Request -> {"idle", "lookup", "call", "store"}]
    BY <1>2, <1>3, <2>1
  <2>3. result[r] \in Verdicts!Readable => since[text[r]][result[r]] <= CallTimeout
    <3>1. since[text[r]] \in [Verdicts!Readable -> 0 .. Verdicts!Horizon]
      BY <2>1
    <3>2. result[r] \in Verdicts!Readable =>
            since[text[r]][result[r]] <= waited[r] /\ since[text[r]][result[r]] \in Nat
      BY <2>1, <3>1 DEF AnswersAreRecent
    <3> QED
      BY <3>2
  <2>4. EntriesAreRecent'
    BY <2>1, <2>3 DEF EntriesAreRecent
  <2> QED
    BY <1>3, <2>1, <2>2, <2>4
<1>9. ASSUME NEW t \in Text, Verdicts!LoseEntry(t)
      PROVE  VerdictInv'
  BY <1>9 DEF Verdicts!LoseEntry, EntriesAreRecent, AnswersAreRecent
<1>10. ASSUME NEW t \in Text, NEW l \in Verdicts!Label, Verdicts!ReplaceModel(t, l)
       PROVE  VerdictInv'
  BY <1>10 DEF Verdicts!ReplaceModel, EntriesAreRecent, AnswersAreRecent
<1>11. CASE Verdicts!Tick
  <2>1. /\ ttl' = [t \in Text |-> IF ttl[t] > 0 THEN ttl[t] - 1 ELSE 0]
        /\ waited' = [r \in Request |-> IF at[r] = "store" THEN waited[r] + 1 ELSE waited[r]]
        /\ \A r \in Request : at[r] = "store" => waited[r] < CallTimeout
        /\ UNCHANGED <<model, cached, at, text, result, verdict>>
    BY <1>11 DEF Verdicts!Tick
  <2>2. ttl' \in [Text -> 0 .. CacheTTL] /\ waited' \in [Request -> 0 .. CallTimeout]
    BY <2>1
  <2>3. ASSUME NEW t \in Text
        PROVE  /\ since'[t] \in [Verdicts!Readable -> 0 .. Verdicts!Horizon]
               /\ \A l \in Verdicts!Readable :
                    /\ since[t][l] \in Nat /\ since'[t][l] \in Nat
                    /\ since'[t][l] <= since[t][l] + 1
    <3>1. since[t] \in [Verdicts!Readable -> 0 .. Verdicts!Horizon]
      OBVIOUS
    <3>2. since'[t] = [l \in Verdicts!Readable |->
             IF since[t][l] < Verdicts!Horizon THEN since[t][l] + 1 ELSE Verdicts!Horizon]
      BY <1>11 DEF Verdicts!Tick
    <3>3. Verdicts!Horizon \in Nat
      BY DEF Verdicts!Horizon
    <3>4. \A l \in Verdicts!Readable : since[t][l] \in 0 .. Verdicts!Horizon
      BY <3>1
    <3> QED
      BY <3>2, <3>3, <3>4
  <2>4. since' \in [Text -> [Verdicts!Readable -> 0 .. Verdicts!Horizon]]
    <3>1. DOMAIN since' = Text /\ since' = [t \in Text |-> since'[t]]
      BY <1>11 DEF Verdicts!Tick
    <3> QED
      BY <2>3, <3>1
  <2>5. EntriesAreRecent'
    <3> SUFFICES ASSUME NEW t \in Text, ttl'[t] > 0, cached[t] \in Verdicts!Readable
                 PROVE  since'[t][cached[t]] <= (CacheTTL - ttl'[t]) + CallTimeout
      BY <2>1 DEF EntriesAreRecent
    <3>1. ttl[t] > 0 /\ ttl'[t] = ttl[t] - 1 /\ ttl[t] \in Nat
      BY <2>1
    <3>2. since[t][cached[t]] <= (CacheTTL - ttl[t]) + CallTimeout
      BY <3>1 DEF EntriesAreRecent
    <3> QED
      BY <2>3, <3>1, <3>2
  <2>6. AnswersAreRecent'
    <3> SUFFICES ASSUME NEW r \in Request, at[r] = "store", result[r] \in Verdicts!Readable
                 PROVE  since'[text[r]][result[r]] <= waited'[r]
      BY <2>1 DEF AnswersAreRecent
    <3>1. waited'[r] = waited[r] + 1 /\ waited[r] \in Nat /\ text[r] \in Text
      BY <2>1
    <3>2. since[text[r]][result[r]] <= waited[r]
      BY DEF AnswersAreRecent
    <3> QED
      BY <2>3, <3>1, <3>2
  <2> QED
    BY <2>1, <2>2, <2>4, <2>5, <2>6
<1> QED
  BY <1>1, <1>4, <1>5, <1>6, <1>7, <1>8, <1>9, <1>10, <1>11 DEF Verdicts!Next, Verdicts!Check

\* What a check says next is recent, whether it is of the cache or of the sidecar.
LEMMA VerdictsAreRecent ==
  VerdictInv /\ [Verdicts!Next]_Verdicts!vars =>
    \A r \in Request :
      at[r] # "idle" /\ at'[r] = "idle" /\ verdict'[r] # "error" =>
        \E l \in Verdicts!Readable :
          Verdicts!Verdict(l) = verdict'[r] /\ since[text[r]][l] <= CacheTTL + CallTimeout
<1> SUFFICES ASSUME VerdictInv, [Verdicts!Next]_Verdicts!vars, NEW r \in Request,
                    at[r] # "idle", at'[r] = "idle", verdict'[r] # "error"
             PROVE  \E l \in Verdicts!Readable :
                      /\ Verdicts!Verdict(l) = verdict'[r]
                      /\ since[text[r]][l] <= CacheTTL + CallTimeout
  OBVIOUS
<1> USE VerdictAssumption DEF Verdicts!VerdictAssumption, VerdictInv, Verdicts!TypeOK
<1>0. text[r] \in Text /\ since[text[r]] \in [Verdicts!Readable -> 0 .. Verdicts!Horizon]
  OBVIOUS
<1>1. Verdicts!CacheHit(r) \/ Verdicts!Failed(r) \/ Verdicts!Store(r) \/ Verdicts!StoreFails(r)
  BY DEF Verdicts!Next, Verdicts!Check, Verdicts!vars, Verdicts!checkVars, Verdicts!Goto,
     Verdicts!Judge, Verdicts!IsInjection, Verdicts!CacheHit, Verdicts!CacheMiss,
     Verdicts!Answered, Verdicts!Failed, Verdicts!Store, Verdicts!StoreFails,
     Verdicts!LoseEntry, Verdicts!ReplaceModel, Verdicts!Tick
<1>2. CASE Verdicts!CacheHit(r)
  <2> DEFINE l == cached[text[r]]
  <2>1. /\ ttl[text[r]] > 0 /\ verdict'[r] = Verdicts!Verdict(l) /\ l \in Verdicts!Readable
    BY <1>0, <1>2 DEF Verdicts!CacheHit, Verdicts!Judge, Verdicts!Verdict, Verdicts!Label
  <2>2. since[text[r]][l] <= (CacheTTL - ttl[text[r]]) + CallTimeout
    BY <1>0, <2>1 DEF EntriesAreRecent
  <2>3. since[text[r]][l] \in Nat /\ ttl[text[r]] \in Nat
    BY <1>0, <2>1
  <2> QED
    BY <2>1, <2>2, <2>3
<1>3. CASE Verdicts!Failed(r)
  BY <1>3 DEF Verdicts!Failed, Verdicts!Readable
<1>4. CASE Verdicts!Store(r) \/ Verdicts!StoreFails(r)
  <2> DEFINE l == result[r]
  <2>1. at[r] = "store" /\ verdict'[r] = Verdicts!Verdict(l) /\ l \in Verdicts!Readable
    BY <1>4 DEF Verdicts!Store, Verdicts!StoreFails, Verdicts!Judge, Verdicts!Verdict,
                Verdicts!Label
  <2>2. since[text[r]][l] <= waited[r]
    BY <2>1 DEF AnswersAreRecent
  <2>3. since[text[r]][l] \in Nat /\ waited[r] \in 0 .. CallTimeout
    BY <1>0, <2>1
  <2> QED
    BY <2>1, <2>2, <2>3
<1> QED
  BY <1>1, <1>2, <1>3, <1>4

-----------------------------------------------------------------------------
(***************************************************************************)
(* A request uses no rule that has been off, and misses none that has been *)
(* on, for longer than the copy lives and a write may be late, and a       *)
(* verdict is as recent, for any rules, requests and texts, any TTL and    *)
(* any delay (engine.go:58-82, inference/client.go:39-79).                 *)
(***************************************************************************)
THEOREM CopiesStayRecent == MCSpec => CopiesAreRecent
<1> DEFINE Said == \A r \in Request :
             at[r] # "idle" /\ at'[r] = "idle" /\ verdict'[r] # "error" =>
               \E l \in Verdicts!Readable :
                 Verdicts!Verdict(l) = verdict'[r] /\ since[text[r]][l] <= CacheTTL + CallTimeout
<1> USE DEF verdictVars, rulesVars, evalVars
<1>1. MCInit => RulesInv /\ VerdictInv
  BY RulesInit, VerdictInit DEF MCInit
<1>2. [MCNext]_<<moving, vars, evalVars, rulesVars, verdictVars>> =>
        [Rules!Next]_Rules!vars /\ [Verdicts!Next]_Verdicts!vars
  BY DEF MCNext, Rules!vars, Verdicts!vars, Verdicts!sidecarVars, Verdicts!redisVars,
         Verdicts!checkVars
<1>3. RulesInv /\ VerdictInv /\ [MCNext]_<<moving, vars, evalVars, rulesVars, verdictVars>>
        => RulesInv' /\ VerdictInv' /\ [Said]_Verdicts!vars
  BY <1>2, RulesStep, VerdictStep, VerdictsAreRecent
<1>4. RulesInv => Rules!TypeOK /\ Rules!RulesAreRecent /\ Rules!QuietCopyIsTrue
  BY DEF RulesInv, CopyIsTrue, Rules!QuietCopyIsTrue
<1>5. VerdictInv => Verdicts!TypeOK
  BY DEF VerdictInv
<1> QED
  BY <1>1, <1>3, <1>4, <1>5, PTL DEF MCSpec, CopiesAreRecent, Verdicts!VerdictIsRecent

-----------------------------------------------------------------------------
(***************************************************************************)
(* The loop over the patterns of a rule.  The library's induction rules    *)
(* take the formula as a parameter; that a set of numbers has a least one  *)
(* does not, and serves as well: what fails for some number of patterns    *)
(* fails first for one.                                                    *)
(***************************************************************************)
LEMMA LeastNumber ==
  ASSUME NEW S \in SUBSET Nat, S # {}
  PROVE  \E n \in S : \A m \in S : n <= m
<1> DEFINE R == OpToRel(<, Nat)
<1>1. IsWellFoundedOn(R, Nat)
  BY NatLessThanWellFounded
<1>2. \A x, y \in Nat : <<y, x>> \in R <=> y < x
  BY DEF OpToRel
<1> HIDE DEF R
<1>3. PICK x \in S : \A y \in S : ~ (<<y, x>> \in R)
  BY <1>1, WFMin
<1>4. \A y \in S : ~ (y < x)
  BY <1>2, <1>3
<1>5. \A y \in S : x <= y
  BY <1>4
<1> QED
  BY <1>5

Shapes == {"hit", "miss", "broken"}

\* g is what is known after each of the first n patterns.
Computes(p, all, n, g) ==
  g = [i \in 0 .. n |->
         IF i = 0 THEN Eval!Undecided ELSE Eval!Looked(p[i], all, g[i - 1])]

LEMMA LoopExists ==
  ASSUME NEW p \in Seq(Shapes), NEW all \in BOOLEAN
  PROVE  \E g : Computes(p, all, Len(p), g)
<1> DEFINE Bad == {n \in Nat : n <= Len(p) /\ ~ \E g : Computes(p, all, n, g)}
<1> SUFFICES ASSUME Bad # {} PROVE FALSE
  <2>1. Len(p) \in Nat
    OBVIOUS
  <2> QED
    BY <2>1
<1>1. Bad \in SUBSET Nat
  OBVIOUS
<1> HIDE DEF Bad
<1>2. PICK n \in Bad : \A m \in Bad : n <= m
  BY <1>1, LeastNumber
<1>3. n \in Nat /\ n <= Len(p) /\ ~ \E g : Computes(p, all, n, g)
  BY <1>2 DEF Bad
<1>4. CASE n = 0
  <2>1. Computes(p, all, 0, [i \in 0 .. 0 |-> Eval!Undecided])
    BY DEF Computes
  <2> QED
    BY <1>3, <1>4, <2>1
<1>5. CASE n # 0
  <2>1. n - 1 \in Nat /\ n - 1 \notin Bad
    BY <1>1, <1>2, <1>3, <1>5
  <2>2. PICK g : Computes(p, all, n - 1, g)
    BY <1>3, <2>1 DEF Bad
  <2> DEFINE h == [i \in 0 .. n |-> IF i = n THEN Eval!Looked(p[n], all, g[n - 1]) ELSE g[i]]
  <2>3. \A i \in 0 .. n - 1 : h[i] = g[i]
    BY <1>3, <1>5
  <2>4. \A i \in 0 .. n :
          h[i] = IF i = 0 THEN Eval!Undecided ELSE Eval!Looked(p[i], all, h[i - 1])
    <3> TAKE i \in 0 .. n
    <3>1. CASE i = n
      BY <1>3, <1>5, <2>3, <3>1
    <3>2. CASE i # n
      <4>1. i \in 0 .. n - 1
        BY <1>3, <3>2
      <4>2. g[i] = IF i = 0 THEN Eval!Undecided ELSE Eval!Looked(p[i], all, g[i - 1])
        BY <2>2, <4>1 DEF Computes
      <4>3. i # 0 => h[i - 1] = g[i - 1]
        BY <1>3, <2>3, <4>1
      <4> QED
        BY <2>3, <4>1, <4>2, <4>3
    <3> QED
      BY <3>1, <3>2
  <2>5. DOMAIN h = 0 .. n
    OBVIOUS
  <2>6. h = [i \in 0 .. n |-> h[i]]
    OBVIOUS
  <2> HIDE DEF h
  <2>7. Computes(p, all, n, h)
    BY <2>4, <2>6 DEF Computes
  <2> QED
    BY <1>3, <2>7
<1> QED
  BY <1>4, <1>5

\* The recursive function of the model is that of the loop.
LEMMA KnownIs ==
  ASSUME NEW p \in Seq(Shapes), NEW all \in BOOLEAN
  PROVE  \A n \in 0 .. Len(p) : Eval!Known(p, all)[n] =
           IF n = 0 THEN Eval!Undecided ELSE Eval!Looked(p[n], all, Eval!Known(p, all)[n - 1])
<1>1. PICK g : Computes(p, all, Len(p), g)
  BY LoopExists
<1>2. Computes(p, all, Len(p), Eval!Known(p, all))
  BY <1>1 DEF Computes, Eval!Known
<1> DEFINE k == Eval!Known(p, all)
<1> HIDE DEF k
<1>3. k = [i \in 0 .. Len(p) |->
             IF i = 0 THEN Eval!Undecided ELSE Eval!Looked(p[i], all, k[i - 1])]
  BY <1>2 DEF Computes, k
<1>4. \A n \in 0 .. Len(p) :
        k[n] = IF n = 0 THEN Eval!Undecided ELSE Eval!Looked(p[n], all, k[n - 1])
  BY <1>3
<1> QED
  BY <1>4 DEF k

\* What the loop knows after n patterns, in words about the patterns.
Summary(p, all, n, s) ==
  /\ s \in [over : BOOLEAN, hit : BOOLEAN, matched : Nat]
  /\ all => /\ ~s.hit /\ s.matched <= n
            /\ s.over <=> \E i \in 1 .. n : p[i] = "miss"
            /\ ~s.over => (s.matched = n <=> \A i \in 1 .. n : p[i] = "hit")
  /\ ~all => /\ s.hit <=> \E i \in 1 .. n : p[i] = "hit"
             /\ s.over <=> s.hit

LEMMA SummaryStep ==
  ASSUME NEW p \in Seq(Shapes), NEW all \in BOOLEAN, NEW n \in 1 .. Len(p), NEW s,
         Summary(p, all, n - 1, s)
  PROVE  Summary(p, all, n, Eval!Looked(p[n], all, s))
<1> DEFINE t == Eval!Looked(p[n], all, s)
<1>0. p[n] \in Shapes /\ n \in Nat
  OBVIOUS
<1>1. \A i \in 1 .. n : i = n \/ i \in 1 .. n - 1
  OBVIOUS
<1>2. \A i \in 1 .. n - 1 : i \in 1 .. n
  OBVIOUS
<1>3. CASE s.over \/ p[n] = "broken"
  <2>1. t = s
    BY <1>3 DEF Eval!Looked
  <2>2. all => /\ s.over <=> \E i \in 1 .. n : p[i] = "miss"
               /\ ~s.over => s.matched # n /\ ~ \A i \in 1 .. n : p[i] = "hit"
               /\ s.matched <= n
    <3> SUFFICES ASSUME all
                 PROVE  /\ s.over <=> \E i \in 1 .. n : p[i] = "miss"
                        /\ ~s.over => s.matched # n /\ ~ \A i \in 1 .. n : p[i] = "hit"
                        /\ s.matched <= n
      OBVIOUS
    <3>1. s.over <=> \E i \in 1 .. n : p[i] = "miss"
      BY <1>1, <1>2, <1>3 DEF Summary
    <3>2. s.matched <= n - 1 /\ s.matched \in Nat
      BY DEF Summary
    <3>3. ~s.over => ~ \A i \in 1 .. n : p[i] = "hit"
      BY <1>0, <1>3
    <3> QED
      BY <3>1, <3>2, <3>3
  <2>3. ~all => (s.hit <=> \E i \in 1 .. n : p[i] = "hit")
    BY <1>1, <1>2, <1>3 DEF Summary
  <2> HIDE DEF t
  <2> QED
    BY <2>1, <2>2, <2>3 DEF Summary, t
<1>4. CASE ~s.over /\ p[n] = "hit"
  <2>1. t = [over |-> ~all, hit |-> ~all, matched |-> s.matched + 1]
    BY <1>4 DEF Eval!Looked
  <2>2. s.matched \in Nat
    BY DEF Summary
  <2>3. all => ~ \E i \in 1 .. n : p[i] = "miss"
    BY <1>1, <1>4 DEF Summary
  <2>4. all => /\ s.matched + 1 <= n
               /\ s.matched + 1 = n <=> \A i \in 1 .. n : p[i] = "hit"
    <3>1. all => /\ s.matched <= n - 1
                 /\ s.matched = n - 1 <=> \A i \in 1 .. n - 1 : p[i] = "hit"
      BY <1>4 DEF Summary
    <3>2. (\A i \in 1 .. n - 1 : p[i] = "hit") <=> (\A i \in 1 .. n : p[i] = "hit")
      BY <1>1, <1>2, <1>4
    <3> QED
      BY <1>0, <2>2, <3>1, <3>2
  <2>5. \E i \in 1 .. n : p[i] = "hit"
    BY <1>0, <1>4
  <2>6. t \in [over : BOOLEAN, hit : BOOLEAN, matched : Nat] /\ t.over = ~all /\ t.hit = ~all
        /\ t.matched = s.matched + 1
    BY <2>1, <2>2
  <2> HIDE DEF t
  <2> QED
    BY <2>3, <2>4, <2>5, <2>6 DEF Summary, t
<1>5. CASE ~s.over /\ p[n] = "miss"
  <2>1. t = [s EXCEPT !.over = all]
    BY <1>5 DEF Eval!Looked
  <2>2. /\ t \in [over : BOOLEAN, hit : BOOLEAN, matched : Nat] /\ t.over = all
        /\ t.hit = s.hit /\ t.matched = s.matched
    BY <2>1 DEF Summary
  <2>3. \E i \in 1 .. n : p[i] = "miss"
    BY <1>0, <1>5
  <2>4. ~all => (s.hit <=> \E i \in 1 .. n : p[i] = "hit")
    BY <1>1, <1>2, <1>5 DEF Summary
  <2>5. all => s.matched <= n /\ ~s.hit
    BY <1>0 DEF Summary
  <2>6. ~all => ~s.hit
    BY <1>5 DEF Summary
  <2> HIDE DEF t
  <2> QED
    BY <2>2, <2>3, <2>4, <2>5, <2>6 DEF Summary, t
<1> QED
  BY <1>0, <1>3, <1>4, <1>5 DEF Shapes

LEMMA KnownSummary ==
  ASSUME NEW p \in Seq(Shapes), NEW all \in BOOLEAN
  PROVE  Summary(p, all, Len(p), Eval!Known(p, all)[Len(p)])
<1> DEFINE k == Eval!Known(p, all)
           Bad == {n \in Nat : n <= Len(p) /\ ~Summary(p, all, n, k[n])}
<1>0. Len(p) \in Nat
  OBVIOUS
<1> SUFFICES ASSUME Bad # {} PROVE FALSE
  BY <1>0
<1>1. Bad \in SUBSET Nat
  OBVIOUS
<1>2. \A n \in 0 .. Len(p) :
        k[n] = IF n = 0 THEN Eval!Undecided ELSE Eval!Looked(p[n], all, k[n - 1])
  BY KnownIs
<1> HIDE DEF Bad, k
<1>3. PICK n \in Bad : \A m \in Bad : n <= m
  BY <1>1, LeastNumber
<1>4. n \in Nat /\ n <= Len(p) /\ ~Summary(p, all, n, k[n])
  BY <1>3 DEF Bad
<1>5. CASE n = 0
  <2>1. k[0] = Eval!Undecided
    BY <1>0, <1>2
  <2>2. Summary(p, all, 0, Eval!Undecided)
    BY DEF Summary, Eval!Undecided
  <2> QED
    BY <1>4, <1>5, <2>1, <2>2
<1>6. CASE n # 0
  <2>1. n - 1 \in Nat /\ n - 1 \notin Bad /\ n \in 1 .. Len(p) /\ n \in 0 .. Len(p)
    BY <1>0, <1>1, <1>3, <1>4, <1>6
  <2>2. Summary(p, all, n - 1, k[n - 1])
    BY <1>4, <2>1 DEF Bad
  <2>3. k[n] = Eval!Looked(p[n], all, k[n - 1])
    BY <1>2, <1>6, <2>1
  <2> QED
    BY <1>4, <2>1, <2>2, <2>3, SummaryStep
<1> QED
  BY <1>5, <1>6

(***************************************************************************)
(* With AND semantics a rule matches when all its patterns hit, and it has *)
(* one; otherwise when some pattern hits (engine.go:208-246).              *)
(***************************************************************************)
LEMMA MatchesByItsPatterns ==
  ASSUME NEW p \in Seq(Shapes), NEW all \in BOOLEAN
  PROVE  Eval!MatchPatterns(p, all) <=>
           IF all THEN Eval!ToSet(p) = {"hit"} ELSE "hit" \in Eval!ToSet(p)
<1> DEFINE end == Eval!Known(p, all)[Len(p)]
<1>1. Summary(p, all, Len(p), end)
  BY KnownSummary
<1>2. Eval!MatchPatterns(p, all) <=>
        p # <<>> /\ (end.hit \/ (all /\ ~end.over /\ end.matched = Len(p)))
  BY DEF Eval!MatchPatterns
<1> HIDE DEF end
<1>3. Eval!ToSet(p) = {p[i] : i \in 1 .. Len(p)}
  BY DEF Eval!ToSet
<1>4. p # <<>> <=> 1 \in 1 .. Len(p)
  OBVIOUS
<1>5. \A i \in 1 .. Len(p) : p[i] \in Shapes
  OBVIOUS
<1>6. CASE all
  <2>1. ~end.hit /\ (end.over <=> \E i \in 1 .. Len(p) : p[i] = "miss")
        /\ (~end.over => (end.matched = Len(p) <=> \A i \in 1 .. Len(p) : p[i] = "hit"))
    BY <1>1, <1>6 DEF Summary
  <2>2. ~end.over /\ end.matched = Len(p) <=> \A i \in 1 .. Len(p) : p[i] = "hit"
    BY <2>1
  <2>3. Eval!ToSet(p) = {"hit"} <=> p # <<>> /\ \A i \in 1 .. Len(p) : p[i] = "hit"
    <3>1. ASSUME Eval!ToSet(p) = {"hit"} PROVE 1 \in 1 .. Len(p)
      <4>1. PICK i \in 1 .. Len(p) : p[i] = "hit"
        BY <1>3, <3>1
      <4> QED
        BY <4>1
    <3>2. ASSUME Eval!ToSet(p) = {"hit"} PROVE \A i \in 1 .. Len(p) : p[i] = "hit"
      BY <1>3, <3>2
    <3>3. ASSUME 1 \in 1 .. Len(p), \A i \in 1 .. Len(p) : p[i] = "hit"
          PROVE  Eval!ToSet(p) = {"hit"}
      BY <1>3, <3>3
    <3> QED
      BY <1>4, <3>1, <3>2, <3>3
  <2> QED
    BY <1>2, <1>6, <2>1, <2>2, <2>3
<1>7. CASE ~all
  <2>1. end.hit <=> \E i \in 1 .. Len(p) : p[i] = "hit"
    BY <1>1, <1>7 DEF Summary
  <2>2. (\E i \in 1 .. Len(p) : p[i] = "hit") => p # <<>>
    BY <1>4
  <2>3. "hit" \in Eval!ToSet(p) <=> \E i \in 1 .. Len(p) : p[i] = "hit"
    BY <1>3
  <2> QED
    BY <1>2, <1>7, <2>1, <2>2, <2>3
<1> QED
  BY <1>6, <1>7

-----------------------------------------------------------------------------
(***************************************************************************)
(* An evaluation.  Of the rules looked at so far exactly those have fired  *)
(* that fire alone, and the decision is made when all have been.           *)
(***************************************************************************)
FiredSoFar == Eval!ToSet(fired) = {i \in 1 .. next - 1 : Eval!FiresAlone(i)}

DecidedAtTheEnd == decision # "none" => next = Len(rules) + 1

EvalInv == Eval!TypeOK /\ FiredSoFar /\ DecidedAtTheEnd /\ Eval!DecisionIsDetermined

\* What the types say of the evaluation, for the steps that need no more.
LEMMA EvalTyping ==
  ASSUME Eval!TypeOK
  PROVE  /\ rules \in Seq(Eval!Rule) /\ Len(rules) \in Nat /\ DOMAIN rules = 1 .. Len(rules)
         /\ next \in Nat /\ next >= 1 /\ next <= Len(rules) + 1
         /\ \A i \in 1 .. Len(rules) : rules[i] \in Eval!Rule
BY DEF Eval!TypeOK

\* A rule that does not ask the detector has a sequence of patterns.
LEMMA PatternTyping ==
  ASSUME NEW r \in Eval!Rule, ~Eval!AsksDetector(r)
  PROVE  r.condition.patterns \in Seq(Shapes) /\ r.condition.all \in BOOLEAN
<1>1. r.condition \in Eval!Condition
  BY DEF Eval!Rule
<1>2. r.condition # [detector |-> TRUE]
  BY DEF Eval!AsksDetector
<1>3. /\ r.condition.patterns \in Eval!SeqOf(Shapes, MaxPatterns)
      /\ r.condition.all \in BOOLEAN
  BY <1>1, <1>2 DEF Eval!Condition, Shapes
<1>4. PICK m \in 0 .. MaxPatterns : r.condition.patterns \in [1 .. m -> Shapes]
  BY <1>3 DEF Eval!SeqOf
<1>5. r.condition.patterns \in Seq(Shapes)
  BY <1>4
<1> QED
  BY <1>3, <1>5

\* Whether a rule fires alone depends on the rule and what the detector says.
Fires(r, answer) ==
  /\ r.applies
  /\ IF Eval!AsksDetector(r) THEN answer = "injection"
     ELSE IF r.condition.all THEN Eval!ToSet(r.condition.patterns) = {"hit"}
          ELSE "hit" \in Eval!ToSet(r.condition.patterns)

LEMMA FiringIs ==
  /\ \A i : Eval!FiresAlone(i) <=> Fires(rules[i], said[i])
  /\ \A i : Eval!FiresAlone(i)' <=> Fires(rules'[i], said'[i])
BY DEF Eval!FiresAlone, Fires, Eval!AsksDetector, Eval!ToSet

\* A rule matches exactly when it fires alone.
LEMMA MatchesAlone ==
  ASSUME NEW r \in Eval!Rule, NEW answer
  PROVE  r.applies /\ Eval!Matches(r, answer) <=> Fires(r, answer)
<1>1. CASE Eval!AsksDetector(r)
  BY <1>1 DEF Eval!Matches, Fires
<1>2. CASE ~Eval!AsksDetector(r)
  <2> DEFINE p == r.condition.patterns
             a == r.condition.all
  <2>1. p \in Seq(Shapes) /\ a \in BOOLEAN
    BY <1>2, PatternTyping
  <2>2. Eval!MatchPatterns(p, a) <=>
          IF a THEN Eval!ToSet(p) = {"hit"} ELSE "hit" \in Eval!ToSet(p)
    BY <2>1, MatchesByItsPatterns
  <2> QED
    BY <1>2, <2>2 DEF Eval!Matches, Fires
<1> QED
  BY <1>1, <1>2

\* No rule has been looked at.
LEMMA EvalInit ==
  ASSUME rules \in Seq(Eval!Rule), Len(rules) <= MaxRules, next = 1, fired = <<>>,
         said \in [1 .. Len(rules) -> {"nothing", "injection", "harmless", "error"}],
         decision = "none"
  PROVE  EvalInv
<1>1. Eval!TypeOK
  BY DEF Eval!TypeOK
<1>2. Eval!ToSet(<<>>) = {}
  BY DEF Eval!ToSet
<1> QED
  BY <1>1, <1>2 DEF EvalInv, FiredSoFar, DecidedAtTheEnd, Eval!DecisionIsDetermined

\* Of the rules that fired a foremost one is of the least priority, and no
\* other of that priority is more severe.
LEMMA ForemostIsDetermined ==
  ASSUME Eval!TypeOK, NEW F, F \subseteq 1 .. Len(rules), F = Eval!ToSet(fired),
         NEW w \in Eval!Foremost
  PROVE  LET first == {i \in F : \A j \in F : rules[i].priority <= rules[j].priority}
         IN  /\ w \in first
             /\ \A j \in first :
                  Eval!Severity[rules[w].action] <= Eval!Severity[rules[j].action]
<1> USE EvalAssumption DEF Eval!EvalAssumption
<1>1. ASSUME NEW i \in 1 .. Len(rules)
      PROVE  rules[i].priority \in Nat /\ Eval!Severity[rules[i].action] \in Nat
  <2>1. rules[i].priority \in Nat /\ rules[i].action \in DOMAIN Eval!Severity
    BY EvalTyping DEF Eval!Rule
  <2> QED
    BY <2>1 DEF Eval!Severity
<1>2. w \in F /\ \A j \in F : ~Eval!Precedes(rules[j], rules[w])
  BY DEF Eval!Foremost
<1>3. \A j \in F : rules[w].priority <= rules[j].priority
  BY <1>1, <1>2 DEF Eval!Precedes
<1>4. ASSUME NEW j \in F, rules[j].priority <= rules[w].priority
      PROVE  Eval!Severity[rules[w].action] <= Eval!Severity[rules[j].action]
  <2>1. rules[j].priority = rules[w].priority
    BY <1>1, <1>2, <1>3, <1>4
  <2> QED
    BY <1>1, <1>2, <2>1 DEF Eval!Precedes
<1> QED
  BY <1>2, <1>3, <1>4

\* Every round of the loop and the decision keep the invariant.
LEMMA EvalStep == EvalInv /\ [Eval!Next]_Eval!vars => EvalInv'
<1> SUFFICES ASSUME EvalInv, [Eval!Next]_Eval!vars
             PROVE  EvalInv'
  OBVIOUS
<1> USE DEF EvalInv
<1>0. Eval!TypeOK
  OBVIOUS
<1>1. CASE UNCHANGED Eval!vars
  <2>1. UNCHANGED <<rules, next, fired, said, decision>>
    BY <1>1 DEF Eval!vars
  <2>2. \A i : Eval!FiresAlone(i)' <=> Eval!FiresAlone(i)
    BY <2>1, FiringIs
  <2> QED
    BY <2>1, <2>2 DEF Eval!TypeOK, FiredSoFar, DecidedAtTheEnd, Eval!ToSet,
                      Eval!DecisionIsDetermined
<1>2. CASE Eval!EvaluateRule
  <2>1. /\ next <= Len(rules) /\ next' = next + 1
        /\ UNCHANGED <<rules, decision>> /\ decision = "none"
        /\ next \in 1 .. Len(rules) /\ next' \in 1 .. Len(rules) + 1
        /\ Len(rules) \in Nat
    BY <1>2, EvalTyping DEF Eval!EvaluateRule, DecidedAtTheEnd
  <2>2. PICK a \in Eval!Answers(rules[next]) :
          /\ said' = [said EXCEPT ![next] = a]
          /\ fired' = IF rules[next].applies /\ Eval!Matches(rules[next], a)
                      THEN Append(fired, next) ELSE fired
    BY <1>2 DEF Eval!EvaluateRule
  <2>3. a \in {"nothing", "injection", "harmless", "error"}
    BY DEF Eval!Answers
  <2>4. /\ said' \in [1 .. Len(rules) -> {"nothing", "injection", "harmless", "error"}]
        /\ said'[next] = a
        /\ \A i \in 1 .. next - 1 : said'[i] = said[i]
    BY <1>0, <2>1, <2>2, <2>3 DEF Eval!TypeOK
  <2>5. /\ rules[next].applies /\ Eval!Matches(rules[next], a) <=> Fires(rules[next], a)
        /\ \A i \in 1 .. next - 1 : Eval!FiresAlone(i)' <=> Eval!FiresAlone(i)
    <3>1. rules[next] \in Eval!Rule
      BY <2>1, EvalTyping
    <3>2. rules' = rules /\ said'[next] = a /\ \A i \in 1 .. next - 1 : said'[i] = said[i]
      BY <2>1, <2>4
    <3>3. rules[next].applies /\ Eval!Matches(rules[next], a) <=> Fires(rules[next], a)
      BY <3>1, MatchesAlone
    <3>6. ASSUME NEW i \in 1 .. next - 1
          PROVE  Eval!FiresAlone(i)' <=> Eval!FiresAlone(i)
      <4>1. Eval!FiresAlone(i)' <=> Fires(rules'[i], said'[i])
        BY FiringIs, Zenon
      <4>2. Eval!FiresAlone(i) <=> Fires(rules[i], said[i])
        BY FiringIs, Zenon
      <4>3. said'[i] = said[i] /\ rules'[i] = rules[i]
        BY <3>2
      <4> QED
        BY <4>1, <4>2, <4>3
    <3> QED
      BY <3>3, <3>6
  <2>6. /\ fired' \in Seq(1 .. Len(rules)) /\ Len(fired') < next'
        /\ Eval!ToSet(fired') =
             IF Fires(rules[next], a) THEN Eval!ToSet(fired) \cup {next} ELSE Eval!ToSet(fired)
    <3>1. /\ fired \in Seq(1 .. Len(rules)) /\ Len(fired) < next /\ Len(fired) \in Nat
      BY <1>0 DEF Eval!TypeOK
    <3>2. CASE Fires(rules[next], a)
      <4>1. fired' = Append(fired, next)
        BY <2>2, <2>5, <3>2
      <4>2. /\ fired' \in Seq(1 .. Len(rules)) /\ Len(fired') = Len(fired) + 1
            /\ \A i \in 1 .. Len(fired) : fired'[i] = fired[i]
            /\ fired'[Len(fired) + 1] = next
        BY <2>1, <3>1, <4>1
      <4>3. Eval!ToSet(fired') = Eval!ToSet(fired) \cup {next}
        <5>1. DOMAIN fired' = 1 .. Len(fired) + 1 /\ DOMAIN fired = 1 .. Len(fired)
          BY <3>1, <4>2
        <5>2. \A i \in 1 .. Len(fired) + 1 : i = Len(fired) + 1 \/ i \in 1 .. Len(fired)
          BY <3>1
        <5>3. \A i \in 1 .. Len(fired) : i \in 1 .. Len(fired) + 1
          BY <3>1
        <5>4. Len(fired) + 1 \in 1 .. Len(fired) + 1
          BY <3>1
        <5> QED
          BY <4>2, <5>1, <5>2, <5>3, <5>4 DEF Eval!ToSet
      <4> QED
        BY <2>1, <3>1, <3>2, <4>2, <4>3
    <3>3. CASE ~Fires(rules[next], a)
      BY <2>1, <2>2, <2>5, <3>1, <3>3
    <3> QED
      BY <3>2, <3>3
  <2>7. FiredSoFar'
    <3>1. \A i \in 1 .. next' - 1 : i = next \/ i \in 1 .. next - 1
      BY <2>1
    <3>2. next \in 1 .. next' - 1 /\ \A i \in 1 .. next - 1 : i \in 1 .. next' - 1
      BY <2>1
    <3>3. \A i \in 1 .. next - 1 : i # next
      BY <2>1
    <3>4. Eval!ToSet(fired) = {i \in 1 .. next - 1 : Eval!FiresAlone(i)}
      BY DEF FiredSoFar
    <3>5. Eval!ToSet(fired') = {i \in 1 .. next' - 1 : Eval!FiresAlone(i)'}
      <4>1. ASSUME NEW i
            PROVE  i \in Eval!ToSet(fired') <=> i \in 1 .. next' - 1 /\ Eval!FiresAlone(i)'
        <5>1. i \in Eval!ToSet(fired') <=>
                i \in Eval!ToSet(fired) \/ (Fires(rules[next], a) /\ i = next)
          BY <2>6
        <5>2. i \in Eval!ToSet(fired) <=> i \in 1 .. next - 1 /\ Eval!FiresAlone(i)
          BY <3>4
        <5>3. i \in 1 .. next - 1 => (Eval!FiresAlone(i)' <=> Eval!FiresAlone(i))
          BY <2>5
        <5>4. CASE i = next
          <6>1. i \notin 1 .. next - 1 /\ i \in 1 .. next' - 1
            BY <3>2, <3>3, <5>4
          <6>2. Eval!FiresAlone(i)' <=> Fires(rules[next], a)
            <7>1. Eval!FiresAlone(i)' <=> Fires(rules'[i], said'[i])
              BY FiringIs, Zenon
            <7>2. rules'[i] = rules[next] /\ said'[i] = a
              BY <2>1, <2>4, <5>4
            <7> QED
              BY <7>1, <7>2
          <6> QED
            BY <5>1, <5>2, <5>4, <6>1, <6>2
        <5>5. CASE i # next
          BY <3>1, <3>2, <5>1, <5>2, <5>3, <5>5
        <5> QED
          BY <5>4, <5>5
      <4> QED
        BY <4>1
    <3> QED
      BY <3>5 DEF FiredSoFar, Eval!ToSet
  <2>8. Eval!TypeOK'
    BY <1>0, <2>1, <2>4, <2>6 DEF Eval!TypeOK
  <2> QED
    BY <2>1, <2>7, <2>8 DEF DecidedAtTheEnd, Eval!DecisionIsDetermined
<1>3. CASE Eval!Decide
  <2>1. /\ UNCHANGED <<rules, next, fired, said>> /\ next = Len(rules) + 1
        /\ 1 .. next - 1 = DOMAIN rules /\ DOMAIN rules = 1 .. Len(rules)
    BY <1>3, EvalTyping DEF Eval!Decide
  <2> DEFINE F == {i \in DOMAIN rules : Eval!FiresAlone(i)}
  <2>2. Eval!ToSet(fired) = F /\ F \subseteq 1 .. Len(rules)
    BY <2>1 DEF FiredSoFar
  <2>3. /\ FiredSoFar' /\ DecidedAtTheEnd'
        /\ {i \in DOMAIN rules' : Eval!FiresAlone(i)'} = F
    <3>1. \A i : Eval!FiresAlone(i)' <=> Eval!FiresAlone(i)
      BY <2>1, FiringIs
    <3> QED
      BY <2>1, <3>1 DEF FiredSoFar, DecidedAtTheEnd, Eval!ToSet
  <2>4. fired \in Seq(1 .. Len(rules))
    BY <1>0 DEF Eval!TypeOK
  <2>5. CASE fired = <<>>
    <3>1. decision' = "allow" /\ F = {}
      BY <1>3, <2>2, <2>5 DEF Eval!Decide, Eval!ToSet
    <3>2. Eval!DecisionIsDetermined'
      BY <2>3, <3>1 DEF Eval!DecisionIsDetermined
    <3> QED
      BY <1>0, <2>1, <2>3, <3>1, <3>2 DEF Eval!TypeOK
  <2>6. CASE fired # <<>>
    <3>1. PICK w \in Eval!Foremost : decision' = rules[w].action /\ decision' \in Action
      BY <1>3, <2>6 DEF Eval!Decide, Eval!Wins
    <3> HIDE DEF F
    <3>2. /\ w \in F
          /\ \A j \in F : rules[w].priority <= rules[j].priority
          /\ \A j \in F : (\A k \in F : rules[j].priority <= rules[k].priority) =>
               Eval!Severity[rules[w].action] <= Eval!Severity[rules[j].action]
      BY <1>0, <2>2, ForemostIsDetermined
    <3>3. Eval!DecisionIsDetermined'
      BY <2>1, <2>3, <3>1, <3>2 DEF Eval!DecisionIsDetermined
    <3> QED
      BY <1>0, <2>1, <2>3, <3>1, <3>3 DEF Eval!TypeOK
  <2> QED
    BY <2>5, <2>6
<1> QED
  BY <1>1, <1>2, <1>3 DEF Eval!Next

(***************************************************************************)
(* What is decided of a content is determined by its tenant's rules, for   *)
(* any number of rules and patterns and any priorities: each fires as it   *)
(* would alone, and the action of the first of those, by priority and      *)
(* severity, wins (guardrails/engine.go:84-247).                           *)
(***************************************************************************)
THEOREM RulesDecide == MCSpec => []DecisionIsDetermined
<1> USE DEF verdictVars, rulesVars, evalVars
<1>1. MCInit => EvalInv
  <2> SUFFICES ASSUME MCInit PROVE EvalInv
    OBVIOUS
  <2>1. CASE Eval!Init
    <3>1. PICK n \in 0 .. MaxRules : rules \in [1 .. n -> Eval!Rule]
      BY <2>1 DEF Eval!Init
    <3>2. rules \in Seq(Eval!Rule) /\ Len(rules) = n /\ DOMAIN rules = 1 .. n
      BY <3>1
    <3>3. said \in [1 .. Len(rules) -> {"nothing", "injection", "harmless", "error"}]
      BY <2>1, <3>2 DEF Eval!Init
    <3> QED
      BY <2>1, <3>2, <3>3, EvalInit, EvalAssumption DEF Eval!Init, Eval!EvalAssumption
  <2>2. CASE rules = <<>> /\ next = 1 /\ fired = <<>> /\ said = <<>> /\ decision = "none"
    BY <2>2, EvalInit, EvalAssumption DEF Eval!EvalAssumption
  <2> QED
    BY <2>1, <2>2 DEF MCInit
<1>2. [MCNext]_<<moving, vars, evalVars, rulesVars, verdictVars>> => [Eval!Next]_Eval!vars
  BY DEF MCNext, Eval!vars
<1>3. EvalInv => DecisionIsDetermined
  <2> SUFFICES ASSUME EvalInv PROVE Eval!RulesAreIndependent
    BY DEF EvalInv, DecisionIsDetermined
  <2>1. next > Len(rules) => 1 .. next - 1 = DOMAIN rules
    BY EvalTyping DEF EvalInv
  <2> QED
    BY <2>1 DEF EvalInv, FiredSoFar, Eval!RulesAreIndependent
<1> QED
  BY <1>1, <1>2, <1>3, EvalStep, PTL DEF MCSpec
=============================================================================
