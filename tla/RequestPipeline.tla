-------------------------- MODULE RequestPipeline --------------------------
(***************************************************************************)
(* One proxied request from its body to its answer: handleChatCompletions  *)
(* and handleAnthropicMessages (backend/internal/proxy/handlers.go), with  *)
(* the circuit breaker of the one endpoint that serves their model.        *)
(*                                                                         *)
(* Each request is a goroutine.  Its client may go away at any time: the   *)
(* request's context is cancelled then, and with it every call made under  *)
(* that context.  The guardrail engine and the detector may fail, and the  *)
(* upstream may refuse the connection, answer with any status, break the   *)
(* body off, or never answer (the HTTP client has no timeout).             *)
(*                                                                         *)
(* Abstracted: the content.  What a check says of it is any of its         *)
(* outcomes, so a check that is skipped because there is nothing to look   *)
(* at is one that allows.  The spans of the checks are left out: they      *)
(* start and end around one call, whatever it returns.                     *)
(***************************************************************************)
EXTENDS CircuitBreaker

CONSTANTS
  Request,         \* goroutines that serve proxy requests
  Detector         \* whether the ML detector is configured (s.secllm # nil)

ASSUME PipelineAssumption == Detector \in BOOLEAN

VARIABLES
  pc,              \* where the handler of a request stands
  api,             \* the route, and whether chat is to be streamed
  gone,            \* whether the client has gone away
  candidate,       \* what Available said of the endpoint in r's Pick
  open,            \* spans of the request that are open
  status,          \* class of the upstream's status
  body,            \* what was read of the upstream's body
  heads,           \* calls of WriteHeader, counted up to 2
  refused,         \* history: the kinds of check that refused
  sent,            \* history: the upstream has been called
  delivered,       \* history: the client was sent something of the model's
  breaker,         \* the endpoint's circuit breaker
  streak           \* history: recorded failures since the last success

callVars == <<api, gone, candidate, status, body>>
handlerVars == <<pc, callVars, open, heads>>
historyVars == <<refused, sent, delivered>>
healthVars == <<breaker, streak>>
vars == <<handlerVars, historyVars, healthVars>>

(* A native Anthropic request is relayed alike with and without a stream. *)
Apis == {"chat", "chatStream", "messages"}
InputChecks == {"input", "semantic", "poison"}
Calling == {"build", "call", "body", "inspect", "deliver", "head", "relay", "record"}
Places ==
  {"idle", "read", "pick", "scanning", "scanned", "done"} \cup InputChecks \cup Calling

TypeOK ==
  /\ pc \in [Request -> Places]
  /\ api \in [Request -> Apis]
  /\ gone \in [Request -> BOOLEAN]
  /\ candidate \in [Request -> BOOLEAN]
  /\ open \in [Request -> SUBSET {"thread", "llm", "upstream"}]
  /\ status \in [Request -> {"none", "ok", "4xx", "5xx"}]
  /\ body \in [Request -> {"none", "whole", "brokenOff", "left"}]
  /\ heads \in [Request -> 0 .. 2]
  /\ refused \in [Request -> SUBSET {"input", "output"}]
  /\ sent \in [Request -> BOOLEAN]
  /\ delivered \in [Request -> BOOLEAN]
  /\ breaker \in Breaker
  /\ streak \in 0 .. FailThreshold

Init ==
  /\ pc = [r \in Request |-> "idle"]
  /\ api = [r \in Request |-> "chat"]
  /\ gone = [r \in Request |-> FALSE]
  /\ candidate = [r \in Request |-> FALSE]
  /\ open = [r \in Request |-> {}]
  /\ status = [r \in Request |-> "none"]
  /\ body = [r \in Request |-> "none"]
  /\ heads = [r \in Request |-> 0]
  /\ refused = [r \in Request |-> {}]
  /\ sent = [r \in Request |-> FALSE]
  /\ delivered = [r \in Request |-> FALSE]
  /\ breaker = NewBreaker
  /\ streak = 0

Goto(r, place) == pc' = [pc EXCEPT ![r] = place]

Extended(n) == IF n < FailThreshold THEN n + 1 ELSE n

(* WriteHeader: a second call would be superfluous, and is what             *)
(* AnsweredOnce looks for.                                                  *)
WriteHeader(r) ==
  heads' = [heads EXCEPT ![r] = IF @ < 2 THEN @ + 1 ELSE @]

WriteErrorAndGoOn(r, next) ==                    \* mutant of WriteError
  /\ WriteHeader(r)
  /\ Goto(r, next)

(* writeError and the return that follows it wherever it is called; next is *)
(* where the handler would go on without that return.                       *)
WriteError(r, next) ==
  /\ WriteHeader(r)
  /\ Goto(r, "done")

-----------------------------------------------------------------------------
(* The request arrives, and its client may leave. *)

(* agentTraceMiddleware: the agent and the thread span, as one. *)
Start(r, a) ==
  /\ pc[r] = "idle"
  /\ Goto(r, "read")
  /\ api' = [api EXCEPT ![r] = a]
  /\ open' = [open EXCEPT ![r] = {"thread"}]
  /\ UNCHANGED <<gone, candidate, status, body, heads, historyVars, healthVars>>

GiveUp(r) ==
  /\ pc[r] \notin {"idle", "done"}
  /\ gone' = [gone EXCEPT ![r] = TRUE]
  /\ UNCHANGED <<pc, api, candidate, open, status, body, heads, historyVars, healthVars>>

(* The upstream call carries the context of the client's request. *)
Cancelled(r) == gone[r]

(* The body cannot be read or parsed, or lacks the model or the messages. *)
BadRequest(r) ==
  /\ pc[r] = "read"
  /\ WriteError(r, "pick")
  /\ UNCHANGED <<callVars, open, historyVars, healthVars>>

Accept(r) ==
  /\ pc[r] = "read"
  /\ Goto(r, IF api[r] = "messages" THEN "pick" ELSE "input")
  /\ UNCHANGED <<callVars, open, heads, historyVars, healthVars>>

-----------------------------------------------------------------------------
(* The checks of the input: rules, then the detector on everything, then    *)
(* the detector on what tools returned.                                     *)

AfterCheck(r) ==
  CASE pc[r] = "input"    -> IF Detector THEN "semantic" ELSE "pick"
    [] pc[r] = "semantic" -> "poison"
    [] pc[r] = "poison"   -> "pick"

(* The check allows; or the rules cannot be loaded, or the detector gives   *)
(* no answer, and the handler goes on as if nothing had been found.         *)
CheckPasses(r) ==
  /\ pc[r] \in InputChecks
  /\ Goto(r, AfterCheck(r))
  /\ UNCHANGED <<callVars, open, heads, historyVars, healthVars>>

CheckRefuses(r) ==
  /\ pc[r] \in InputChecks
  /\ WriteError(r, AfterCheck(r))
  /\ refused' = [refused EXCEPT ![r] = @ \cup {"input"}]
  /\ UNCHANGED <<callVars, open, sent, delivered, healthVars>>

-----------------------------------------------------------------------------
(* Router.Pick, for the one endpoint of the tenant and model. *)

BeginPick(r) ==
  /\ pc[r] = "pick"
  /\ Goto(r, "scanning")
  /\ UNCHANGED <<callVars, open, heads, historyVars, healthVars>>

ScanEndpoint(r) ==
  /\ pc[r] = "scanning"
  /\ Goto(r, "scanned")
  /\ candidate' = [candidate EXCEPT ![r] = Available(breaker)]
  /\ breaker' = AfterAvailable(breaker)
  /\ UNCHANGED <<api, gone, open, status, body, heads, historyVars, streak>>

PickFails(r) ==
  /\ pc[r] = "scanned"
  /\ ~candidate[r]
  /\ WriteError(r, "build")
  /\ UNCHANGED <<callVars, open, historyVars, healthVars>>

PickSucceeds(r) ==
  /\ pc[r] = "scanned"
  /\ candidate[r]
  /\ Goto(r, "build")
  /\ UNCHANGED <<callVars, open, heads, historyVars, healthVars>>

-----------------------------------------------------------------------------
(* The upstream call, under an llm.generation and an upstream.call span. *)

(* The request cannot be built: both spans have been started and are ended. *)
BuildFails(r) ==
  /\ pc[r] = "build"
  /\ WriteError(r, "call")
  /\ UNCHANGED <<callVars, open, historyVars, healthVars>>

Build(r) ==
  /\ pc[r] = "build"
  /\ Goto(r, "call")
  /\ open' = [open EXCEPT ![r] = @ \cup {"llm", "upstream"}]
  /\ sent' = [sent EXCEPT ![r] = TRUE]
  /\ UNCHANGED <<callVars, heads, refused, delivered, healthVars>>

EndSpans(r, names) == open' = [open EXCEPT ![r] = @ \ names]

RecordError ==
  /\ breaker' = RecordFailure(breaker)
  /\ streak' = Extended(streak)

(* Client.Do returns an error: nobody answers at the upstream, or the       *)
(* client of the gateway has gone away.  Both are errors of the endpoint.   *)
DoFails(r) ==
  /\ pc[r] = "call"
  /\ RecordError
  /\ EndSpans(r, {"upstream", "llm"})
  /\ WriteError(r, "body")
  /\ UNCHANGED <<callVars, historyVars>>

(* Its error for a cancelled context, which it returns in any case. *)
DoCancelled(r) == Cancelled(r) /\ DoFails(r)

(* Headers arrive.  The native Anthropic route passes them on at once, as   *)
(* does a stream; otherwise the body is read first.                         *)
Answered(r, s) ==
  /\ pc[r] = "call"
  /\ status' = [status EXCEPT ![r] = s]
  /\ EndSpans(r, {"upstream"})
  /\ Goto(r, IF api[r] = "chat" THEN "body" ELSE "head")
  /\ UNCHANGED <<api, gone, candidate, body, heads, historyVars, healthVars>>

(* How reading a body may end.  io.ReadAll's error is dropped and the       *)
(* scanner's is never asked for, so the handler does not know.              *)
BodyEnds(r, b) ==
  /\ b = "left" => Cancelled(r)
  /\ body' = [body EXCEPT ![r] = b]

WriteHead(r) ==
  /\ pc[r] = "head"
  /\ WriteHeader(r)
  /\ Goto(r, "relay")
  /\ UNCHANGED <<callVars, open, historyVars, healthVars>>

(* proxySSE, or a body that is read and written out as it is. *)
Relay(r, b) ==
  /\ pc[r] = "relay"
  /\ BodyEnds(r, b)
  /\ delivered' = [delivered EXCEPT ![r] = TRUE]
  /\ Goto(r, "record")
  /\ UNCHANGED <<api, gone, candidate, open, status, heads, refused, sent, healthVars>>

ReadBody(r, b) ==
  /\ pc[r] = "body"
  /\ BodyEnds(r, b)
  /\ Goto(r, IF status[r] = "ok" THEN "inspect" ELSE "deliver")
  /\ UNCHANGED <<api, gone, candidate, open, status, heads, historyVars, healthVars>>

-----------------------------------------------------------------------------
(* The output guardrail, and the end of the handler. *)

(* Allowed, or not judged because the rules could not be loaded. *)
OutputPasses(r) ==
  /\ pc[r] = "inspect"
  /\ Goto(r, "deliver")
  /\ UNCHANGED <<callVars, open, heads, historyVars, healthVars>>

OutputRefusesOpen(r) ==                          \* mutant of OutputRefuses
  /\ pc[r] = "inspect"
  /\ WriteError(r, "deliver")
  /\ refused' = [refused EXCEPT ![r] = @ \cup {"output"}]
  /\ UNCHANGED <<callVars, open, sent, delivered, healthVars>>

OutputRefusesSilently(r) ==                      \* mutant of OutputRefuses
  /\ pc[r] = "inspect"
  /\ Goto(r, "deliver")
  /\ refused' = [refused EXCEPT ![r] = @ \cup {"output"}]
  /\ UNCHANGED <<callVars, open, heads, sent, delivered, healthVars>>

(* The response is dropped, and no result is recorded for the endpoint. *)
OutputRefuses(r) ==
  /\ pc[r] = "inspect"
  /\ EndSpans(r, {"llm"})
  /\ WriteError(r, "deliver")
  /\ refused' = [refused EXCEPT ![r] = @ \cup {"output"}]
  /\ UNCHANGED <<callVars, sent, delivered, healthVars>>

Deliver(r) ==
  /\ pc[r] = "deliver"
  /\ WriteHeader(r)
  /\ delivered' = [delivered EXCEPT ![r] = TRUE]
  /\ Goto(r, "record")
  /\ UNCHANGED <<callVars, open, refused, sent, healthVars>>

RecordTwice(r) ==                                \* mutant of Record
  /\ pc[r] = "record"
  /\ IF status[r] = "5xx"
     THEN RecordError
     ELSE breaker' = RecordSuccess(breaker) /\ streak' = 0
  /\ EndSpans(r, {"llm"})
  /\ pc' \in {[pc EXCEPT ![r] = "done"], [pc EXCEPT ![r] = "record"]}
  /\ UNCHANGED <<callVars, heads, historyVars>>

(* Only the status decides which result is recorded. *)
Record(r) ==
  /\ pc[r] = "record"
  /\ IF status[r] = "5xx"
     THEN RecordError
     ELSE breaker' = RecordSuccess(breaker) /\ streak' = 0
  /\ EndSpans(r, {"llm"})
  /\ Goto(r, "done")
  /\ UNCHANGED <<callVars, heads, historyVars>>

(* The handler has returned, through the middleware that ends its spans;    *)
(* the goroutine serves another request.                                    *)
Return(r) ==
  /\ pc[r] = "done"
  /\ Goto(r, "idle")
  /\ api' = [api EXCEPT ![r] = "chat"]
  /\ gone' = [gone EXCEPT ![r] = FALSE]
  /\ candidate' = [candidate EXCEPT ![r] = FALSE]
  /\ open' = [open EXCEPT ![r] = @ \ {"thread"}]
  /\ status' = [status EXCEPT ![r] = "none"]
  /\ body' = [body EXCEPT ![r] = "none"]
  /\ heads' = [heads EXCEPT ![r] = 0]
  /\ refused' = [refused EXCEPT ![r] = {}]
  /\ sent' = [sent EXCEPT ![r] = FALSE]
  /\ delivered' = [delivered EXCEPT ![r] = FALSE]
  /\ UNCHANGED healthVars

Tick ==
  /\ breaker' = Age(breaker)
  /\ UNCHANGED <<handlerVars, historyVars, streak>>

-----------------------------------------------------------------------------
(* Steps of the handler that wait for nothing outside the gateway. *)
Compute(r) ==
  \/ BadRequest(r) \/ Accept(r)
  \/ BeginPick(r) \/ ScanEndpoint(r) \/ PickFails(r) \/ PickSucceeds(r)
  \/ BuildFails(r) \/ Build(r)
  \/ WriteHead(r) \/ Deliver(r) \/ Record(r) \/ Return(r)

(* The verdicts of the rules and of the detector. *)
Judge(r) ==
  \/ CheckPasses(r) \/ CheckRefuses(r)
  \/ OutputPasses(r) \/ OutputRefuses(r)

(* The upstream's part of the conversation. *)
Converse(r) ==
  \/ DoFails(r)
  \/ \E s \in {"ok", "4xx", "5xx"} : Answered(r, s)
  \/ \E b \in {"whole", "brokenOff", "left"} : Relay(r, b) \/ ReadBody(r, b)

(* What a cancelled context makes of it. *)
Cancel(r) == DoCancelled(r) \/ Relay(r, "left") \/ ReadBody(r, "left")

Next ==
  \/ \E r \in Request :
       \/ \E a \in Apis : Start(r, a)
       \/ GiveUp(r)
       \/ Compute(r) \/ Judge(r) \/ Converse(r)
  \/ Tick

Spec == Init /\ [][Next]_vars

(***************************************************************************)
(* The goroutine of a request runs, and the checks return: Redis, the      *)
(* database and the sidecar are called with the request's context, and the *)
(* sidecar also with a timeout.  A call that is cancelled returns.  Nothing *)
(* is assumed of an upstream whose client waits.                           *)
(***************************************************************************)
Fairness ==
  \A r \in Request :
    WF_vars(Compute(r)) /\ WF_vars(Judge(r)) /\ WF_vars(Cancel(r))

FairSpec == Spec /\ Fairness

-----------------------------------------------------------------------------
(***************************************************************************)
(* A refusal is the end of a request, whichever check refuses and whatever *)
(* the others say: a refused input is never sent to an upstream and a      *)
(* refused output never reaches the client (handlers.go:328, 352, 375 and  *)
(* 474 must all return).                                                   *)
(***************************************************************************)
RefusalIsFinal ==
  \A r \in Request :
    /\ "input" \in refused[r] => ~sent[r]
    /\ "output" \in refused[r] => ~delivered[r]

(***************************************************************************)
(* Every way through a handler writes one header, and none writes a second *)
(* one: a client is never left without an answer, and an error never       *)
(* follows an answer that has begun.                                       *)
(***************************************************************************)
AnsweredOnce ==
  \A r \in Request :
    /\ heads[r] < 2
    /\ pc[r] = "done" => heads[r] = 1
    /\ delivered[r] => heads[r] = 1

(***************************************************************************)
(* On every way out of a handler, errors and refusals included, its spans  *)
(* have been ended, the inner one before the outer one; an open span would *)
(* never be exported and its trace would not appear.                       *)
(***************************************************************************)
SpansAreEnded ==
  \A r \in Request :
    /\ "upstream" \in open[r] => "llm" \in open[r]
    /\ "llm" \in open[r] => "thread" \in open[r]
    /\ pc[r] = "done" => open[r] = {"thread"}
    /\ pc[r] = "idle" => open[r] = {}

(***************************************************************************)
(* The pipeline implements the requests of Router: for each pick that      *)
(* succeeds one result is recorded, or none where Router abandons the      *)
(* call, whatever becomes of client, checks and upstream.                  *)
(***************************************************************************)
RouterPc(r) ==
  IF pc[r] \in {"scanning", "scanned"} THEN "picking"
  ELSE IF pc[r] \in Calling THEN "calling"
  ELSE "idle"

Requests == INSTANCE Router WITH
  Tenant <- {"tenant"},
  KeyID <- {"key"},
  Model <- {"model"},
  Endpoint <- {"endpoint"},
  Config <- [e \in {"endpoint"} |->
               [tenant |-> "tenant", keyID |-> "key", model |-> "model"]],
  NoEndpoint <- "none",
  built <- {"endpoint"},
  endpoints <- {"endpoint"},
  breaker <- [e \in {"endpoint"} |-> breaker],
  pc <- [r \in Request |-> RouterPc(r)],
  want <- [r \in Request |-> [tenant |-> "tenant", model |-> "model"]],
  toScan <- [r \in Request |-> {e \in {"endpoint"} : pc[r] = "scanning"}],
  candidates <- [r \in Request |->
                   {e \in {"endpoint"} : pc[r] = "scanned" /\ candidate[r]}],
  picked <- [r \in Request |->
               IF pc[r] \in Calling THEN "endpoint" ELSE "none"],
  streak <- [e \in {"endpoint"} |-> streak]

RequestsSpec == Requests!Spec

(***************************************************************************)
(* A client that goes away takes its request with it: however silent the   *)
(* upstream is, the handler ends.  The HTTP client has no timeout, so that *)
(* is all there is to end a call ("Callers control deadline via request    *)
(* context", proxy/server.go:48).                                          *)
(***************************************************************************)
AbandonedRequestEnds ==
  \A r \in Request : (gone[r] ~> pc[r] = "idle")
=============================================================================
