--------------------------- MODULE PipelineClaims ---------------------------
(***************************************************************************)
(* What the documents say of guardrails and circuits, against the requests *)
(* of RequestPipeline.  Three history variables record what the handlers   *)
(* do not: whether the rules were evaluated, and how the upstream fared.   *)
(***************************************************************************)
EXTENDS RequestPipeline

VARIABLES
  inspected,       \* contents that the guardrail engine has judged
  row,             \* calls in a row in which the upstream failed, saturated
  suspect          \* the upstream has failed at least once

claimVars == <<vars, inspected, row, suspect>>

ClaimsInit ==
  /\ Init
  /\ inspected = [r \in Request |-> {}]
  /\ row = 0
  /\ suspect = FALSE

(* A check that the handler passes has judged the content, or has failed. *)
Judgements(r) ==
  CASE pc'[r] = "idle" -> {{}}
    [] pc[r] = "input" /\ pc'[r] \notin {"input", "done"} ->
         {inspected[r], inspected[r] \cup {"input"}}
    [] pc[r] = "inspect" /\ pc'[r] = "deliver" ->
         {inspected[r], inspected[r] \cup {"output"}}
    [] OTHER -> {inspected[r]}

(* The calls of the upstream that end with this step. *)
EndedCalls ==
  {r \in Request : pc[r] \in {"call", "inspect", "record"} /\ pc'[r] = "done"}

(* The upstream refused the connection or broke the body off while the      *)
(* client was waiting, or answered that it had failed.                      *)
UpstreamFailed(r) ==
  \/ pc[r] = "call" /\ ~gone[r]
  \/ status[r] = "5xx"
  \/ body[r] = "brokenOff"

(* The upstream was given up before it could answer: nothing is known. *)
NothingKnown(r) == pc[r] = "call" /\ gone[r]

ClaimsNext ==
  /\ Next
  /\ \E judged \in [Request -> SUBSET {"input", "output"}] :
       /\ \A r \in Request : judged[r] \in Judgements(r)
       /\ inspected' = judged
  /\ row' = IF \A r \in EndedCalls : NothingKnown(r) THEN row
            ELSE IF \A r \in EndedCalls : UpstreamFailed(r) THEN Extended(row)
            ELSE 0
  /\ suspect' = (suspect \/ \E r \in EndedCalls : UpstreamFailed(r))

ClaimsSpec == ClaimsInit /\ [][ClaimsNext]_claimVars

-----------------------------------------------------------------------------
(***************************************************************************)
(* docs/guardrails.md:3: "Guardrails inspect requests before they reach    *)
(* the LLM".  Those of /v1/messages are not inspected, nor are those whose *)
(* rules cannot be loaded.                                                 *)
(***************************************************************************)
RequestsAreInspected ==
  \A r \in Request : sent[r] => "input" \in inspected[r]

(***************************************************************************)
(* docs/guardrails.md:3: "and responses before they reach the user".  A    *)
(* stream is relayed as it comes.                                          *)
(***************************************************************************)
ResponsesAreInspected ==
  \A r \in Request :
    delivered[r] /\ status[r] = "ok" => "output" \in inspected[r]

(***************************************************************************)
(* docs/reference/glossary.md:13: "Closed (healthy)".  An endpoint that    *)
(* failed in each of the last FailThreshold calls is not healthy; but one  *)
(* that breaks its answers off is recorded as a success each time.         *)
(***************************************************************************)
ClosedIsHealthy == row = FailThreshold => breaker.state # "CLOSED"

(***************************************************************************)
(* docs/reference/glossary.md:13: "Open (failing)".  An endpoint that has  *)
(* never failed is not failing; but clients that do not wait for it are    *)
(* recorded as its errors.                                                 *)
(***************************************************************************)
OpenIsFailing == breaker.state = "OPEN" => suspect
=============================================================================
