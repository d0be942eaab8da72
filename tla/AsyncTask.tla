----------------------------- MODULE AsyncTask -----------------------------
(***************************************************************************)
(* The dispatcher of long-running calls                                    *)
(* (backend/internal/asynctask/dispatcher.go): one goroutine per task runs *)
(* the upstream call, stores the result in the task's row and posts it to  *)
(* the tenant's webhook, with retries.                                     *)
(*                                                                         *)
(* A crash of the process ends every goroutine, and nothing resumes the    *)
(* tasks on restart.  Database errors are logged and otherwise ignored.    *)
(* A transport error may hide that the receiver got the payload.           *)
(*                                                                         *)
(* Abstracted: the payload, to the task status it carries; the durations   *)
(* of the backoff, to the index of the delay that is slept.                *)
(***************************************************************************)
EXTENDS Integers

CONSTANTS
  Task,
  MaxAttempts,     \* Options.MaxAttempts
  BackoffLen,      \* len(Options.Backoff)
  DbFails,         \* the database may fail
  Crashes          \* the process may crash

ASSUME AsyncAssumption ==
  /\ MaxAttempts \in Nat \ {0}
  /\ BackoffLen \in Nat \ {0}
  /\ DbFails \in BOOLEAN
  /\ Crashes \in BOOLEAN

VARIABLES
  row,             \* row[t]: status and webhook status in the database
  task,            \* task[t]: the status in the goroutine's copy of the row
  pc,              \* where the goroutine of t stands
  attempt,         \* attempt[t]: POSTs begun
  delay,           \* delay[t]: index of the backoff last slept
  received,        \* statuses of the payloads that reached the receiver
  verdict          \* the receiver's last answer, as the goroutine saw it

vars == <<row, task, pc, attempt, delay, received, verdict>>

Final == {"succeeded", "failed"}
Status == {"pending", "running"} \cup Final
Row == [status : {"absent"} \cup Status, webhook : {"pending", "delivered", "dead_letter"}]

TypeOK ==
  /\ row \in [Task -> Row]
  /\ task \in [Task -> Status]
  /\ pc \in [Task -> {"none", "load", "start", "run", "persist", "reload",
                      "post", "backoff", "mark", "done", "lost"}]
  /\ attempt \in [Task -> 0 .. MaxAttempts]
  /\ delay \in [Task -> 0 .. BackoffLen - 1]
  /\ received \in [Task -> SUBSET Status]
  /\ verdict \in [Task -> {"none", "accepted", "rejected", "retry"}]

Init ==
  /\ row = [t \in Task |-> [status |-> "absent", webhook |-> "pending"]]
  /\ task = [t \in Task |-> "pending"]
  /\ pc = [t \in Task |-> "none"]
  /\ attempt = [t \in Task |-> 0]
  /\ delay = [t \in Task |-> 0]
  /\ received = [t \in Task |-> {}]
  /\ verdict = [t \in Task |-> "none"]

Goto(t, from, to) == pc[t] = from /\ pc' = [pc EXCEPT ![t] = to]

(* Writes that may fail without the goroutine noticing. *)
WriteStatus(t, s) ==
  \/ row' = [row EXCEPT ![t].status = s]
  \/ DbFails /\ row' = row

WriteWebhook(t, w) ==
  \/ row' = [row EXCEPT ![t].webhook = w]
  \/ DbFails /\ row' = row

-----------------------------------------------------------------------------
(* execute                                                                 *)

(* The caller has stored the row and answered 202. *)
Submit(t) ==
  /\ row[t].status = "absent"
  /\ Goto(t, "none", "load")
  /\ row' = [row EXCEPT ![t].status = "pending"]
  /\ UNCHANGED <<task, attempt, delay, received, verdict>>

Load(t) ==
  /\ \/ Goto(t, "load", "start") /\ task' = [task EXCEPT ![t] = row[t].status]
     \/ DbFails /\ Goto(t, "load", "done") /\ UNCHANGED task
  /\ UNCHANGED <<row, attempt, delay, received, verdict>>

(* gorm sets the fields of the model even when the UPDATE fails. *)
Start(t) ==
  /\ Goto(t, "start", "run")
  /\ WriteStatus(t, "running")
  /\ task' = [task EXCEPT ![t] = "running"]
  /\ UNCHANGED <<attempt, delay, received, verdict>>

(* The upstream call returns. *)
Run(t) ==
  /\ Goto(t, "run", "persist")
  /\ \E s \in Final : task' = [task EXCEPT ![t] = s]
  /\ UNCHANGED <<row, attempt, delay, received, verdict>>

PersistSucceeded(t) ==                            \* mutant of Persist
  /\ Goto(t, "persist", "reload")
  /\ WriteStatus(t, "succeeded")
  /\ UNCHANGED <<task, attempt, delay, received, verdict>>

Persist(t) ==
  /\ Goto(t, "persist", "reload")
  /\ WriteStatus(t, task[t])
  /\ UNCHANGED <<task, attempt, delay, received, verdict>>

(* The reload's error is ignored: the copy then keeps its fields. *)
Reload(t) ==
  /\ Goto(t, "reload", "post")
  /\ \/ task' = [task EXCEPT ![t] = row[t].status]
     \/ DbFails /\ task' = task
  /\ UNCHANGED <<row, attempt, delay, received, verdict>>

-----------------------------------------------------------------------------
(* deliver                                                                 *)

(* After the last attempt the loop ends; before, it sleeps. *)
TryAgain(t, n) == Goto(t, "post", IF n < MaxAttempts THEN "backoff" ELSE "mark")

Accepted(t) ==
  /\ Goto(t, "post", "mark")
  /\ attempt' = [attempt EXCEPT ![t] = @ + 1]
  /\ received' = [received EXCEPT ![t] = @ \cup {task[t]}]
  /\ verdict' = [verdict EXCEPT ![t] = "accepted"]
  /\ UNCHANGED <<row, task, delay>>

RejectedRetries(t) ==                             \* mutant of Rejected
  /\ TryAgain(t, attempt[t] + 1)
  /\ attempt' = [attempt EXCEPT ![t] = @ + 1]
  /\ received' = [received EXCEPT ![t] = @ \cup {task[t]}]
  /\ verdict' = [verdict EXCEPT ![t] = "rejected"]
  /\ UNCHANGED <<row, task, delay>>

RejectedUnmarked(t) ==                            \* mutant of Rejected
  /\ Goto(t, "post", "done")
  /\ attempt' = [attempt EXCEPT ![t] = @ + 1]
  /\ received' = [received EXCEPT ![t] = @ \cup {task[t]}]
  /\ verdict' = [verdict EXCEPT ![t] = "rejected"]
  /\ UNCHANGED <<row, task, delay>>

(* A 4xx other than 408 and 429. *)
Rejected(t) ==
  /\ Goto(t, "post", "mark")
  /\ attempt' = [attempt EXCEPT ![t] = @ + 1]
  /\ received' = [received EXCEPT ![t] = @ \cup {task[t]}]
  /\ verdict' = [verdict EXCEPT ![t] = "rejected"]
  /\ UNCHANGED <<row, task, delay>>

(* Any other answer, or no answer: the receiver may have got the payload,  *)
(* or (no connection, or no request could be built) may not.               *)
Unanswered(t) ==
  /\ TryAgain(t, attempt[t] + 1)
  /\ attempt' = [attempt EXCEPT ![t] = @ + 1]
  /\ \/ received' = [received EXCEPT ![t] = @ \cup {task[t]}]
     \/ UNCHANGED received
  /\ verdict' = [verdict EXCEPT ![t] = "retry"]
  /\ UNCHANGED <<row, task, delay>>

MinOf(a, b) == IF a < b THEN a ELSE b

(* min(attempt-1, len(backoff)-1), before attempt number n (from 0). *)
BackoffIndex(n) == MinOf(n - 1, BackoffLen - 1)

Backoff(t) ==
  /\ Goto(t, "backoff", "post")
  /\ delay' = [delay EXCEPT ![t] = BackoffIndex(attempt[t])]
  /\ UNCHANGED <<row, task, attempt, received, verdict>>

MarkUnlessRejected(t) ==                          \* mutant of Mark
  /\ Goto(t, "mark", "done")
  /\ WriteWebhook(t, IF verdict[t] = "rejected" THEN "dead_letter" ELSE "delivered")
  /\ UNCHANGED <<task, attempt, delay, received, verdict>>

(* markWebhook *)
Mark(t) ==
  /\ Goto(t, "mark", "done")
  /\ WriteWebhook(t, IF verdict[t] = "accepted" THEN "delivered" ELSE "dead_letter")
  /\ UNCHANGED <<task, attempt, delay, received, verdict>>

-----------------------------------------------------------------------------
Crash ==
  /\ Crashes
  /\ pc' = [t \in Task |-> IF pc[t] \in {"none", "done"} THEN pc[t] ELSE "lost"]
  /\ UNCHANGED <<row, task, attempt, delay, received, verdict>>

Work(t) ==
  \/ Load(t) \/ Start(t) \/ Run(t) \/ Persist(t) \/ Reload(t)
  \/ Accepted(t) \/ Rejected(t) \/ Unanswered(t) \/ Backoff(t) \/ Mark(t)

Next ==
  \/ \E t \in Task : Submit(t) \/ Work(t)
  \/ Crash

Spec == Init /\ [][Next]_vars

(* Goroutines run; the runner returns, and the webhook client has a        *)
(* timeout.                                                                *)
FairSpec == Spec /\ \A t \in Task : WF_vars(Work(t))

-----------------------------------------------------------------------------
(***************************************************************************)
(* What the row says of the delivery is what happened, however many writes *)
(* failed: delivered only if the receiver accepted, dead_letter only if it *)
(* did not, as far as the gateway knows.                                   *)
(***************************************************************************)
WebhookStatusIsTrue ==
  \A t \in Task :
    /\ row[t].webhook = "delivered" => verdict[t] = "accepted"
    /\ row[t].webhook = "dead_letter" => verdict[t] # "accepted"

(***************************************************************************)
(* Once the receiver accepted or rejected the payload for good, it is not  *)
(* posted again.                                                           *)
(***************************************************************************)
NoPostAfterVerdict ==
  [][\A t \in Task :
       verdict[t] \in {"accepted", "rejected"} => attempt'[t] = attempt[t]]_vars

(***************************************************************************)
(* Whenever the row holds a result, every payload the receiver got carries *)
(* that result, whichever writes and reads failed on the way: the tenant   *)
(* who polls the row and the one who waits for the webhook agree.          *)
(***************************************************************************)
ReceiverAgreesWithRow ==
  \A t \in Task :
    row[t].status \in Final => received[t] \subseteq {row[t].status}

(***************************************************************************)
(* dispatcher.go:1-2: the package "delivers the result to a tenant-        *)
(* supplied webhook URL".  When the result could not be stored, the row is *)
(* read again and a payload that says "running" is posted, once, as final. *)
(***************************************************************************)
OnlyResultsArePosted == \A t \in Task : received[t] \subseteq Final

(***************************************************************************)
(* models.go:125-126: the gateway "runs upstream call in background,       *)
(* persists result, then POSTs signed payload to WebhookURL".  Every       *)
(* submitted task gets its result and its webhook status.                  *)
(***************************************************************************)
EveryTaskSettles ==
  \A t \in Task :
    row[t].status = "pending" ~>
      row[t].status \in Final /\ row[t].webhook # "pending"
=============================================================================
