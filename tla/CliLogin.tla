------------------------------- MODULE CliLogin -------------------------------
(***************************************************************************)
(* `aigw login`: one process of the CLI at a time (an attempt), its        *)
(* loopback listener and the browser tabs that are redirected to it.       *)
(* Every attempt makes its own cli_state, so a tab is known by the attempt *)
(* that opened it.  A handler sends its outcome on a channel that holds    *)
(* one and answers its page only when it returns; BrowserLogin takes one   *)
(* outcome or runs out of time, closes the listener, waits up to two       *)
(* seconds for the handlers it accepted, and the command then decodes and  *)
(* stores the token.                                                       *)
(***************************************************************************)
EXTENDS Integers, FiniteSets

CONSTANTS
    Tabs,       \* the browser's tabs
    MaxLogins   \* bound: logins tried

LoginAssumption == MaxLogins \in Nat

Answers == {"token", "error", "bare"}   \* what the gateway redirects with
Results == {"none", "token", "failed", "late"}

VARIABLES
    attempt,    \* the login that runs or ran last; 0 before the first
    stage,      \* where its process is
    channel,    \* the outcome the channel holds
    result,     \* what BrowserLogin returns
    told,       \* what the terminal says of the last login that ended
    session,    \* the login whose token the keyring holds; 0: none
    of,         \* tab -> the login that opened it
    query,      \* tab -> the query of its callback
    at,         \* tab -> where its request to the listener is
    saw         \* tab -> the pages the listener answered it with

process == <<attempt, stage, channel, result, told, session>>
browser == <<of, query, at, saw>>
vars == <<process, browser>>

TypeOK ==
    /\ attempt \in 0..MaxLogins
    /\ stage \in {"idle", "waiting", "closing", "saving"}
    /\ channel \in Results \ {"late"}
    /\ result \in Results
    /\ told \in {"none", "in", "error"}
    /\ session \in 0..MaxLogins
    /\ of \in [Tabs -> 0..MaxLogins]
    /\ query \in [Tabs -> Answers]
    /\ at \in [Tabs -> {"closed", "sso", "asked", "sent", "ended"}]
    /\ saw \in [Tabs -> SUBSET {"success", "failed"}]

Init ==
    /\ attempt = 0
    /\ stage = "idle"
    /\ channel = "none"
    /\ result = "none"
    /\ told = "none"
    /\ session = 0
    /\ of = [t \in Tabs |-> 0]
    /\ query = [t \in Tabs |-> "bare"]
    /\ at = [t \in Tabs |-> "closed"]
    /\ saw = [t \in Tabs |-> {}]

-------------------------------------------------------------------------------
\* The command listens, opens the browser and waits for an outcome.
Start(t) ==
    /\ stage = "idle" /\ attempt < MaxLogins /\ at[t] = "closed"
    /\ attempt' = attempt + 1
    /\ stage' = "waiting"
    /\ channel' = "none"
    /\ result' = "none"
    /\ of' = [of EXCEPT ![t] = attempt + 1]
    /\ at' = [at EXCEPT ![t] = "sso"]
    /\ UNCHANGED <<told, session, query, saw>>

\* The listener accepts while the command waits; a port is the system's to
\* give again, so the tab may be one an earlier login opened.
Accepted == IF stage = "waiting" THEN "asked" ELSE "ended"

\* The gateway sends a tab that is through with the provider to the callback.
Redirect(t) ==
    /\ at[t] = "sso"
    /\ \E a \in Answers : query' = [query EXCEPT ![t] = a]
    /\ at' = [at EXCEPT ![t] = Accepted]
    /\ UNCHANGED <<process, of, saw>>

\* The user loads the callback's page again.
Reload(t) ==
    /\ at[t] = "ended" /\ stage = "waiting"
    /\ at' = [at EXCEPT ![t] = Accepted]
    /\ UNCHANGED <<process, of, query, saw>>

\* MUTANT: the handler does not compare the state of the callback.
OutcomeOfAny(t) == IF query[t] = "token" THEN "token" ELSE "failed"

\* What the handler makes of a callback: the state first, then the query.
Outcome(t) ==
    IF of[t] = attempt /\ query[t] = "token" THEN "token" ELSE "failed"

\* The handler's send: it blocks while the channel holds an outcome.
Send(t) ==
    /\ at[t] = "asked" /\ stage # "idle" /\ channel = "none"
    /\ channel' = Outcome(t)
    /\ at' = [at EXCEPT ![t] = "sent"]
    /\ UNCHANGED <<attempt, stage, result, told, session, of, query, saw>>

\* The handler returns, and the page it wrote is answered.
Reply(t) ==
    /\ at[t] = "sent"
    /\ saw' = [saw EXCEPT ![t] = @ \union
                 {IF Outcome(t) = "token" THEN "success" ELSE "failed"}]
    /\ at' = [at EXCEPT ![t] = "ended"]
    /\ UNCHANGED <<process, of, query>>

\* The select of BrowserLogin takes an outcome.
Take ==
    /\ stage = "waiting" /\ channel # "none"
    /\ result' = channel
    /\ channel' = "none"
    /\ stage' = "closing"
    /\ UNCHANGED <<attempt, told, session, browser>>

\* Three minutes pass, or the user interrupts the command.
Expire ==
    /\ stage = "waiting"
    /\ result' = "late"
    /\ stage' = "closing"
    /\ UNCHANGED <<attempt, channel, told, session, browser>>

\* Shutdown returns when every accepted request is answered, or after two
\* seconds, which a handler that is not blocked on the channel needs no part
\* of.
Drained ==
    \A t \in Tabs : at[t] # "sent" /\ (at[t] = "asked" => channel # "none")

Shutdown ==
    /\ stage = "closing" /\ Drained
    /\ stage' = "saving"
    /\ UNCHANGED <<attempt, channel, result, told, session, browser>>

\* The command stores the token, or fails (no token, or the keyring fails),
\* and its process ends with the requests it still holds.
Exit ==
    /\ stage = "saving"
    /\ \/ /\ result = "token"
          /\ session' = attempt
          /\ told' = "in"
       \/ /\ told' = "error"
          /\ UNCHANGED session
    /\ stage' = "idle"
    /\ at' = [t \in Tabs |-> IF at[t] \in {"asked", "sent"} THEN "ended" ELSE at[t]]
    /\ UNCHANGED <<attempt, channel, result, of, query, saw>>

Next ==
    \/ \E t \in Tabs : Start(t) \/ Redirect(t) \/ Reload(t) \/ Send(t) \/ Reply(t)
    \/ Take \/ Expire \/ Shutdown \/ Exit

Spec == Init /\ [][Next]_vars

\* The process runs, its handlers too, and the clock passes three minutes.
\* Nothing is assumed of the browser or of its user.
FairSpec ==
    /\ Spec
    /\ WF_vars(Take) /\ WF_vars(Expire) /\ WF_vars(Shutdown) /\ WF_vars(Exit)
    /\ \A t \in Tabs : WF_vars(Send(t)) /\ WF_vars(Reply(t))

-------------------------------------------------------------------------------
\* SAFETY (action): a login stores only the token of a tab that this login
\* opened, whatever tabs of earlier logins reach its listener and in whatever
\* order: a token is stored only when such a tab was sent one.
StoredIsOwn ==
    [][session' # session =>
         \E t \in Tabs : of[t] = session' /\ query[t] = "token" /\ at[t] # "sso"]_vars

\* SAFETY (action): when the terminal says the user is logged in, the browser
\* has been shown so: the process does not end before the handler it took the
\* token from has answered.
LoggedInIsShown ==
    [][stage = "saving" /\ told' = "in" /\ stage' = "idle" =>
         \E t \in Tabs : of[t] = attempt /\ "success" \in saw[t]]_vars

\* LIVENESS: the command returns, also when a second callback waits for a
\* channel nobody reads any more.
CommandReturns == stage = "waiting" ~> stage = "idle"

\* CLAIM (cli/internal/auth/loopback.go:60): "Login successful. You can close
\* this tab and return to the terminal."
PageIsTrue ==
    stage = "idle" =>
        \A t \in Tabs : of[t] = attempt /\ "success" \in saw[t] => told = "in"
=============================================================================
