-------------------------- MODULE IntegrationGuide --------------------------
(***************************************************************************)
(* The integration guide over the API Keys page: eight copy buttons that   *)
(* share one check mark, a timer per click that nothing cancels, and the   *)
(* browser's clipboard, which the page writes to without waiting.          *)
(*                                                                         *)
(* The guide belongs to the page and not to its dialog: what it holds      *)
(* outlives the dialog's closing, but not the page.  Where the browser has *)
(* no clipboard (an insecure origin) a click throws before it changes      *)
(* anything here, which is a stuttering step.                              *)
(***************************************************************************)
EXTENDS Integers, Sequences

CONSTANTS Tenants,
          Life,         \* ticks in the 2000 ms of the timer
          MaxTimers,    \* bound: timers pending at a time
          None

GuideAssumption ==
  /\ Life \in Nat \ {0} /\ MaxTimers \in Nat /\ None \notin Tenants

VARIABLES
  tenantId,    \* as App passes it; it changes when the list of tenants does
  onPage,      \* the API Keys page is shown
  isGuideOpen,
  tab,         \* the open tab of the code example, while the guide is shown
  copied,      \* the button with the check mark
  timers,      \* remaining time of the pending timers, oldest first
  writes,      \* calls of writeText under way, oldest first
  clipboard,
  refused,     \* history: a call of writeText has been refused
  last, since  \* history: the last click on a copy button, and its age

page    == <<onPage, isGuideOpen, tab>>
browser == <<writes, clipboard, refused>>
history == <<last, since>>
vars == <<tenantId, page, copied, timers, browser, history>>

Tabs == {"python", "node", "curl", "claude"}

\* The quick-start commands, then the code example of each tab.
Commands == {"env", "test", "install-py", "install-js"}
CodeOf == [python |-> "code-py", node |-> "code-node", curl |-> "code-curl", claude |-> "code-claude"]
Buttons == Commands \cup {CodeOf[t] : t \in Tabs}

\* Only the two SDK examples name the tenant.
TextOf(b, t) == [of |-> b, tenant |-> IF b \in {"code-py", "code-node"} THEN t ELSE None]
Secret == [of |-> "secret", tenant |-> None]
Other  == [of |-> "other", tenant |-> None]
Text  == [of : Buttons \cup {"secret", "other"}, tenant : Tenants \cup {None}]

TypeOK ==
  /\ tenantId \in Tenants /\ onPage \in BOOLEAN /\ isGuideOpen \in BOOLEAN /\ tab \in Tabs
  /\ copied \in Buttons \cup {None}
  /\ timers \in Seq(0..Life) /\ Len(timers) <= MaxTimers
  /\ writes \in Seq(Text) /\ Len(writes) <= MaxTimers + 1
  /\ clipboard \in Text
  /\ refused \in BOOLEAN /\ last \in Text /\ since \in 0..Life + 1

----------------------------------------------------------------------------
Shown == onPage /\ isGuideOpen

Visible == IF Shown THEN Commands \cup {CodeOf[tab]} ELSE {}

Mark(b) == b

OpenGuide ==
  /\ onPage /\ ~isGuideOpen
  /\ isGuideOpen' = TRUE /\ tab' = "python"
  /\ UNCHANGED <<tenantId, onPage, copied, timers, browser, history>>

CloseGuideAndTimers ==                     \* mutant: the timers go with the dialog
  /\ Shown
  /\ isGuideOpen' = FALSE /\ timers' = <<>>
  /\ UNCHANGED <<tenantId, onPage, tab, copied, browser, history>>

CloseGuide ==
  /\ Shown
  /\ isGuideOpen' = FALSE
  /\ UNCHANGED <<tenantId, onPage, tab, copied, timers, browser, history>>

ChooseTab(t) ==
  /\ Shown /\ t # tab
  /\ tab' = t
  /\ UNCHANGED <<tenantId, onPage, isGuideOpen, copied, timers, browser, history>>

CopyToClipboard(b) ==
  /\ b \in Visible /\ Len(timers) < MaxTimers /\ Len(writes) < MaxTimers
  /\ writes' = Append(writes, TextOf(b, tenantId))
  /\ copied' = Mark(b)
  /\ timers' = Append(timers, Life)
  /\ last' = TextOf(b, tenantId) /\ since' = 0
  /\ UNCHANGED <<tenantId, page, clipboard, refused>>

\* The copy button of a new key's secret, on the page under the guide.
CopySecret ==
  /\ onPage /\ ~isGuideOpen /\ Len(writes) < MaxTimers
  /\ writes' = Append(writes, Secret)
  /\ UNCHANGED <<tenantId, page, copied, timers, clipboard, refused, history>>

----------------------------------------------------------------------------
WriteText ==
  /\ writes # <<>>
  /\ clipboard' = Head(writes) /\ writes' = Tail(writes)
  /\ UNCHANGED <<tenantId, page, copied, timers, refused, history>>

WriteTextRefused ==
  /\ writes # <<>>
  /\ refused' = TRUE /\ writes' = Tail(writes)
  /\ UNCHANGED <<tenantId, page, copied, timers, clipboard, history>>

\* A timer clears the mark, whichever click has set it.
Fire ==
  /\ timers # <<>> /\ Head(timers) = 0
  /\ copied' = None
  /\ timers' = Tail(timers)
  /\ UNCHANGED <<tenantId, page, browser, history>>

Tick ==
  /\ \A i \in DOMAIN timers : timers[i] > 0
  /\ timers' = [i \in DOMAIN timers |-> timers[i] - 1]
  /\ since' = IF since > Life THEN since ELSE since + 1
  /\ UNCHANGED <<tenantId, page, copied, browser, last>>

----------------------------------------------------------------------------
\* Another page and back: the guide starts anew, and its old timers act on nothing.
LeavePage ==
  /\ onPage /\ ~isGuideOpen
  /\ onPage' = FALSE /\ copied' = None /\ timers' = <<>>
  /\ UNCHANGED <<tenantId, isGuideOpen, tab, browser, history>>

EnterPage ==
  /\ ~onPage
  /\ onPage' = TRUE
  /\ UNCHANGED <<tenantId, isGuideOpen, tab, copied, timers, browser, history>>

TenantMoves(t) ==
  /\ t # tenantId
  /\ tenantId' = t
  /\ UNCHANGED <<page, copied, timers, browser, history>>

Init ==
  /\ tenantId \in Tenants
  /\ onPage = TRUE /\ isGuideOpen = FALSE /\ tab = "python"
  /\ copied = None /\ timers = <<>>
  /\ writes = <<>> /\ clipboard = Other /\ refused = FALSE
  /\ last = Other /\ since = 0

Next ==
  \/ OpenGuide \/ CloseGuide \/ CopySecret \/ LeavePage \/ EnterPage
  \/ \E t \in Tabs : ChooseTab(t)
  \/ \E b \in Buttons : CopyToClipboard(b)
  \/ \E t \in Tenants : TenantMoves(t)
  \/ WriteText \/ WriteTextRefused \/ Fire \/ Tick

Spec == Init /\ [][Next]_vars

----------------------------------------------------------------------------
\* The check mark is never older than the timer, however clicks overlap and
\* the guide is closed and reopened meanwhile (IntegrationGuide.tsx:15-23).
MarkIsFresh == copied # None => since <= Life

\* The check mark is at the last button clicked.  Once the clipboard has
\* settled and no write was refused, what it holds is what that button showed
\* on the click, or the secret copied after it, although the tenant may have
\* changed since (IntegrationGuide.tsx:72-79, 142-158, 185-202).
MarkIsTrue ==
  copied # None =>
    /\ copied = last.of
    /\ writes = <<>> /\ ~refused => clipboard \in {last, Secret}
=============================================================================
