# 1guardi gateway: TLA+ specifications

Specifications, model-checking configurations and machine-checked proofs for
the 1guardi AI gateway, its admin console and its CLI. Line numbers refer to the
sources under `src/`. `PROJECT.json` maps every definition to the lines it
models, and lists runs, mutants, findings, hazards and theorems.

- [The system](#the-system)
- [Modules and the code they model](#modules-and-the-code-they-model)
- [How the runs are composed](#how-the-runs-are-composed)
- [What the runs check](#what-the-runs-check)
- [What is proved](#what-is-proved)
- [Where code and documents disagree](#where-code-and-documents-disagree)
- [Not modelled](#not-modelled)
- [Running everything](#running-everything)

## The system

The backend is one Go process with two HTTP servers: the *proxy* (OpenAI- and
Anthropic-compatible, one goroutine per request) and the *admin* API. They share
an in-memory router, a Postgres database (through gorm, with soft deletion) and
Redis. A React console and a CLI (`aigw`) are clients of the admin API; a
landing site stands by itself.

| Component | State it keeps | Operations | Talks to |
|---|---|---|---|
| Router (`router/`) | list of endpoints; per endpoint a circuit breaker and three rolling windows | `Pick`, `Add`, `Remove`, `RecordSuccess`, `RecordError` | called by proxy and admin |
| Proxy handlers (`proxy/handlers.go`) | one goroutine's locals, spans | chat completions, messages | guardrails, detector, router, upstream |
| Proxy authentication (`proxy/server.go`) | Redis entries `auth:key:<hash>` | `Authenticate` | Redis, key table |
| Guardrail engine (`guardrails/`) | Redis entries `gw:guardrails:<tenant>` | `Evaluate`, `loadRules`, `InvalidateCache` | Redis, rule table, detector |
| Detector (`secllm/`, `inference/`) | Redis entries by hash of text | `IsInjection`, `Analyze` | Redis, ML sidecar |
| Provider models (`providers/`) | Redis entries by provider, URL and key | `GetModels` | provider APIs |
| Admin API (`admin/`) | rows of every table | keys, upstreams, rules, tenants, members, agents, events | table first, then router or cache |
| OIDC login (`auth/oidc/`) | Redis entries `oidc:state:*`; users and identities | login, callback, provisioning | identity provider |
| Async tasks (`asynctask/`) | task rows; one goroutine per task | `Submit`, `execute`, `deliver` | upstream, webhook receiver |
| Guardrail events (`clickhouse/`) | the log in ClickHouse | the two queries | exporter, collector |
| Gateway process (`cmd/gateway`) | none of its own | boot from the table, shutdown | all |
| CLI (`cli/`) | keyring, configuration file, a loopback listener | login, logout, env, run, config | admin API, browser |
| Console (`frontend/`) | token in local storage; React Query's cache; each page's state | one page per resource | admin API |

What is hard, and what makes each part correct:

- **Router.** Results arrive in any order on objects that may have been opened,
  probed, removed or replaced since the pick. A breaker must reflect the results
  since the last success and nothing else; an endpoint is refused only during a
  cooldown it has earned; an outage is not for ever; a pick respects the list
  and the tenant.
- **Handlers.** Two checks before the call and one after it, a client that goes
  away at any time, an upstream that may be silent. A refusal must be final,
  each client gets one answer, spans are ended on every way out.
- **Caches.** Keys, rules, verdicts and model lists are copied to Redis by
  readers that race those who change the original. A stale copy must die out
  within a bound, however often it is used and however late it was written.
- **Several writes without a transaction.** Upstreams (table, then router),
  tenants (four inserts), tasks (row, then webhook), members and users. A
  failure, a crash or an overlapping handler between two of them must leave a
  state that was promised to somebody.
- **Console.** Buttons stay enabled while a call is under way, answers come late
  and in any order, and the session, the tenant or the agent may change
  meanwhile. What is on screen must belong to the session and the scope that
  were chosen, and must be true once nothing is under way.
- **CLI.** A channel of one, a timeout, several browser tabs; cached keys that
  outlive the login they were made with.

The hazards, each at its line and with the properties that cover it or the
reason why none does, are listed in `PROJECT.json`.

## Modules and the code they model

### Gateway

| Module | Models |
|---|---|
| `CircuitBreaker` | the breaker's methods (`router/endpoint.go:23-72`) as functions on a record, with lemmas about them |
| `Router` | `router/router.go` and its use by the handlers: concurrent picks, results, changes of the list |
| `EndpointHealth` | abstract: what circuit breaking promises; `Router` implements it |
| `EndpointSignals` | the rolling windows, the percentile and the score (`endpoint.go:76-202`) |
| `RequestPipeline` | `proxy/handlers.go`: one request from its body to its answer, on one endpoint; implements the requests of `Router` |
| `PipelineClaims` | history variables beside `RequestPipeline`, for what the documents say of it |
| `KeyAuth` | `Authenticate` against cache and table, and the handlers that create, revoke and delete keys |
| `GuardrailEval` | `Engine.Evaluate`: the loop over rules and patterns, the sort, the decision |
| `GuardrailRules` | the rows of the rules, the copy in Redis, its invalidation, the seeding of managed rules |
| `VerdictCache` | `IsInjection` over the caching client of the ML sidecar |
| `AsyncTask` | `asynctask/dispatcher.go`: background calls and webhook delivery |
| `OidcLogin` | `auth/oidc/`: login, callback, state store, provisioning |

### Console and the admin handlers behind it

| Module | Models |
|---|---|
| `ConsoleSession` | `App.tsx`, `api/client.ts`, `auth-storage.ts`: token, screen, the list of tenants and its retries |
| `ConsoleNav` | the frame: tenant and agent in scope, page shown, deletions on the Tenants page |
| `TenantCreation` | onboarding and the create dialog, `handleSelfServeTenant`, `createTenantWithDefaults`, `handleDeleteTenant` |
| `MemberConsole` | `Members.tsx` and the handlers that add and remove members |
| `AgentRegistry` | `Agents.tsx` and its two handlers |
| `KeyDialog` | the dialog that creates a key and shows its secret once |
| `KeyTable` | the table of keys with its filters, revocation included |
| `IntegrationGuide` | the guide's copy buttons, their timers, the clipboard |
| `UpstreamConsole` | `Upstreams.tsx`, another client of the API, the handlers behind both step by step, the router they change, the tenant's deletion, restarts |
| `ModelPicker` | the models a form offers: query, handler, listing service with its cache, under a row that others change |
| `RuleConsole` | rows, switches and panel of `Guardrails.tsx`, `handleUpdateRule` |
| `NewRule` | the dialog that creates a rule, over a page whose list may fail |
| `RuleEvents` | fires on their way to ClickHouse, the two handlers that read them, the panel |
| `TraceView`, `SpanTree` | `Traces.tsx`: table, filters and sheet; the tree of a trace's spans |
| `RouterPage` | `Router.tsx`: filter, groups, order |
| `ThemeChoice` | `theme-provider.tsx` in several tabs |

### CLI

| Module | Models |
|---|---|
| `CliLogin` | `cli/internal/auth/loopback.go` and the login command |
| `CliKeys` | `env`, `run`, `login`, `logout`, `config set` against keyring and configuration file, with several gateways |

`*Proofs` modules hold theorems and their proofs, `MC*` modules the instances for
TLC. A definition marked as a mutant is another definition with a plausible bug.
No specification uses it: it is there to show that some property fails once it
takes the other's place.

### How state and actions correspond to the code

**Steps.** Between two actions of a process everything else may happen. In the
gateway an action ends at each call to Redis, the database, the sidecar, the
provider or the upstream, and where a lock is released. In the console an
action is what runs between two turns of the event loop: an event handler with
all it sets, an answer with all its callbacks, an effect.

**Router.** `breaker[e]` is the `circuitBreaker` of `e`; instead of `openedAt` it
holds the age of the opening, saturated at `ProbeInterval`, since `available`
only compares the two. `Pick` holds the read lock over its loop while each
`Available` takes one breaker's lock, so `Begin`, `Scan` (one endpoint) and
`Choose` or `Refuse` are separate steps with results of other requests between
them. `Add` and `Remove` need the write lock. `sort.Slice` reads scores that
other requests change, so no order of the candidates can be relied on, and
`Choose` may take any. `streak` is a history variable.

**EndpointHealth** has no circuit states. An endpoint has a streak of failures, a
cooldown and users. A cooldown starts only when the streak reaches
`FailThreshold` (or, after it is over, by one more failure), lasts
`ProbeInterval`, and ends with a success; nobody starts to use an endpoint
during it. `Router!Health` maps the cooldown to the time an open breaker still
refuses, and the users to the requests that hold the endpoint.

**RequestPipeline.** Content is abstracted: a check has any of its outcomes, so a
check that is skipped because there is nothing to look at is one that allows.
`Compute` is what runs without waiting, `Judge` the checks, `Converse` the
upstream, `Cancel` a call whose client went away. Its refinement of `Router`
maps the places before the pick to idle, the scan to picking, and everything
from the choice to the recording to calling.

**KeyAuth, GuardrailRules, VerdictCache** have the same shape: lookup, read of the
original, fill, with the remaining life of an entry counted in ticks. Redis may
lose an entry, fail a read (a miss) or fail a write (ignored). In `KeyAuth` and
`GuardrailRules` the delay between the read and the fill is bounded by an
assumption (`MaxFill`, `MaxDelay`), since the code has no deadline there and
without one no bound on a stale copy would hold; in `VerdictCache` the bound is
the timeout of its clients. `VerdictCache` takes an answer for what the code makes
of it: a list without results is "safe" (`secllm.go:34`), and what cannot be read
is an error.

**UpstreamConsole.** An update merges what it names into the row it has found and
saves the whole of it, but adds to the router the endpoints of the models it names
(`admin/server.go:1098-1127`). The page always names both provider and models; the
other client may leave out either. So a label whose last update named no models is
out of the router until it is written again or the gateway restarts, which is the
history variable `emptied`; an update of the provider alone is `retyped`. A tenant's
deletion lists its labels, takes each from the router and then deletes the rows. A
creation that names no provider, for which the handler puts in "openai", is the
creation that names that one.

**CliKeys.** A session is of one gateway, whose keys are cached by tenant id alone
(`cli/internal/auth/store.go:121`). `login` and `config set endpoint` change the
gateway that later commands talk to and leave the cached keys; the history
variables `visited` and `owner` tell where the CLI has been and where a key is from.

**ModelPicker.** The handler comes to the account it asks from the form and, without
a typed key, from the row as it is then or the gateway's file
(`admin/server.go:261-310`); the query's key names the upstream and not the row's
key. `past` is what the row has been since the dialog was opened.

**AsyncTask.** `pc[t]` follows the lines of `execute` and `deliver`. A failing
write changes nothing in the table, but gorm has set the fields of the
in-memory copy by then, which is why `task[t]` moves on. `Crash` ends all
goroutines; nothing picks the rows up again. The package has no caller yet, so
the code that stores the row before `Submit` is modelled from its comments.

**Console.** React Query is modelled from how `src/` uses it and from its
defaults: a query keeps its data while it is fetched again or fails; an
invalidation gives up a fetch under way only if there is data to show; a hook's
`onSuccess` always runs, while that of one `mutate()` runs for the latest call
of a mounted page only. A Radix dialog does not report that the page itself
closed it, and an open one keeps the rest of the page out of reach. Calls fail
with or without their effect, and other administrators change the same rows.

## How the runs are composed

Each MC module EXTENDS the specification it is chiefly about and INSTANCEs the
smaller ones that belong to the same question. These parts share no variable in
the code either, or share one in a way their modules already contain (another
administrator, a model that is replaced), so an interleaving of two of them
shows nothing that each alone does not. The constant variable `moving` says
which part moves in a behaviour, the other parts stay in one initial state, and
the behaviours of each part are exactly those of its own specification. Where
components do interact, one module holds both sides: `UpstreamConsole` table,
handlers and router, `KeyAuth` proxy and admin API, `ModelPicker` page, handler
and cache, `RuleEvents` gateway, log and page, `RequestPipeline` handler and
breaker.

A property of a part is wrapped in the MC module, together with the part's
type invariant.

## What the runs check

| Run | Parts | Properties |
|---|---|---|
| `upstreams` (`MCUpstreams`) | Router, UpstreamConsole, EndpointSignals, RouterPage | `BreakerTracksStreak`, `PickSeesTheList`, `TenantIsolation`, `InSync`, `FiguresAreTrue`, refinement `HealthSpec` |
| `proxy_keys` (`MCProxyKeys`) | KeyAuth, CliLogin, CliKeys, AgentRegistry | `RefusedAfterTTL`, `ActsForItsKey`, `ExportsOwnTenant`, `AgentsAsShown`, `StoredIsOwn` |
| `records` (`MCRecords`) | AsyncTask, TenantCreation, MemberConsole, OidcLogin | `WebhookStatusIsTrue`, `ReceiverAgreesWithRow`, `NoPostAfterVerdict`, `TenantsHaveTheirAdmin`, `OneUserPerPerson`, `MembersAsChosen` |
| `pipeline` (`MCRequestPipeline`) | RequestPipeline, GuardrailEval, GuardrailRules, VerdictCache | `RefusalIsFinal`, `AnsweredOnce`, `SpansAreEnded`, `DecisionIsDetermined`, refinement `RequestsSpec`, `CopiesAreRecent` |
| `console` (`MCConsoleSession`) | ConsoleSession, ConsoleNav, TraceView, SpanTree, ThemeChoice | `SessionMatchesToken`, `ListBelongsToSession`, `UndisturbedSessionLasts`, `ShownIsOfScope`, `TreeIsWhole`, `ThemeIsChosen` |
| `key_pages` (`MCKeyDialog`) | KeyDialog, KeyTable, IntegrationGuide, ModelPicker | `ClosedStaysHidden`, `SecretReachesUser`, `PageIsTrue`, `ModelsWereListed` |
| `rule_pages` (`MCRuleConsole`) | RuleConsole, NewRule, RuleEvents | `PanelIsTrue`, `RowsAreTrue`, `RulesAreForWhomShown`, `CountedFiresAreFound` |
| `progress` (`MCProgress`) | Router, AsyncTask, ConsoleSession, RequestPipeline, OidcLogin, TenantCreation, CliLogin, VerdictCache | `EventuallyRetried`, `PeopleGetIn`, `WaitsEnd` |
| `upstream_deleted`, `key_revoked`, `tenant_retry`, `pipeline_open` | one part each | the document's claim is violated |

Each property stands in its module, or in the MC module as a conjunction of
those of the parts, below a comment that says what it means for the code.

### Bounds

The largest run visits some two million states in a few minutes.

- **upstreams.** Router: three endpoints (two of one tenant, one of another with
  the same key id and model), two requests, threshold 2, interval 2. The
  threshold is the least with a difference between counting and opening; the
  interval has an age strictly between opening and probe; two requests give a
  late result for every state of a breaker; three endpoints give a scan with a
  result in its middle and a pick across tenants. UpstreamConsole: two labels,
  two providers, two rows, two calls, so that an update overlaps a deletion of
  the same row or the creation of its double, and one call beside deletions of
  the tenant; the first row has the first of the labels, which are alike. Signals: a window of 3 and five
  results, so that it fills, wraps and is overwritten. Page: two endpoints, one
  tenant without any.
- **proxy_keys.** One scoped key, all headers, two requests, TTL 2, `MaxFill` 1:
  the race of a late fill against the fill after it needs two requests, and a
  TTL of 2 lets an entry age without expiring. CliLogin: three logins and three
  tabs, so that callbacks of two logins and a stranger meet one channel.
  CliKeys: two tenants, two gateways, two shells, and two keys: one that is
  cached and one that another gateway or command mints. The configuration names a
  tenant, and during a session its gateway, as commands read neither but where an
  override may replace it; behaviours end where a minted key is revoked, which no
  command notices, and where both commands have exported a key. Agents: two
  tenants, two calls.
- **records.** Two tasks, so that a crash hits goroutines at different places;
  three attempts with one delay, which exercises the cap of the backoff index.
  Tenants: a user, a super-admin, one name, two calls. Members: a registered and
  an unregistered person, two calls, with the bounds that one of the two is made
  a member and that calls overlap while all of them and the dialog are about one
  person. OIDC: two accounts of one address, two states, two callbacks, one
  failing statement.
- **pipeline.** Two requests on one endpoint, threshold 2, interval 1. Rules: one
  custom and one managed rule, one loader, two handlers, TTL 2, delay 1. The
  evaluation: two rules of two patterns. Verdicts: one text, two requests, TTL 2,
  timeout 1.
- **console.** Two users with a token each, one retry. Two tenants with one agent
  each; two traces of one span; trees of three spans with three starts; two tabs.
- **key_pages.** A tenant with an agent and a member and one without, two calls;
  two keys, one of them of an agent and a user; two timers of one tick. Picker:
  two providers, one URL, one key that is typed and one of the gateway's file, a
  row that has one of the two and is changed or deleted, to and fro; three calls under way
  and lists kept, of which one may be in Redis: enough for two lists kept beside a
  late answer, and for an entry of another key to be found.
- **rule_pages.** A global and an agent's rule, two calls; two texts; a log of two
  fires read with a limit of one, one fetch of fires at a time.
- **progress.** The smallest instance with a retry, a competitor or a second tab,
  depending on the part; `AsyncTask` with its default four attempts and delays.

**Deadlock** is not checked in composed runs, as parts such as tasks, trees and
the CLI's logins are over at some time; the liveness properties say where a
system must not stop. `pipeline_open` is of a system that never ends and
checks it.

**Symmetry** permutes requests, tasks, calls, states and texts, in safety runs
only. The parts of a run may use the same names for them, since no part sees
another's.

### Fairness

All of it is weak fairness, and of the part that moves.

- Router: time passes, and a goroutine inside `Pick` goes on, as `Pick` waits
  for short critical sections only. Calls to upstreams get none, since the HTTP
  client has no timeout, and clients need not come back: `EventuallyRetried` has
  the premise that requests keep coming.
- AsyncTask: goroutines run and each of their waits ends: the webhook client has
  a timeout, the backoff is a sleep, the runner is assumed to return.
- ConsoleSession: the request of the tenant list is answered, by the gateway or
  by an error of the connection, and React Query's retry timer fires.
- RequestPipeline: code that does not wait runs, checks return, and a call whose
  client went away returns. Nothing is assumed of an upstream whose client waits.
- OidcLogin: a callback's goroutine goes on. That the person comes back from the
  provider again and again is a premise of `ReturningGetsIn`.
- TenantCreation: a handler goes on, and a list that was invalidated is fetched.
- CliLogin: the command takes its outcome or its timer fires, the shutdown ends
  within its two seconds, handlers that can send or reply do.
- VerdictCache: Redis answers, and the HTTP client's timeout ends a call.

## What is proved

tlapm checks these for all values of the constants that the named assumptions
allow: any number of endpoints, tenants, requests, keys, tasks, calls, users and
rules, and any threshold, interval, window, lifetime and number of attempts.
They cover every invariant and every action property the passing runs check, and
both refinements. Each theorem is about the composed
specification or the first part of it. A step of the composition is a step of
one part and a stutter of the others, so the invariant of a part is proved for
its own `Init` and `[Next]_vars` and lifted in the last step.

- **RouterProofs.**
  - Router: `TypeCorrect`; `BreakerCorrect`, inductive with the typing, from
    `BreakerEffects` in `CircuitBreaker`, which states once what each method
    does; `RemovedIsNotPicked`, where `LockInv` adds that only picking requests
    have endpoints to scan or candidates, which is how the absence of readers
    makes `Remove` safe; `TenantsAreIsolated`, where `IsolationInv` carries the
    match from the scan to the pick; `RouterImplementsHealth`: every step of
    `Router` is a step of `EndpointHealth` or a stutter. That needs
    `BreakerTracksStreak`, which tells that a breaker opens from CLOSED exactly
    when the streak reaches the threshold.
  - Upstreams: `RouterFollowsTable` from `SyncInv`, which is `TableInv` (a row has
    the models of its provider, handlers hold the rows they found, ids are not
    used again) and for each label `LabelInv`: as long as the label was used and
    served once at a time it has at most one row and at most one handler at work,
    and the place of that handler tells by which endpoints router and table are
    apart; without one the router has the row's endpoints, or none after an update
    that named no models; and a tenant's deletion meets no handler of the label. A step
    of a handler with another label leaves `LabelInv` alone.
  - Figures: `FiguresAreAlwaysTrue`. `RingInv` says that result k is in place
    (k-1) mod `WindowSize` while it is one of the latest, as places less than a
    turn apart differ (`Apart`). So the window is a rearrangement of the latest
    results, the sorted values are one of the window, and rearranging changes no
    count (`Rearranged`); what is left is arithmetic of the index and a count in
    ascending order (`CountUpTo`). `SortingExists` shows that what the code calls
    a sorting library for exists.
- **PipelineProofs.**
  - Requests: `TypeCorrect`; `RefusalFinality`, `SingleAnswer`, `SpanDiscipline`,
    all from `Standing`: for every place in a handler, which spans are open,
    whether a header is out, whether the call was sent, whether the model's
    answer is out and which checks have refused. `Refinement`: each action maps to
    one step of `Router` or to none, which the lemmas about steps the router sees,
    does not see, and that leave it alone establish one by one. Hence what is
    proved of `Router`'s breakers holds of the endpoint the handlers call.
  - Caches: `CopiesStayRecent`. `RulesInv` follows what a reader carries from the
    table to Redis: it is the rules in force unless the reader is marked old, and
    so is the copy unless a handler has still to delete it or its age excuses it.
    `VerdictInv` bounds the age of an answer by the time its check has waited, and
    that of an entry by the life it has used up.
  - Evaluation: `RulesDecide`. `FiredSoFar` is the loop over the rules; the loop
    over the patterns is a recursive function, of which `RulesDecide` needs what
    it returns: hits for some or all patterns whatever their order.
- **KeyAuthProofs.**
  - Keys: `KeyAuthTypeCorrect`; `KeysAreNotImpersonated`, inductive with the typing,
    as a request's key does not change; `RevocationTakesEffect` from
    `RevocationInv`: a request that fills read the row when it was active, so the
    key has been revoked for at most `readAge` ticks, the rest of an entry's life
    and the time since the revocation add up to at most `AuthTTL + MaxFill`, and
    each tick moves one against the other.
  - CLI: `CliExportsOwnTenant` from `CliInv` (a cached, minted or exported key is
    of the tenant it is kept or asked for under, and from a gateway that was
    visited), `CliStoresOwnToken` from
    `LoginInv` (a token in the channel or the keyring came by a tab this login
    opened, whoever was answered had asked, and once the listener is closed no
    handler has an answer to give).
  - Agents: `AgentsAreAsShown` from `AgentInv`: clicks and calls are equally many, rows are
    at most the calls that landed, and what a fetch read or the page shows is the
    table unless an answer is still to be heard.
- **AsyncTaskProofs.**
  - Tasks: `AsyncTypeCorrect`, `WebhookStatusCorrect`, `ReceiverAgrees`, `PostsEnd`,
    all from `IInv`: each goroutine is the only writer of its row, so its place
    tells which verdict, payload and status there can be. A result in the row
    implies that the persisting write succeeded, so the copy that is posted
    carries it whether or not the reload succeeds.
  - `MembersAreAsChosen` from `MemberInv` (who is added was chosen in the open tab;
    rows shown are the members unless an answer was not heard), `CreationsAreWhole`
    from `CreationInv` (the place of a creation tells which of the four inserts are
    there, and nothing takes them away before it is announced), `PersonsAreUsers`
    from `LoginInv` (an address has one user, identities are linked by address,
    and of the callbacks of a login one at most gets past the provider).
- **ConsoleSessionProofs.**
  - Session: `SessionTypeCorrect`, `SessionHasToken`, `ListIsTheUsers`,
    `SessionLasts`, from `IInv`: whoever is signed in is not signing in, and in a
    session that began with nothing unanswered every request under way carries
    its token, so no 401 can be an earlier session's. `CallbacksAreTakenOnce` from
    `CInv`: a page that runs has no token in its URL, so tokens taken and waiting
    are at most the tokens handed over.
  - `ShownIsAlwaysOfScope` from `NavInv` and `ViewInv`, `ThemeIsAsChosen` from
    `ThemeInv`: what is stored is the last choice, and a tab that is drawn has one
    class, its own choice's.
  - Tree of a trace: `TreeIsAlwaysWhole`. `MapInv` follows the first loop: one node
    for each id seen, that of its last span, so after the loop the nodes are the
    reference (`NodesAreSpans`). `WalkInv` is about the rows together with the
    stack, as the list `ordered \o stack`: no span is there twice, each is indented
    once per ancestor and comes after all of them, only its parent's descendants
    are between it and its parent, which is a row, children of rows are there, and
    siblings are in order. Visiting the top of the stack keeps that
    (`VisitingKeepsWalk`), and when the stack is empty the rows have it. What was
    not drawn has a parent that was not drawn either, and in a finite set such
    parents go round (`ClosedHasCycle`). `OrderedCanBeListed` shows that siblings
    can be written down by start, which `ByStart` chooses.
- **KeyDialogProofs.**
  - Dialog: `KeyDialogTypeCorrect`, `KeysAreNotWidened` (no key is wider than the
    scope its form showed), `ClosedSecretsStayHidden`, `SecretsReachTheUser`. The
    strengthening: a secret held is an answered call's and is shown when the
    dialog is open, nothing is held while the latest call is under way, and a
    pending call that nothing disturbed is the latest.
  - `PageIsAlwaysTrue` from `TableInv` (rows and answers under way are the table's
    unless a call is unheard) and `GuideInv` (the mark has the timer started
    last, and the last write under way to the clipboard is the
    marked text); `FiltersAreRight` by cases on the owners a key has.
    `ModelsAreListed` from `PickerInv`: what page and Redis hold was listed for the
    account it was asked with, which is the one of the query's form and a row that
    there has been, and rows that there have been stay so.
- **RuleConsoleProofs.**
  - Rows: `RuleConsoleTypeCorrect`, `PanelsAreTrue`, `QuietRowsAreTrue`,
    `GlobalRulesAreSafe` (no update of a global rule is sent while an agent is
    chosen). The strengthening says that updates are sent from loaded rows, that
    an idle list without anything under way has the gateway's rows, and that a
    panel nobody else's update disturbed agrees with the one update under way.
  - `NewRulesAreAsShown` from `NewRuleInv` (a rule on its way was asked for in the
    dialog, and a text is typed once), `CountsAreBorneOut` from `EventsInv`: what
    counts is in the log, which only grows, an answer holds fires of the rule it
    was asked for, and some fire is within any limit (`NewestFound`), so what
    the panel hears is not empty.

The type invariants of these modules, `NeverWiderThanChosen`,
`GlobalRulesAreReference` and `CallbackNotReplayed` are proved and not listed
with a run; every other proved property is also checked by one, on the instance
above, and TLC checks the inductive invariants on those instances too.

**Assumptions.** The ASSUMEs of the modules, which TLC evaluates in every run:
bounds are natural numbers, constants have their types, sets that the code counts
or sorts are finite, `None` is no value. Nothing is assumed of variables.

**Induction over data.** The theorems of the library that have an operator as a
parameter cannot be used. Where an induction is needed (the loop over patterns,
the existence of a sorting, cycles of parents) the proof takes the least number for which the claim
fails, from the well-foundedness of the naturals, and refutes it.

**Only model-checked:** the liveness properties `EventuallyRetried`, `PeopleGetIn`
and `WaitsEnd`, as liveness under fairness is out of the prover's reach. (That
the walk of a tree ends needs no fairness: a step of `Flatten` adds a row, and no
span gets two.)

## Where code and documents disagree

Four runs show a disagreement, with the text quoted in `PROJECT.json`:

| Run | Document | Code |
|---|---|---|
| `upstream_deleted` | `docs/upstreams.md:59`: the router immediately stops routing to a deleted key | an update that overlaps the deletion adds the endpoints again |
| `key_revoked` | `docs/api-keys.md:53`: revoked keys immediately stop working | a cached key works until its entry expires |
| `tenant_retry` | `Onboarding.tsx:78`: try again | after a failure between the inserts the name is taken for good |
| `pipeline_open` | `docs/reference/glossary.md:13`: open (failing) | impatient clients open the circuit of an endpoint that never failed |

The modules state further claims that TLC refutes when they are added to a
configuration of their part. They are kept as definitions, out of the runs:

| Claim | What the code does |
|---|---|
| `Router!BreakerCycle` | a late success takes a breaker from OPEN straight to CLOSED (`endpoint.go:56`), against `README.md:51` |
| `KeyAuth!AgentHeaderIgnored` | another agent's header is refused with 403 (`proxy/server.go:153`), against `docs/api-keys.md:69` |
| `AsyncTask!EveryTaskSettles` with crashes | a task in flight at a crash stays as it is (`dispatcher.go:88`) |
| `AsyncTask!OnlyResultsArePosted` | after a failed write the webhook is told `running` (`dispatcher.go:128`) |
| `PipelineClaims!RequestsAreInspected`, `ResponsesAreInspected` | `/v1/messages` and streams are not inspected (`handlers.go:704`, `448`), against `docs/guardrails.md:3` |
| `PipelineClaims!ClosedIsHealthy` | a body that breaks off is recorded as a success (`handlers.go:498`) |
| `EndpointSignals!NeutralScore`, `P50IsMedian` | an endpoint without data scores below a neutral one (`endpoint.go:196`); the P50 is a mean (`endpoint.go:187`) |
| `GuardrailRules!SeededOnce`, `DeletedIsNotSeeded`, `SeededAsListed` | two list requests seed a managed rule twice; a deleted one is seeded again; one declared off is inserted on (`admin/server.go:722-752`) |
| `UpstreamConsole!UniqueLabel`, `EveryKeyIsAnEndpoint` | labels may be used twice, and deleting one of the two unroutes both (`admin/server.go:1054`, `1150`); an update without models takes a key out of the router while its row keeps its models (`1117`), against `docs/upstreams.md:36`, `69` |
| `MemberConsole!RefusedIsMember`, `ListsOwnTenants` | a removed member cannot be added again, and still lists the tenant (`admin/server.go:1228`, `361`) |
| `TenantCreation!DeletedHasNoKeys` | a deletion between the inserts leaves a key (`admin/server.go:574`) |
| `OidcLogin!TakenOnce` | two callbacks may both take a state's record (`state.go:78`) |
| `CliLogin!PageIsTrue` | the page says success before the command has one (`loopback.go:60`) |
| `CliKeys!LogoutDropsKeys` | a mint under way caches its key after the logout (`logout.go:19`) |
| `CliKeys!ExportsOwnGateway` | after a login at another gateway the key of the former one is exported for the same tenant id (`store.go:121`, `env.go:104`) |
| `ConsoleSession!OnboardingIsTrue` | a failed list shows a member the onboarding (`App.tsx:97`) |
| `ConsoleNav!AgentOfTenant` | choosing a tenant keeps another tenant's agent (`App.tsx:114`) |
| `KeyDialog!ShownOnce`, `AgentKeyOfItsTenant` | a dismissed secret is shown again (`APIKeys.tsx:234`); an agent chosen before the tenant changed is sent (`APIKeys.tsx:84`) |
| `RuleConsole!PanelAgrees`, `PanelOfSelectedAgent` | the panel keeps a refused switch, and stays, once two agents may be chosen, over another agent's rules (`Guardrails.tsx:386`, `373`) |
| `RuleEvents!FiresAreShown`, `PanelOfTenant` | the panel reads fields the answer does not have and takes the console down (`Guardrails.tsx:189`); it stays over another tenant (`Guardrails.tsx:373`) |
| `RouterPage!LiveMetrics` | the page is not fetched again by itself (`api/router.ts:20`) |
| `ModelPicker!TickedWasListed`, `OfferedIsOfRow` | a ticked model outlives the list it came from (`Upstreams.tsx:225`); a list outlives the row's key it was asked with, as the query's key does not name it (`api/upstreams.ts:42`, `admin/server.go:284`) |

## Not modelled

- Checks of role and permission (`RequirePermission`), signing of tokens: they
  change no state.
- Configuration, connections, and the seeding of the first boot, which ends
  before the servers start. `API_KEY_CACHE_TTL_SEC=0`, which Redis takes as no
  expiry, is excluded by `KeyAuthAssumption`: no bound would hold.
- The SQL of the trace queries, the export of telemetry, the ML sidecar: I/O and
  external services. What the gateway and the console do with them is modelled.
- The proxy server's write timeout of 300 s, which ends an answer and not its
  handler.
- Renaming a tenant (`handleUpdateTenant`), which no page does.
- CLI commands that send one request and print.
- The console's interface library, its pages with constant data (Overview, PII
  vault) and those that are to come, and the landing site: no state to check.
- Payloads, token counts, costs, credentials, and the wording of requests and
  answers.

## Running everything

    tlc -workers 2 -config MCUpstreams.cfg MCUpstreams     # and so on
    tlc -workers 2 -config MCPipelineOpen.cfg PipelineClaims
    tlapm RouterProofs.tla                                 # and every *Proofs module, and CircuitBreaker

A configuration finishes within five minutes, as does a proof module.
