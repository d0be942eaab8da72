------------------------------ MODULE ModelPicker -----------------------------
(***************************************************************************)
(* The models a provider key may serve: the part of the Upstreams dialog   *)
(* that lists them, the query that fetches a list for what the form holds, *)
(* the handler that settles whose key to ask with, and the listing service *)
(* with its cache in Redis.  A list is asked for again whenever the form   *)
(* changes, and answers come in any order.  The row of the upstream that   *)
(* is edited may be changed, deleted or made again by others meanwhile.    *)
(*                                                                         *)
(* A URL stands for its provider's API; "" is a URL that is not filled in. *)
(***************************************************************************)
EXTENDS FiniteSets

CONSTANTS Providers, Urls, Keys, Models,
          DefaultUrl,   \* provider -> the URL the form fills in, "" if none
          ConfigKey,    \* provider -> the key of the gateway's own file, or None
          ConfigUrl,    \* provider -> the URL beside that key, or ""
          Custom,       \* the provider that is any OpenAI-compatible API
          None

Form    == [provider : Providers, key : Keys \union {None}, url : Urls \union {""}]
Account == [provider : Providers, key : Keys, url : Urls \union {""}]
Rows    == [key : Keys \union {None}, url : Urls \union {""}]
Lists   == {None} \union {<<s>> : s \in SUBSET Models}
Flights == {None, <<>>} \union {<<a>> : a \in Account}   \* <<>>: not yet at the handler

PickerAssumption ==
    /\ DefaultUrl \in [Providers -> Urls \union {""}]
    /\ ConfigKey \in [Providers -> Keys \union {None}]
    /\ ConfigUrl \in [Providers -> Urls \union {""}]
    /\ Custom \in Providers /\ None \notin Keys \union Account \union Rows
    /\ None # <<>> /\ \A s \in SUBSET Models : None # <<s>>
    /\ \A a \in Account : None # <<a>>

VARIABLES
    editing,    \* whether the dialog is that of a row of the table
    row,        \* the key and URL of that row, None: deleted, or no such row
    past,       \* history: what the row has been since the dialog was opened
    form,       \* the provider, key and URL in the dialog
    selected,   \* the models ticked
    data,       \* query key -> the list the page keeps for it
    flight,     \* query key -> the call under way, with the account that is asked
    cache,      \* cache key -> the list in Redis
    listed      \* history: account -> the models its provider ever listed

table == <<editing, row, past>>
page == <<form, selected>>
vars == <<table, page, data, flight, cache, listed>>

TypeOK ==
    /\ editing \in BOOLEAN
    /\ row \in Rows \union {None} /\ past \subseteq Rows \union {None}
    /\ form \in Form
    /\ selected \subseteq Models
    /\ data \in [Form -> Lists] /\ cache \in [Account -> Lists]
    /\ flight \in [Form -> Flights]
    /\ listed \in [Account -> SUBSET Models]

-------------------------------------------------------------------------------

\* The key of the query: the form, with the edited upstream, which stays.
QueryKey(f) == f

\* MUTANT: lists are cached by provider and URL.
CacheKeyNoKey(a) == [a EXCEPT !.key = CHOOSE k \in Keys : TRUE]

\* The cache's key: provider, URL and the hash of the API key.
CacheKey(a) == a

Enabled(f) == f.key # None \/ editing \/ f.provider # Custom \/ f.url # ""

\* The handler asks with the key that was typed, else with that of the row, when
\* there is a row r, else with the one the gateway's file has for the provider.
HandlerKey(f, r) ==
    IF f.key # None THEN f.key
    ELSE IF r # None /\ r.key # None THEN r.key
    ELSE ConfigKey[f.provider]

\* A URL that is not filled in comes from where the key comes from, or from a row
\* without a key.
HandlerUrl(f, r) ==
    IF f.url # "" \/ f.key # None THEN f.url
    ELSE IF r # None /\ (r.key # None \/ r.url # "") THEN r.url
    ELSE ConfigUrl[f.provider]

AccountFor(f, r) ==
    [provider |-> f.provider, key |-> HandlerKey(f, r), url |-> HandlerUrl(f, r)]

\* The list the dialog offers.
Offered == IF data[QueryKey(form)] = None THEN {} ELSE data[QueryKey(form)][1]

-------------------------------------------------------------------------------
\* The query fetches for the form that is shown, once at a time for a key.
Fetch ==
    LET q == QueryKey(form) IN
    /\ Enabled(form) /\ flight[q] = None
    /\ flight' = [flight EXCEPT ![q] = <<>>]
    /\ UNCHANGED <<table, page, data, cache, listed>>

\* The handler: no key is an error, a cached list is the answer, anything else
\* asks the provider.
Serve(q) ==
    LET a == AccountFor(q, row) IN
    /\ flight[q] = <<>>
    /\ IF HandlerKey(q, row) = None THEN
          /\ flight' = [flight EXCEPT ![q] = None]
          /\ UNCHANGED data
       ELSE IF cache[CacheKey(a)] # None THEN
          /\ flight' = [flight EXCEPT ![q] = None]
          /\ data' = [data EXCEPT ![q] = cache[CacheKey(a)]]
       ELSE
          /\ flight' = [flight EXCEPT ![q] = <<a>>]
          /\ UNCHANGED data
    /\ UNCHANGED <<table, page, cache, listed>>

\* The provider lists what it offers the account at the time; a list with
\* nothing on it is not cached.
Answer(q, list) ==
    LET a == flight[q][1] IN
    /\ flight[q] \notin {None, <<>>}
    /\ listed' = [listed EXCEPT ![a] = @ \union list]
    /\ cache' = IF list = {} THEN cache ELSE [cache EXCEPT ![CacheKey(a)] = <<list>>]
    /\ data' = [data EXCEPT ![q] = <<list>>]
    /\ flight' = [flight EXCEPT ![q] = None]
    /\ UNCHANGED <<table, page>>

\* The provider refuses the key, or a call is lost: the page keeps its list, and
\* may send the call again.
Fail(q) ==
    /\ flight[q] # None
    /\ \E again \in {None, <<>>} : flight' = [flight EXCEPT ![q] = again]
    /\ UNCHANGED <<table, page, data, cache, listed>>

\* Another administrator edits the row, deletes it or makes it again.
RowChanges(r) ==
    /\ editing
    /\ row' = r /\ past' = past \union {r}
    /\ UNCHANGED <<editing, page, data, flight, cache, listed>>

\* A day passes for a cached list.
Expire(a) ==
    /\ cache[a] # None
    /\ cache' = [cache EXCEPT ![a] = None]
    /\ UNCHANGED <<table, page, data, flight, listed>>

-------------------------------------------------------------------------------
Shows(f, s) ==
    /\ form' = f /\ selected' = s
    /\ UNCHANGED <<table, data, flight, cache, listed>>

\* The ticks that are left when another provider is chosen.
LeftOnProvider == {}

\* The provider is chosen from a list, its URL filled in and its ticks dropped.
handleProviderChange(p) ==
    Shows([form EXCEPT !.provider = p, !.url = DefaultUrl[p]], LeftOnProvider)

ProviderList == \E p \in Providers : handleProviderChange(p)

TypeUrl(u) ==
    /\ form.provider = Custom
    /\ Shows([form EXCEPT !.url = u], selected)

TypeAPIKey(k) == Shows([form EXCEPT !.key = k], selected)

toggleModel(m) ==
    /\ m \in Offered
    /\ Shows(form, IF m \in selected THEN selected \ {m} ELSE selected \union {m})

\* The dialog is opened for a new key, or for a row that was saved with models
\* its provider had listed.
Init ==
    /\ data = [f \in Form |-> None]
    /\ flight = [f \in Form |-> None]
    /\ cache = [a \in Account |-> None]
    /\ \/ /\ editing = FALSE /\ row = None
          /\ selected = {}
          /\ listed = [a \in Account |-> {}]
          /\ \E p \in Providers \ {Custom} :
               form = [provider |-> p, key |-> None, url |-> DefaultUrl[p]]
       \/ /\ editing = TRUE /\ row \in Rows
          /\ \E p \in Providers :
               form = [provider |-> p, key |-> None, url |-> row.url]
          /\ HandlerKey(form, row) # None
          /\ selected \in (SUBSET Models) \ {{}}
          /\ listed = [a \in Account |-> IF a = AccountFor(form, row) THEN selected ELSE {}]
    /\ past = {row}

Next ==
    \/ Fetch
    \/ \E q \in Form : Serve(q) \/ Fail(q) \/ \E list \in SUBSET Models : Answer(q, list)
    \/ \E a \in Account : Expire(a)
    \/ \E r \in Rows \union {None} : RowChanges(r)
    \/ ProviderList
    \/ \E u \in Urls \union {""} : TypeUrl(u)
    \/ \E k \in Keys \union {None} : TypeAPIKey(k)
    \/ \E m \in Models : toggleModel(m)

Spec == Init /\ [][Next]_vars

-------------------------------------------------------------------------------
\* SAFETY: a list that is offered is one the form's provider gave for the key and
\* at the URL that the handler asks with for this form and some row that the edited
\* upstream has been since the dialog was opened, whatever answers for earlier
\* forms arrive late and whatever the cache was left with.  While the row stays, and
\* under a typed key, that is the key and the URL it asks with now.
OfferedWasListed ==
    data[QueryKey(form)] # None =>
        \E r \in past : /\ HandlerKey(form, r) # None
                        /\ Offered \subseteq listed[AccountFor(form, r)]

\* REFUTED: it is one for the key that the row has now.  A list stays on offer under
\* its query key, which does not name the row's key, and under a deleted row the
\* handler asks with the key of the gateway's file.
OfferedIsOfRow ==
    HandlerKey(form, row) # None => Offered \subseteq listed[AccountFor(form, row)]

\* SAFETY: a model stays ticked only under a provider that once listed it for
\* some key, through any changes of mind and late answers.
TickedOfProvider ==
    \A m \in selected : \E a \in Account : a.provider = form.provider /\ m \in listed[a]

\* CLAIM (docs/upstreams.md:42): "After entering the API key, the gateway
\* fetches available models from your provider. Check the models you want this
\* key to serve."  The models to be saved were listed for the key to be saved.
TickedWasListed ==
    ~editing /\ form.key # None => selected \subseteq listed[AccountFor(form, row)]
=============================================================================
