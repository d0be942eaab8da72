------------------------------ MODULE ThemeChoice -----------------------------
(***************************************************************************)
(* The console's light, dark and system themes.  The choice is kept in the *)
(* browser's local storage, which all tabs of the console share, and in    *)
(* each tab's provider; an effect puts it on the tab's root element.  A    *)
(* tab reads the storage when it loads and never again, and it reads what  *)
(* the system prefers only when its effect runs.                           *)
(***************************************************************************)
EXTENDS FiniteSets

CONSTANTS Tabs, None

Classes == {"light", "dark"}
Theme   == Classes \union {"system"}

ThemeAssumption == None \notin Theme

VARIABLES
    stored,     \* localStorage's "ai-gateway-theme", None: absent
    prefers,    \* what the system prefers
    theme,      \* tab -> its provider's state, None: the tab is closed
    drawn,      \* tab -> the theme the effect ran for last
    root,       \* tab -> the classes of its root element that are themes
    chosen      \* history: the last theme chosen in any tab, None: none yet

tab == <<theme, drawn, root>>
vars == <<stored, prefers, tab, chosen>>

TypeOK ==
    /\ stored \in Theme \union {None} /\ chosen \in Theme \union {None}
    /\ prefers \in Classes
    /\ theme \in [Tabs -> Theme \union {None}]
    /\ drawn \in [Tabs -> Theme \union {None}]
    /\ root \in [Tabs -> SUBSET Classes]

Init ==
    /\ stored = None /\ chosen = None
    /\ prefers \in Classes
    /\ theme = [t \in Tabs |-> None]
    /\ drawn = [t \in Tabs |-> None]
    /\ root = [t \in Tabs |-> {}]

-------------------------------------------------------------------------------
\* What main.tsx gives the provider for a browser with no choice yet.
defaultTheme == "dark"

\* The provider's first state.
Stored == IF stored = None THEN defaultTheme ELSE stored

\* A tab opens the console or loads it again.
Load(t) ==
    /\ theme' = [theme EXCEPT ![t] = Stored]
    /\ drawn' = [drawn EXCEPT ![t] = None]
    /\ root' = [root EXCEPT ![t] = {}]
    /\ UNCHANGED <<stored, prefers, chosen>>

\* The classes the effect leaves on the root before it adds its own.
Left(t) == root[t] \ {"light", "dark"}

\* The class of a theme: "system" is what the system prefers when it is asked.
Worn(t) == IF theme[t] = "system" THEN prefers ELSE theme[t]

\* The effect of a render with a new theme; it runs before the tab's next click.
Effect(t) ==
    /\ theme[t] # None /\ drawn[t] # theme[t]
    /\ root' = [root EXCEPT ![t] = Left(t) \union {Worn(t)}]
    /\ drawn' = [drawn EXCEPT ![t] = theme[t]]
    /\ UNCHANGED <<stored, prefers, theme, chosen>>

\* MUTANT: the choice is not stored.
StoreNothing(c) == stored' = stored

Store(c) == stored' = c

\* A click on one of the sidebar's three buttons.
setTheme(t, c) ==
    /\ theme[t] # None /\ drawn[t] = theme[t]
    /\ Store(c)
    /\ theme' = [theme EXCEPT ![t] = c]
    /\ chosen' = c
    /\ UNCHANGED <<prefers, drawn, root>>

\* The button the sidebar raises.
Raised(t) == {c \in Theme : theme[t] = c}

\* The system goes to its other theme.
Prefer ==
    /\ prefers' \in Classes \ {prefers}
    /\ UNCHANGED <<stored, tab, chosen>>

Next ==
    \/ \E t \in Tabs : Load(t) \/ Effect(t) \/ \E c \in Theme : setTheme(t, c)
    \/ Prefer

Spec == Init /\ [][Next]_vars

-------------------------------------------------------------------------------
\* SAFETY: once a tab has drawn itself its root wears exactly one theme, and
\* it is the one of the raised button when that names one, after any sequence
\* of choices in this tab and in others.
RaisedIsWorn ==
    \A t \in Tabs : theme[t] # None /\ drawn[t] = theme[t] =>
        /\ Cardinality(root[t]) = 1
        /\ Raised(t) # {"system"} => root[t] = Raised(t)

\* SAFETY (action): a tab that loads takes the theme chosen last, in whichever
\* tab that was, and the default only if none was ever chosen.
LoadTakesLastChoice ==
    [][\A t \in Tabs : theme'[t] # None /\ drawn'[t] = None /\ (drawn[t] # None \/ theme[t] = None) =>
         theme'[t] = IF chosen = None THEN "dark" ELSE chosen]_vars
=============================================================================
