---------------------------- MODULE ThemeRuntime ----------------------------
(***************************************************************************)
(* The theme of the web client (lib/theme/theme-runtime.ts) in several tabs *)
(* of one browser: the script that runs before the first paint              *)
(* (theme-init.js), the controller, its listener for changes another tab    *)
(* made in the storage, and the switch.                                     *)
(*                                                                         *)
(* A storage event goes to every other tab that listens; events of one tab  *)
(* are handled in order.  A write that changes nothing sends no event.      *)
(***************************************************************************)
EXTENDS Integers, Sequences, FiniteSets, SequencesExt

CONSTANTS
    Tabs,
    Registry,       \* the themes, in the order the switch offers them
    DefaultTheme,   \* without a stored choice
    FallbackTheme,  \* with a stored choice nobody knows
    MaxActs,        \* how often the user does something
    MaxFaults       \* how often something else happens

\* As the themes are generated (themes.ts): the fallback is the default.  The
\* names below stand for an item that is no theme, and for a page without one.
ASSUME ThemeAssumption ==
    /\ DefaultTheme \in Range(Registry) /\ FallbackTheme = DefaultTheme
    /\ Range(Registry) \cap {"missing", "blank", "unknown", "none"} = {}

VARIABLES
    stored,         \* the item in the storage: a theme, "missing", "blank" or "unknown"
    theme,          \* what each tab shows
    listening,      \* the tabs whose controller was started
    events,         \* the storage events each tab has yet to handle
    apart,          \* history: a choice was not stored, or crossed another one
    unheard,        \* history: the tabs that showed a theme, but did not listen, when another was stored
    acts, faults

themeVars == <<stored, theme, listening, events, apart, unheard>>

Acted == acts < MaxActs /\ acts' = acts + 1
Disturbed == faults < MaxFaults /\ faults' = faults + 1

isThemeId(v) == v \in Range(Registry)

resolveTheme(v) ==
    IF v \in {"missing", "blank"} THEN DefaultTheme ELSE IF isThemeId(v) THEN v ELSE FallbackTheme

\* persistTheme, removeStoredTheme: the storage after a tab wrote v, and the
\* events of that; old is what the tabs had to handle before.
Stores(tab, v, old) ==
    /\ stored' = v
    /\ events' = [t \in Tabs |-> IF t \in listening \ {tab} /\ v # stored THEN Append(old[t], v)
                                 ELSE old[t]]
    /\ apart' = (apart \/ (v # stored /\ old[tab] # <<>>))

Keeps(old) == stored' = stored /\ events' = old /\ apart' = apart

\* Those who miss what was stored, if anything was, other than the tab that
\* did it: the tabs between theme-init.js and their listener.
Misses(tab, before) ==
    unheard' = before \cup {t \in Tabs \ (listening \cup {tab}) : theme[t] # "none" /\ stored' # stored}

\* readStoredTheme: a choice nobody knows is removed.
readStoredTheme(tab) ==
    IF isThemeId(stored) THEN Keeps(events) ELSE Stores(tab, "missing", events)

-----------------------------------------------------------------------------
(* One tab. *)

commit(tab, id) == theme' = [theme EXCEPT ![tab] = id]

\* theme-init.js: the attribute is set before the application is loaded; the
\* storage may refuse to remove a choice nobody knows.
initializeTheme(tab) ==
    /\ tab \notin listening /\ theme[tab] = "none"
    /\ commit(tab, resolveTheme(stored))
    /\ \/ readStoredTheme(tab) /\ faults' = faults
       \/ ~isThemeId(stored) /\ Disturbed /\ Keeps(events)
    /\ Misses(tab, unheard)
    /\ UNCHANGED <<listening, acts>>

start(tab) == listening' = listening \cup {tab}

\* The controller reads the storage again but shows the attribute that is
\* there; ThemeProvider starts its listener.
createThemeController(tab) ==
    /\ tab \notin listening /\ theme[tab] # "none"
    /\ start(tab)
    /\ readStoredTheme(tab)
    /\ Misses(tab, unheard)
    /\ UNCHANGED <<theme, acts, faults>>

\* The page of the tab is loaded again.
Reload(tab) ==
    /\ tab \in listening /\ Acted
    /\ listening' = listening \ {tab}
    /\ commit(tab, "none")
    /\ events' = [events EXCEPT ![tab] = <<>>]
    /\ unheard' = unheard \ {tab}
    /\ UNCHANGED <<stored, apart, faults>>

getNextTheme(current) ==
    LET i == CHOOSE n \in DOMAIN Registry : Registry[n] = current IN
    Registry[(i % Len(Registry)) + 1]

\* The theme is shown whether or not it can be stored.
setTheme(tab, id) ==
    /\ commit(tab, resolveTheme(id))
    /\ \/ Stores(tab, resolveTheme(id), events) /\ faults' = faults
       \/ Disturbed /\ apart' = TRUE /\ UNCHANGED <<stored, events>>
    /\ Misses(tab, unheard \ {tab})

switchTheme(tab) ==
    /\ tab \in listening /\ Acted
    /\ setTheme(tab, getNextTheme(theme[tab]))
    /\ UNCHANGED listening

\* Mutant: an item that was removed leaves the theme as it is.
HandlesNoRemoval(tab, v) == IF v = "missing" THEN theme[tab] ELSE resolveTheme(v)

\* The theme for an event of the storage.
nextTheme(tab, v) == resolveTheme(v)

handleStorage(tab) ==
    /\ tab \in listening /\ events[tab] # <<>>
    /\ LET v == Head(events[tab])
           rest == [events EXCEPT ![tab] = Tail(@)] IN
       /\ commit(tab, nextTheme(tab, v))
       /\ IF v \in {"missing"} \cup Range(Registry) THEN Keeps(rest) ELSE Stores(tab, "missing", rest)
    /\ Misses(tab, unheard \ {tab})
    /\ UNCHANGED <<listening, acts, faults>>

\* Somebody else writes: another version of the application with a theme this
\* one does not know, or the user who clears the data of the site.
Foreign ==
    /\ Disturbed
    /\ \E v \in {"missing", "blank", "unknown"} \ {stored} :
           /\ stored' = v
           /\ events' = [t \in Tabs |-> IF t \in listening THEN Append(events[t], v) ELSE events[t]]
    /\ apart' = apart
    /\ unheard' = unheard \cup {t \in Tabs \ listening : theme[t] # "none"}
    /\ UNCHANGED <<theme, listening, acts>>

ThemeInit ==
    /\ stored = "missing"
    /\ theme = [t \in Tabs |-> resolveTheme(stored)]
    /\ listening = Tabs /\ events = [t \in Tabs |-> <<>>] /\ apart = FALSE /\ unheard = {}
    /\ acts = 0 /\ faults = 0

-----------------------------------------------------------------------------
(* The invariant behind what the tabs show. *)

Themes == Range(Registry)
Items == Themes \cup {"missing", "blank", "unknown"}

ThemeTypes ==
    /\ stored \in Items /\ theme \in [Tabs -> Themes \cup {"none"}] /\ listening \subseteq Tabs
    /\ events \in [Tabs -> Seq(Items)] /\ apart \in BOOLEAN /\ unheard \subseteq Tabs

\* A tab shows what is stored, unless it missed that, or the last event on its
\* way says what is stored.
Informed(t) ==
    \/ theme[t] = "none"
    \/ events[t] = <<>> /\ (t \in unheard \/ theme[t] = resolveTheme(stored))
    \/ events[t] # <<>> /\ events[t][Len(events[t])] = stored

ThemeInv ==
    /\ ThemeTypes
    /\ \A t \in Tabs \ listening : events[t] = <<>>
    /\ \A t \in listening : theme[t] # "none"
    /\ apart \/ \A t \in Tabs : Informed(t)
=============================================================================
