------------------------- MODULE SourceEditorProofs -------------------------
(***************************************************************************)
(* The editors show the text of their page and report only what the user    *)
(* wrote, no view of Monaco is left behind, and a choice of theme reaches   *)
(* every tab: for any number of tabs, themes, acts and faults.  ThemeInv    *)
(* says what is on its way to a tab, EditorInv what is on its way to the    *)
(* view.                                                                   *)
(***************************************************************************)
EXTENDS SourceEditor, TLAPS

(* The theme. *)

\* Whatever is stored resolves to a theme; what is no theme, to the default.
LEMMA Resolves ==
  \A v : /\ resolveTheme(v) \in Themes
         /\ v \in Themes => resolveTheme(v) = v
         /\ v \notin Themes => resolveTheme(v) = DefaultTheme
  BY ThemeAssumption DEF resolveTheme, isThemeId, Themes

\* No theme has the name of an item that is none, or of a page without one.
LEMMA Names == \A v \in Themes : v \notin {"missing", "blank", "unknown", "none"} /\ v \in Items
  BY ThemeAssumption DEF Themes, Items

\* The last event is the one that was appended.
LEMMA LastAppended ==
  ASSUME NEW s \in Seq(Items), NEW v \in Items
  PROVE  /\ Append(s, v) \in Seq(Items) /\ Append(s, v) # <<>>
         /\ Append(s, v)[Len(Append(s, v))] = v
  OBVIOUS

\* Who has missed something stays in the history, but for the tab that acts.
LEMMA MissesKeep ==
  ASSUME ThemeInv, NEW tab \in Tabs, NEW before, unheard \ {tab} \subseteq before, before \subseteq unheard,
         Misses(tab, before)
  PROVE  /\ unheard' \subseteq Tabs /\ unheard \ {tab} \subseteq unheard' /\ before \subseteq unheard'
         /\ \A u \in Tabs \ (listening \cup {tab}) : theme[u] = "none" \/ stored' = stored \/ u \in unheard'
  BY DEF Misses, ThemeInv, ThemeTypes

\* A tab that writes informs every other one, or the histories say which one
\* missed it, or that choices are apart.
LEMMA StoresInforms ==
  ASSUME ThemeInv, NEW tab \in Tabs, NEW v \in Items, NEW old \in [Tabs -> Seq(Items)],
         Stores(tab, v, old), unheard \ {tab} \subseteq unheard',
         \A u \in Tabs \ (listening \cup {tab}) : theme[u] = "none" \/ stored' = stored \/ u \in unheard',
         \A u \in Tabs \ {tab} : old[u] = events[u] /\ theme'[u] = theme[u]
  PROVE  /\ stored' = v /\ events' \in [Tabs -> Seq(Items)] /\ apart' \in BOOLEAN
         /\ events'[tab] = old[tab]
         /\ \A u \in Tabs \ (listening \cup {tab}) : events'[u] = <<>>
         /\ apart' \/ \A u \in Tabs \ {tab} : Informed(u)'
         /\ apart' \/ ~apart
         /\ apart' \/ v = stored \/ old[tab] = <<>>
<1>1. /\ stored' = v /\ apart' = (apart \/ (v # stored /\ old[tab] # <<>>))
      /\ events' = [t \in Tabs |-> IF t \in listening \ {tab} /\ v # stored THEN Append(old[t], v)
                                   ELSE old[t]]
  BY DEF Stores
<1>2. \A u \in Tabs : Append(old[u], v) \in Seq(Items) /\ Append(old[u], v) # <<>>
                      /\ Append(old[u], v)[Len(Append(old[u], v))] = v
  BY LastAppended
<1>3. /\ events' \in [Tabs -> Seq(Items)] /\ events'[tab] = old[tab]
      /\ \A u \in Tabs : events'[u] = IF u \in listening \ {tab} /\ v # stored THEN Append(old[u], v)
                                      ELSE old[u]
  BY <1>1, <1>2
<1>4. apart' \in BOOLEAN
  BY <1>1, Zenon DEF ThemeInv, ThemeTypes
<1>5. \A u \in Tabs \ (listening \cup {tab}) : events'[u] = <<>>
  BY <1>3 DEF ThemeInv
<1>6. ASSUME NEW u \in Tabs \ {tab}, ~apart' PROVE Informed(u)'
  <2>1. CASE v = stored
    <3>1. events'[u] = events[u] /\ stored' = stored /\ theme'[u] = theme[u]
      BY <1>1, <1>3, <2>1
    <3>2. Informed(u)
      BY <1>1, <1>6 DEF ThemeInv
    <3> QED
      BY <3>1, <3>2 DEF Informed
  <2>2. CASE v # stored
    <3>1. CASE u \in listening
      <4>1. events'[u] = Append(old[u], v)
        BY <1>3, <2>2, <3>1
      <4> QED
        BY <1>1, <1>2, <4>1 DEF Informed
    <3>2. CASE u \notin listening
      <4>1. events'[u] = <<>> /\ theme'[u] = theme[u] /\ (theme[u] = "none" \/ u \in unheard')
        BY <1>1, <1>5, <2>2, <3>2
      <4> QED
        BY <4>1 DEF Informed
    <3> QED
      BY <3>1, <3>2
  <2> QED
    BY <2>1, <2>2
<1> QED
  BY <1>1, <1>3, <1>4, <1>5, <1>6

\* Reading the storage keeps the invariant for a tab that shows what it read.
LEMMA ReadStored ==
  ASSUME ThemeInv, NEW tab \in Tabs \ listening, readStoredTheme(tab), Misses(tab, unheard),
         \A u \in Tabs \ {tab} : theme'[u] = theme[u],
         theme'[tab] = "none" \/ theme'[tab] = resolveTheme(stored) \/ apart \/ tab \in unheard
  PROVE  /\ stored' \in Items /\ events' \in [Tabs -> Seq(Items)] /\ apart' \in BOOLEAN
         /\ unheard' \subseteq Tabs
         /\ events'[tab] = <<>>
         /\ \A u \in Tabs \ listening : events'[u] = <<>>
         /\ apart' \/ \A u \in Tabs : Informed(u)'
<1>0. events[tab] = <<>> /\ events \in [Tabs -> Seq(Items)] /\ stored \in Items
  BY DEF ThemeInv, ThemeTypes
<1>3. /\ unheard' \subseteq Tabs /\ unheard \subseteq unheard'
      /\ \A u \in Tabs \ (listening \cup {tab}) : theme[u] = "none" \/ stored' = stored \/ u \in unheard'
  BY MissesKeep
<1>1. CASE isThemeId(stored)
  <2>1. Keeps(events)
    BY <1>1 DEF readStoredTheme
  <2>2. \A u \in Tabs : events'[u] = events[u] /\ stored' = stored
    BY <2>1 DEF Keeps
  <2>3. apart' \in BOOLEAN /\ apart' = apart
    BY <2>1 DEF Keeps, ThemeInv, ThemeTypes
  <2>4. ASSUME NEW u \in Tabs, ~apart' PROVE Informed(u)'
    BY <1>0, <1>3, <2>2, <2>3, <2>4 DEF ThemeInv, Informed
  <2> QED
    BY <1>0, <1>3, <2>1, <2>2, <2>3, <2>4 DEF Keeps, ThemeInv
<1>2. CASE ~isThemeId(stored)
  <2> DEFINE v == "missing"
  <2> HIDE DEF v
  <2>1. Stores(tab, v, events) /\ v \in Items /\ resolveTheme(v) = resolveTheme(stored)
    <3>1. stored \notin Themes /\ v \notin Themes
      BY <1>2, Names DEF isThemeId, Themes, v
    <3> QED
      BY <1>2, <3>1, Resolves DEF readStoredTheme, Items, v
  <2>2. /\ stored' = v /\ events' \in [Tabs -> Seq(Items)] /\ apart' \in BOOLEAN
        /\ events'[tab] = events[tab]
        /\ \A u \in Tabs \ (listening \cup {tab}) : events'[u] = <<>>
        /\ apart' \/ \A u \in Tabs \ {tab} : Informed(u)'
        /\ apart' \/ ~apart
    BY <1>0, <1>3, <2>1, StoresInforms
  <2>3. apart' \/ Informed(tab)'
    BY <1>0, <1>3, <2>1, <2>2 DEF Informed
  <2> QED
    BY <1>0, <1>3, <2>1, <2>2, <2>3
<1> QED
  BY <1>1, <1>2

\* A new page, its script and its controller keep the invariant.
LEMMA TabOpens ==
  ASSUME ThemeInv, NEW tab \in Tabs, initializeTheme(tab) \/ createThemeController(tab)
  PROVE  ThemeInv'
<1>0. tab \notin listening /\ theme \in [Tabs -> Themes \cup {"none"}] /\ listening \subseteq Tabs
  BY DEF ThemeInv, ThemeTypes, initializeTheme, createThemeController
<1>1. CASE initializeTheme(tab)
  <2>1. /\ theme' \in [Tabs -> Themes \cup {"none"}] /\ theme'[tab] = resolveTheme(stored)
        /\ \A u \in Tabs \ {tab} : theme'[u] = theme[u]
        /\ listening' = listening /\ Misses(tab, unheard)
    BY <1>0, <1>1, Resolves DEF initializeTheme, commit
  <2>2. CASE readStoredTheme(tab)
    <3>1. /\ stored' \in Items /\ events' \in [Tabs -> Seq(Items)] /\ apart' \in BOOLEAN /\ unheard' \subseteq Tabs
          /\ \A u \in Tabs \ listening : events'[u] = <<>>
          /\ apart' \/ \A u \in Tabs : Informed(u)'
      BY <1>0, <2>1, <2>2, ReadStored
    <3>2. \A t \in listening : theme'[t] # "none"
      BY <1>0, <2>1 DEF ThemeInv
    <3> QED
      BY <1>0, <2>1, <3>1, <3>2 DEF ThemeInv, ThemeTypes
  <2>3. CASE Keeps(events)
    <3>1. /\ stored' = stored /\ events' = events /\ apart' = apart /\ events[tab] = <<>>
          /\ unheard \subseteq unheard' /\ unheard' \subseteq Tabs
      BY <1>0, <2>1, <2>3, MissesKeep DEF Keeps, ThemeInv
    <3>2. ASSUME NEW u \in Tabs, Informed(u) PROVE Informed(u)'
      BY <2>1, <3>1, <3>2 DEF Informed
    <3> QED
      BY <1>0, <2>1, <3>1, <3>2 DEF ThemeInv, ThemeTypes
  <2> QED
    BY <1>1, <2>2, <2>3 DEF initializeTheme
<1>2. CASE createThemeController(tab)
  <2>1. /\ theme' = theme /\ listening' = listening \cup {tab} /\ readStoredTheme(tab) /\ theme[tab] # "none"
        /\ Misses(tab, unheard)
    BY <1>2 DEF createThemeController, start
  <2>2. theme[tab] = resolveTheme(stored) \/ apart \/ tab \in unheard
    BY <1>0, <2>1 DEF ThemeInv, Informed
  <2>3. /\ stored' \in Items /\ events' \in [Tabs -> Seq(Items)] /\ apart' \in BOOLEAN /\ unheard' \subseteq Tabs
        /\ \A u \in Tabs \ listening : events'[u] = <<>>
        /\ apart' \/ \A u \in Tabs : Informed(u)'
    BY <1>0, <2>1, <2>2, ReadStored
  <2> QED
    BY <1>0, <2>1, <2>3 DEF ThemeInv, ThemeTypes
<1> QED
  BY <1>1, <1>2

\* A page that is loaded again has no theme and no events.
LEMMA TabReloads ==
  ASSUME ThemeInv, NEW tab \in Tabs, Reload(tab)
  PROVE  ThemeInv'
<1>1. /\ theme' \in [Tabs -> Themes \cup {"none"}] /\ theme'[tab] = "none"
      /\ \A u \in Tabs \ {tab} : theme'[u] = theme[u]
      /\ listening' = listening \ {tab} /\ stored' = stored /\ apart' = apart
      /\ unheard' = unheard \ {tab}
  BY DEF Reload, commit, ThemeInv, ThemeTypes
<1>2. /\ events' \in [Tabs -> Seq(Items)] /\ events'[tab] = <<>>
      /\ \A u \in Tabs \ {tab} : events'[u] = events[u]
  BY DEF Reload, ThemeInv, ThemeTypes
<1>3. ASSUME NEW u \in Tabs, Informed(u) PROVE Informed(u)'
  BY <1>1, <1>2, <1>3 DEF Informed
<1>4. ThemeTypes'
  BY <1>1, <1>2 DEF ThemeInv, ThemeTypes
<1>5. \A t \in Tabs \ listening' : events'[t] = <<>>
  BY <1>1, <1>2 DEF ThemeInv
<1>6. \A t \in listening' : theme'[t] # "none"
  BY <1>1 DEF ThemeInv, ThemeTypes
<1> QED
  BY <1>1, <1>3, <1>4, <1>5, <1>6 DEF ThemeInv

\* A choice is shown by its tab and, when it is stored, told to the others.
LEMMA TabSwitches ==
  ASSUME ThemeInv, NEW tab \in Tabs, switchTheme(tab)
  PROVE  ThemeInv'
<1>0. PICK v \in Themes : v = resolveTheme(getNextTheme(theme[tab]))
  BY Resolves
<1>1. /\ theme' \in [Tabs -> Themes \cup {"none"}] /\ theme'[tab] = v
      /\ \A u \in Tabs \ {tab} : theme'[u] = theme[u]
      /\ listening' = listening
  BY <1>0 DEF switchTheme, setTheme, commit, ThemeInv, ThemeTypes
<1>6. /\ unheard' \subseteq Tabs /\ unheard \ {tab} \subseteq unheard'
      /\ \A u \in Tabs \ (listening \cup {tab}) : theme[u] = "none" \/ stored' = stored \/ u \in unheard'
  BY MissesKeep DEF switchTheme, setTheme
<1>2. v \in Items /\ v # "none" /\ resolveTheme(v) = v
  BY Names, Resolves
<1>3. \A t \in listening' : theme'[t] # "none"
  BY <1>1, <1>2 DEF ThemeInv, ThemeTypes
<1>4. CASE Stores(tab, v, events)
  <2>1. /\ stored' = v /\ events' \in [Tabs -> Seq(Items)] /\ apart' \in BOOLEAN
        /\ events'[tab] = events[tab]
        /\ \A u \in Tabs \ (listening \cup {tab}) : events'[u] = <<>>
        /\ apart' \/ \A u \in Tabs \ {tab} : Informed(u)'
        /\ apart' \/ ~apart
        /\ apart' \/ v = stored \/ events[tab] = <<>>
    BY <1>1, <1>2, <1>4, <1>6, StoresInforms DEF ThemeInv, ThemeTypes
  <2>2. apart' \/ Informed(tab)'
    <3>1. CASE events[tab] = <<>>
      BY <1>1, <1>2, <2>1, <3>1 DEF Informed
    <3>2. CASE events[tab] # <<>>
      BY <1>1, <2>1, <3>2 DEF Informed, ThemeInv, switchTheme
    <3> QED
      BY <3>1, <3>2
  <2>3. tab \in listening
    BY DEF switchTheme
  <2> QED
    BY <1>1, <1>2, <1>3, <1>6, <2>1, <2>2, <2>3 DEF ThemeInv, ThemeTypes
<1>5. CASE apart' = TRUE /\ UNCHANGED <<stored, events>>
  BY <1>1, <1>3, <1>5, <1>6 DEF ThemeInv, ThemeTypes
<1> QED
  BY <1>0, <1>4, <1>5 DEF switchTheme, setTheme

\* The events of a tab but the first: the last one stays, or none is left.
LEMMA LastOfTail ==
  ASSUME NEW s \in Seq(Items), s # <<>>
  PROVE  /\ Tail(s) \in Seq(Items) /\ Head(s) \in Items
         /\ Tail(s) = <<>> => Head(s) = s[Len(s)]
         /\ Tail(s) # <<>> => Tail(s)[Len(Tail(s))] = s[Len(s)]
<1>1. Len(s) \in Nat /\ Len(s) # 0 /\ Tail(s) \in Seq(Items) /\ Head(s) \in Items /\ Head(s) = s[1]
  OBVIOUS
<1>2. Len(Tail(s)) = Len(s) - 1 /\ \A i \in 1 .. Len(s) - 1 : Tail(s)[i] = s[i + 1]
  OBVIOUS
<1>3. CASE Tail(s) = <<>>
  <2>1. Len(s) = 1
    BY <1>1, <1>2, <1>3
  <2> QED
    BY <1>1, <1>3, <2>1
<1>4. CASE Tail(s) # <<>>
  <2>1. Len(s) - 1 \in 1 .. Len(s) - 1
    BY <1>1, <1>2, <1>4
  <2> QED
    BY <1>1, <1>2, <1>4, <2>1
<1> QED
  BY <1>3, <1>4

\* Handling an event brings the tab nearer to what is stored.
LEMMA TabHears ==
  ASSUME ThemeInv, NEW tab \in Tabs, handleStorage(tab)
  PROVE  ThemeInv'
<1>0. PICK v, rest : v = Head(events[tab]) /\ rest = [events EXCEPT ![tab] = Tail(events[tab])]
  OBVIOUS
<1>1. events \in [Tabs -> Seq(Items)] /\ events[tab] # <<>> /\ tab \in listening /\ stored \in Items
  BY DEF handleStorage, ThemeInv, ThemeTypes
<1>2. /\ v \in Items /\ rest \in [Tabs -> Seq(Items)]
      /\ \A u \in Tabs \ {tab} : rest[u] = events[u]
      /\ rest[tab] = <<>> => v = events[tab][Len(events[tab])]
      /\ rest[tab] # <<>> => rest[tab][Len(rest[tab])] = events[tab][Len(events[tab])]
  BY <1>0, <1>1, LastOfTail
<1>3. /\ theme' \in [Tabs -> Themes \cup {"none"}] /\ theme'[tab] = resolveTheme(v)
      /\ \A u \in Tabs \ {tab} : theme'[u] = theme[u]
      /\ listening' = listening
  BY <1>0, Resolves DEF handleStorage, commit, nextTheme, ThemeInv, ThemeTypes
<1>4. \A t \in listening' : theme'[t] # "none"
  BY <1>3, Resolves, Names DEF ThemeInv, ThemeTypes
<1>8. /\ unheard' \subseteq Tabs /\ unheard \ {tab} \subseteq unheard'
      /\ \A u \in Tabs \ (listening \cup {tab}) : theme[u] = "none" \/ stored' = stored \/ u \in unheard'
  BY MissesKeep DEF handleStorage
<1>5. apart \/ events[tab][Len(events[tab])] = stored
  BY <1>1 DEF ThemeInv, Informed
<1>6. CASE Keeps(rest)
  <2>1. stored' = stored /\ events' = rest /\ apart' = apart
    BY <1>6 DEF Keeps
  <2>2. ASSUME NEW u \in Tabs, ~apart PROVE Informed(u)'
    <3>1. CASE u = tab
      BY <1>2, <1>3, <1>5, <2>1, <2>2, <3>1 DEF Informed
    <3>2. CASE u # tab
      <4>1. Informed(u)
        BY <2>2 DEF ThemeInv
      <4> QED
        BY <1>2, <1>3, <1>8, <2>1, <3>2, <4>1 DEF Informed
    <3> QED
      BY <3>1, <3>2
  <2>3. \A u \in Tabs \ listening' : events'[u] = <<>>
    BY <1>1, <1>2, <1>3, <2>1 DEF ThemeInv
  <2> QED
    BY <1>1, <1>2, <1>3, <1>4, <1>8, <2>1, <2>2, <2>3 DEF ThemeInv, ThemeTypes
<1>7. CASE v \notin {"missing"} \cup Themes /\ Stores(tab, "missing", rest)
  <2> DEFINE m == "missing"
  <2> HIDE DEF m
  <2>0. m \in Items /\ Stores(tab, m, rest)
    BY <1>7 DEF Items, m
  <2>1. /\ stored' = m /\ events' \in [Tabs -> Seq(Items)] /\ apart' \in BOOLEAN
        /\ events'[tab] = rest[tab]
        /\ \A u \in Tabs \ (listening \cup {tab}) : events'[u] = <<>>
        /\ apart' \/ \A u \in Tabs \ {tab} : Informed(u)'
        /\ apart' \/ ~apart
        /\ apart' \/ m = stored \/ rest[tab] = <<>>
    BY <1>2, <1>3, <1>8, <2>0, StoresInforms
  <2>2. resolveTheme(v) = DefaultTheme /\ resolveTheme(m) = DefaultTheme
    BY <1>7, Resolves, Names DEF m
  <2>3. apart' \/ Informed(tab)'
    <3>1. CASE rest[tab] = <<>>
      BY <1>3, <2>1, <2>2, <3>1 DEF Informed
    <3>2. CASE rest[tab] # <<>>
      BY <1>2, <1>5, <2>1, <3>2 DEF Informed
    <3> QED
      BY <3>1, <3>2
  <2> QED
    BY <1>1, <1>3, <1>4, <1>8, <2>0, <2>1, <2>3 DEF ThemeInv, ThemeTypes
<1> QED
  BY <1>0, <1>6, <1>7 DEF handleStorage, Themes

\* What somebody else writes is told to every tab that listens.
LEMMA SomebodyWrites ==
  ASSUME ThemeInv, Foreign
  PROVE  ThemeInv'
<1>1. PICK v \in {"missing", "blank", "unknown"} :
        /\ stored' = v
        /\ events' = [t \in Tabs |-> IF t \in listening THEN Append(events[t], v) ELSE events[t]]
  BY DEF Foreign
<1>2. v \in Items
  BY DEF Items
<1>3. \A t \in Tabs : events[t] \in Seq(Items)
  BY DEF ThemeInv, ThemeTypes
<1>4. \A t \in Tabs : /\ Append(events[t], v) \in Seq(Items) /\ Append(events[t], v) # <<>>
                      /\ Append(events[t], v)[Len(Append(events[t], v))] = v
  BY <1>2, <1>3, LastAppended
<1>5. /\ events' \in [Tabs -> Seq(Items)]
      /\ \A t \in Tabs : events'[t] = IF t \in listening THEN Append(events[t], v) ELSE events[t]
  BY <1>1, <1>3, <1>4
<1>6. /\ theme' = theme /\ listening' = listening /\ apart' = apart
      /\ unheard' = unheard \cup {t \in Tabs \ listening : theme[t] # "none"}
  BY DEF Foreign
<1>7. apart' \in BOOLEAN /\ unheard' \subseteq Tabs
  BY <1>6 DEF ThemeInv, ThemeTypes
<1>8. ASSUME NEW t \in Tabs PROVE Informed(t)'
  <2>1. CASE t \in listening
    BY <1>1, <1>4, <1>5, <2>1 DEF Informed
  <2>2. CASE t \notin listening
    <3>1. events'[t] = <<>> /\ (theme'[t] = "none" \/ t \in unheard')
      BY <1>5, <1>6, <2>2 DEF ThemeInv
    <3> QED
      BY <3>1 DEF Informed
  <2> QED
    BY <2>1, <2>2
<1> QED
  BY <1>1, <1>2, <1>5, <1>6, <1>7, <1>8 DEF ThemeInv, ThemeTypes

\* Every step keeps the invariant of the theme.
LEMMA ThemeStays ==
  ASSUME ThemeInv, [Next]_vars
  PROVE  ThemeInv'
<1>1. CASE ThemeStep
  BY <1>1, HereAssumption, TabOpens, TabReloads, TabSwitches, TabHears, SomebodyWrites DEF ThemeStep
<1>2. CASE UNCHANGED themeVars
  <2>1. ASSUME NEW t \in Tabs, Informed(t) PROVE Informed(t)'
    BY <1>2, <2>1 DEF themeVars, Informed
  <2> QED
    BY <1>2, <2>1 DEF themeVars, ThemeInv, ThemeTypes
<1>3. CASE ~ThemeStep /\ Next
  <2>1. UNCHANGED themeVars
    BY <1>3 DEF Next, Replace, SwitchKind, LoadAgain, Commit, Effects, Imported, Created, Attached, LoadFails,
                Type, beginComposition, EndComposition, compositionFrame, loadVars, inputVars
  <2> QED
    BY <1>2, <2>1
<1> QED
  BY <1>1, <1>2, <1>3 DEF vars

\* At first every tab shows the default.
LEMMA ThemeStarts == ThemeInit => ThemeInv
<1> SUFFICES ASSUME ThemeInit PROVE ThemeInv
  OBVIOUS
<1>1. \A t \in Tabs : events[t] = <<>> /\ theme[t] = resolveTheme(stored) /\ theme[t] \in Themes
  BY Resolves DEF ThemeInit
<1>2. stored \in Items /\ apart \in BOOLEAN /\ listening = Tabs /\ unheard = {}
  BY DEF ThemeInit, Items
<1>3. theme \in [Tabs -> Themes \cup {"none"}]
  BY <1>1 DEF ThemeInit
<1>4. events \in [Tabs -> Seq(Items)]
  BY DEF ThemeInit
<1> QED
  BY <1>1, <1>2, <1>3, <1>4, Names DEF ThemeInv, ThemeTypes, Informed

\* The invariant of the theme holds in every state.
THEOREM ThemeInvariant == Spec => []ThemeInv
<1>1. Init => ThemeInv
  BY ThemeStarts DEF Init
<1> QED
  BY <1>1, ThemeStays, PTL DEF Spec

\* A choice of theme that was stored and crosses no other one is what every tab
\* shows that has no event to handle and was not between theme-init.js and its
\* listener then (setTheme, handleStorage and createThemeController of
\* theme-runtime.ts).
THEOREM OneTheme == Spec => []SwitchReachesEveryTab
<1>1. ThemeInv => SwitchReachesEveryTab
  BY DEF ThemeInv, ThemeTypes, Informed, SwitchReachesEveryTab
<1> QED
  BY <1>1, ThemeInvariant, PTL

-----------------------------------------------------------------------------
(* The views. *)

\* NoViewIsLeaked, view by view.
ViewsHaveOwners ==
    \A x : x \in views <=> \/ view.is = "code" /\ x = run
                          \/ \E l \in loads : l.at = "created" /\ l.run = x

\* Both ways to say that no view is leaked agree, before and after a step.
LEMMA Owners == (NoViewIsLeaked <=> ViewsHaveOwners) /\ (NoViewIsLeaked' <=> ViewsHaveOwners')
<1>1. NoViewIsLeaked => ViewsHaveOwners
  BY DEF NoViewIsLeaked, ViewsHaveOwners
<1>2. ViewsHaveOwners => NoViewIsLeaked
  BY DEF NoViewIsLeaked, ViewsHaveOwners
<1>3. NoViewIsLeaked' => ViewsHaveOwners'
  BY DEF NoViewIsLeaked, ViewsHaveOwners
<1>4. ViewsHaveOwners' => NoViewIsLeaked'
  BY DEF NoViewIsLeaked, ViewsHaveOwners
<1> QED
  BY <1>1, <1>2, <1>3, <1>4

\* Markdown is as old as the text it was made from.
LEMMA MarkdownIsOld ==
  ASSUME PageTypes, NEW text \in Int, Old(text)
  PROVE  \A k : Shown(k, text) \in Int /\ Old(Shown(k, text))
  BY DEF PageTypes, Old, Shown, Markdown

\* A new view shows its text, which counts as reported, and is not composed in.
LEMMA NewView ==
  ASSUME NEW text \in Int, NEW s \in Schemes, NEW v,
         v \in {createCodeEditor(text, s), EditorView(text, s), useEditor(text, s)}
  PROVE  /\ v \in Views /\ v.is # "none" /\ v.doc = Shown(v.is, text) /\ v.reported = text
         /\ v.scheme = s /\ ~v.ime /\ ~v.composing /\ ~v.frame
         /\ v = createCodeEditor(text, s) => v.is = "code"
         /\ v = EditorView(text, s) => v.is = "text"
         /\ v = useEditor(text, s) => v.is = "rich"
<1>1. CASE v = createCodeEditor(text, s)
  <2>1. v = [is |-> "code", doc |-> text, reported |-> text, scheme |-> s,
             ime |-> FALSE, composing |-> FALSE, frame |-> FALSE]
    BY <1>1 DEF createCodeEditor, NoView
  <2> QED
    BY <2>1 DEF Views, Editors, Shown, EditorView, useEditor, NoView
<1>2. CASE v = EditorView(text, s)
  <2>1. v = [is |-> "text", doc |-> text, reported |-> text, scheme |-> s,
             ime |-> FALSE, composing |-> FALSE, frame |-> FALSE]
    BY <1>2 DEF EditorView, NoView
  <2> QED
    BY <2>1 DEF Views, Editors, Shown, createCodeEditor, useEditor, NoView
<1>3. CASE v = useEditor(text, s)
  <2>1. v = [is |-> "rich", doc |-> Markdown(text), reported |-> text, scheme |-> s,
             ime |-> FALSE, composing |-> FALSE, frame |-> FALSE]
    BY <1>3 DEF useEditor, NoView
  <2>2. Markdown(text) \in Int
    BY DEF Markdown
  <2> QED
    BY <2>1, <2>2 DEF Views, Editors, Shown, createCodeEditor, EditorView, NoView
<1> QED
  BY <1>1, <1>2, <1>3

\* A value from outside changes the text of a view and what it reported, to
\* that value, and nothing when the user composes.
LEMMA GivenView ==
  ASSUME NEW v \in Views, NEW text \in Int, NEW g, g = Given(v, text),
         v.composing <=> (v.ime \/ v.frame), v.composing => v.is \in {"code", "text"},
         v.composing \/ v.doc = Shown(v.is, v.reported)
  PROVE  /\ g \in Views /\ g.is = v.is /\ g.scheme = v.scheme
         /\ g.ime = v.ime /\ g.composing = v.composing /\ g.frame = v.frame
         /\ v.composing \/ v.is = "none" => g = v
         /\ v.composing \/ v.is = "none" \/ (g.reported = text /\ g.doc = Shown(v.is, text))
<1>0. v.is \in {"none", "code", "text", "rich"} /\ Markdown(text) \in Int
  BY DEF Views, Editors, Markdown
<1>1. CASE v.is = "none"
  BY <1>1 DEF Given
<1>2. CASE v.is = "code"
  BY <1>2 DEF Given, setValue, Shown, Views
<1>3. CASE v.is = "text"
  BY <1>3 DEF Given, ValueEffect, Shown, Views
<1>4. CASE v.is = "rich"
  BY <1>0, <1>4 DEF Given, setContent, Shown, Views
<1> QED
  BY <1>0, <1>1, <1>2, <1>3, <1>4

\* New settings change a view in nothing else.
LEMMA ConfiguredView ==
  ASSUME NEW v \in Views, NEW s \in Schemes, NEW c, c = Configured(v, s)
  PROVE  /\ c \in Views /\ c.is = v.is /\ c.doc = v.doc /\ c.reported = v.reported
         /\ c.ime = v.ime /\ c.composing = v.composing /\ c.frame = v.frame
         /\ v.is = "none" \/ c.scheme = s
<1>0. v.is \in {"none", "code", "text", "rich"}
  BY DEF Views, Editors
<1>1. CASE v.is = "none"
  BY <1>1 DEF Configured
<1>2. CASE v.is # "none"
  <2>1. c = [v EXCEPT !.scheme = s]
    BY <1>0, <1>2 DEF Configured, updateSettings, reconfigure, setEditable
  <2> QED
    BY <1>2, <2>1 DEF Views
<1> QED
  BY <1>1, <1>2

-----------------------------------------------------------------------------
(* What the page does keeps the invariant of the editor. *)

\* A new value from the page is none the view has shown.
LEMMA PageReplaces ==
  ASSUME EditorInv, Replace
  PROVE  EditorInv'
<1>0. PICK n \in Nat : n = fresh + 1 /\ fresh' = n
  BY DEF Replace, EditorInv, PageTypes
<1>1. value' \in {n, -n} /\ value' \in Int
  BY <1>0 DEF Replace
<1>2. UNCHANGED <<kind, attempt, props, due, codeVars, view, historyVars>> /\ origin' = "page"
  BY DEF Replace
<1>3. PageTypes' /\ ViewTypes' /\ LoadTypes'
  BY <1>0, <1>1, <1>2 DEF EditorInv, PageTypes, ViewTypes, LoadTypes, codeVars, historyVars
<1>4. props.value \in Int /\ latest.value \in Int /\ view.doc \in Int /\ fresh \in Nat
  BY DEF EditorInv, PageTypes, ViewTypes, Values, Views
<1>5. TextsAreOld'
  BY <1>0, <1>1, <1>2, <1>4 DEF EditorInv, TextsAreOld, Old, codeVars
<1>6. value' # props'.value
  BY <1>0, <1>1, <1>2, <1>4 DEF EditorInv, TextsAreOld, Old
<1>7. CompositionIsTheUsers'
  BY <1>2 DEF EditorInv, CompositionIsTheUsers, historyVars, Shown, Markdown
<1>8. EffectsBring'
  BY <1>2, <1>6 DEF EditorInv, EffectsBring, Stays, codeVars
<1>9. LoadsAreNumbered' /\ NoEcho' /\ NoViewIsLeaked'
  BY <1>2 DEF EditorInv, LoadsAreNumbered, NoEcho, NoViewIsLeaked, codeVars
<1> QED
  BY <1>3, <1>5, <1>7, <1>8, <1>9 DEF EditorInv

\* A step that leaves text, props, view and loads alone keeps the invariant.
LEMMA ViewUnchanged ==
  ASSUME EditorInv, PageTypes', LoadTypes',
         UNCHANGED <<value, origin, props, due, latest, loads, run, runs, views, view, historyVars, fresh>>
  PROVE  EditorInv'
<1>1. ViewTypes' /\ TextsAreOld' /\ EffectsBring'
  BY DEF EditorInv, ViewTypes, TextsAreOld, Old, EffectsBring, Stays, historyVars
<1>2. CompositionIsTheUsers'
  BY DEF EditorInv, CompositionIsTheUsers, historyVars, Shown, Markdown
<1>3. LoadsAreNumbered' /\ NoEcho' /\ NoViewIsLeaked'
  BY DEF EditorInv, LoadsAreNumbered, NoEcho, NoViewIsLeaked
<1> QED
  BY <1>1, <1>2, <1>3 DEF EditorInv

\* Another editor or another attempt is only asked for.
LEMMA PageAsks ==
  ASSUME EditorInv, SwitchKind \/ LoadAgain
  PROVE  EditorInv'
<1>1. CASE SwitchKind
  <2>1. kind' \in Editors /\ UNCHANGED <<value, origin, attempt, props, due, codeVars, view, historyVars, fresh>>
    BY <1>1 DEF SwitchKind, Editors
  <2>2. PageTypes' /\ LoadTypes'
    BY <2>1 DEF EditorInv, PageTypes, LoadTypes, codeVars
  <2> QED
    BY <2>1, <2>2, ViewUnchanged DEF codeVars
<1>2. CASE LoadAgain
  <2>1. /\ attempt' \in Nat /\ status' = "loading"
        /\ UNCHANGED <<value, origin, kind, props, due, latest, loads, run, runs, views, view, historyVars, fresh>>
    BY <1>2 DEF LoadAgain, EditorInv, PageTypes
  <2>2. PageTypes' /\ LoadTypes'
    BY <2>1 DEF EditorInv, PageTypes, LoadTypes
  <2> QED
    BY <2>1, <2>2, ViewUnchanged
<1> QED
  BY <1>1, <1>2

\* A commit makes due exactly the effects of what it changed.
LEMMA PageCommits ==
  ASSUME EditorInv, ThemeInv, Commit
  PROVE  EditorInv'
<1>1. /\ due = {} /\ props' = Wanted
      /\ UNCHANGED <<value, origin, kind, attempt, codeVars, view, historyVars, fresh>>
  BY DEF Commit
<1>2. scheme \in Schemes
  BY HereAssumption DEF ThemeInv, ThemeTypes, Schemes, scheme
<1>3. /\ props' \in [value : Int, scheme : Schemes, kind : Editors, attempt : Nat]
      /\ props'.value = value /\ props'.scheme = scheme /\ props'.kind = kind /\ props'.attempt = attempt
  BY <1>1, <1>2 DEF Wanted, EditorInv, PageTypes
<1>4. /\ due' \subseteq {"mount", "value", "scheme", "attempt"}
      /\ Stays' => /\ "value" \in due' \/ props.value = value
                   /\ "scheme" \in due' \/ props.scheme = scheme
  BY DEF Commit, Stays, Wanted
<1>5. PageTypes' /\ ViewTypes' /\ LoadTypes'
  BY <1>1, <1>3, <1>4 DEF EditorInv, PageTypes, ViewTypes, LoadTypes, codeVars, historyVars
<1>6. TextsAreOld'
  BY <1>1, <1>3 DEF EditorInv, TextsAreOld, Old, codeVars
<1>7. CompositionIsTheUsers'
  BY <1>1 DEF EditorInv, CompositionIsTheUsers, historyVars, Shown, Markdown
<1>8. EffectsBring'
  BY <1>1, <1>3, <1>4 DEF EditorInv, EffectsBring, Stays, codeVars, historyVars
<1>9. LoadsAreNumbered' /\ NoEcho' /\ NoViewIsLeaked'
  BY <1>1 DEF EditorInv, LoadsAreNumbered, NoEcho, NoViewIsLeaked, codeVars
<1> QED
  BY <1>5, <1>6, <1>7, <1>8, <1>9 DEF EditorInv

-----------------------------------------------------------------------------
(* The effects of a commit. *)

\* What is shown before the code editor is there.
LEMMA Nothing ==
  /\ NoView \in Views /\ NoView.is = "none" /\ NoView.doc = 0 /\ NoView.reported = 0
  /\ ~NoView.ime /\ ~NoView.composing /\ ~NoView.frame
  BY DEF NoView, Views, Schemes

\* A component that mounts disposes the view of the load before it, and the
\* load it starts has a number of its own.
LEMMA MountDisposes ==
  ASSUME EditorInv, MountEffects, latest' \in Values, view'.is # "code"
  PROVE  LoadTypes' /\ LoadsAreNumbered' /\ NoViewIsLeaked'
<1>1. /\ \A x : x \in views' <=> x \in views /\ ~(view.is = "code" /\ x = run)
      /\ views' \subseteq Nat
  BY DEF MountEffects, dispose, EditorInv, LoadTypes
<1>2. status' \in {"loading", "ready", "error"}
  BY DEF MountEffects, EditorInv, LoadTypes
<1>3. ViewsHaveOwners
  BY Owners DEF EditorInv
<1>4. \A l \in loads : l \in Loads /\ l.run <= runs /\ l.run \in Nat \ {0} /\ (view.is = "code" => l.run # run)
  BY DEF EditorInv, LoadTypes, Loads, LoadsAreNumbered
<1>5. CASE props.kind = "code"
  <2>1. PICK n \in Nat : n = runs + 1
    BY DEF EditorInv, LoadTypes
  <2> DEFINE new == [run |-> n, at |-> "import", from |-> latest']
  <2>2. runs' = n /\ run' = n /\ loads' = loads \cup {new}
    BY <1>5, <2>1 DEF MountEffects
  <2>3. new \in Loads /\ new.run = n /\ new.at = "import" /\ runs \in Nat
    BY <2>1 DEF Loads, EditorInv, LoadTypes
  <2> HIDE DEF new
  <2>4. LoadTypes'
    BY <1>1, <1>2, <1>4, <2>1, <2>2, <2>3 DEF LoadTypes
  <2>5. LoadsAreNumbered'
    <3>1. \A l \in loads : l.run <= n /\ l.run # n
      BY <1>4, <2>1, <2>3
    <3>2. \A l, m \in loads : l.run = m.run => l = m
      BY DEF EditorInv, LoadsAreNumbered
    <3> QED
      BY <2>1, <2>2, <2>3, <3>1, <3>2 DEF LoadsAreNumbered
  <2>6. ViewsHaveOwners'
    BY <1>1, <1>3, <1>4, <2>2, <2>3 DEF ViewsHaveOwners
  <2> QED
    BY <2>4, <2>5, <2>6, Owners
<1>6. CASE props.kind # "code"
  <2>1. run' = 0 /\ runs' = runs /\ loads' = loads
    BY <1>6 DEF MountEffects
  <2>2. LoadTypes' /\ LoadsAreNumbered'
    BY <1>1, <1>2, <2>1 DEF EditorInv, LoadTypes, LoadsAreNumbered
  <2>3. ViewsHaveOwners'
    BY <1>1, <1>3, <1>4, <2>1 DEF ViewsHaveOwners
  <2> QED
    BY <2>2, <2>3, Owners
<1> QED
  BY <1>5, <1>6

\* A component that mounts shows nothing yet, or what was committed.
LEMMA MountShows ==
  ASSUME EditorInv, MountEffects
  PROVE  /\ view' \in Views /\ view'.is # "code" /\ ~view'.ime /\ ~view'.composing /\ ~view'.frame
         /\ view'.doc \in {0, Shown(view'.is, props.value)} /\ view'.doc = Shown(view'.is, view'.reported)
         /\ view'.is = "none" \/ (view'.reported = props.value /\ view'.scheme = props.scheme)
<1>0. props.value \in Int /\ props.scheme \in Schemes
  BY DEF EditorInv, PageTypes
<1>1. CASE props.kind = "code"
  BY <1>1, Nothing DEF MountEffects, Shown, Markdown
<1>2. CASE props.kind = "text"
  <2>1. view' = EditorView(props.value, props.scheme)
    BY <1>2 DEF MountEffects
  <2> QED
    BY <1>0, <2>1, NewView
<1>3. CASE props.kind = "rich"
  <2>1. view' = useEditor(props.value, props.scheme)
    BY <1>3 DEF MountEffects
  <2> QED
    BY <1>0, <2>1, NewView
<1> QED
  BY <1>1, <1>2, <1>3 DEF EditorInv, PageTypes, Editors

\* The effects of a component that mounts, or loads again.
LEMMA Mounts ==
  ASSUME EditorInv, Effects, MountEffects
  PROVE  EditorInv'
<1>1. /\ due' = {} /\ latest' = [value |-> props.value, scheme |-> props.scheme]
      /\ UNCHANGED <<kind, attempt, props, fresh>>
  BY DEF Effects
<1>2. /\ latest' \in Values /\ latest'.value = props.value /\ latest'.scheme = props.scheme
      /\ props.value \in Int /\ Old(props.value)
  BY <1>1 DEF EditorInv, PageTypes, Values, TextsAreOld
<1>3. typed' = FALSE /\ skipped' = FALSE /\ value' = value /\ origin' = origin
  BY DEF MountEffects, Silent
<1>4. /\ view' \in Views /\ view'.is # "code" /\ ~view'.ime /\ ~view'.composing /\ ~view'.frame
      /\ view'.doc \in {0, Shown(view'.is, props.value)} /\ view'.doc = Shown(view'.is, view'.reported)
      /\ view'.is = "none" \/ (view'.reported = props.value /\ view'.scheme = props.scheme)
  BY MountShows
<1>5. LoadTypes' /\ LoadsAreNumbered' /\ NoViewIsLeaked'
  BY <1>2, <1>4, MountDisposes
<1>6. PageTypes' /\ ViewTypes'
  BY <1>1, <1>2, <1>3, <1>4 DEF EditorInv, PageTypes, ViewTypes
<1>7. Old(view'.doc) /\ fresh \in Nat
  BY <1>2, <1>4, MarkdownIsOld DEF EditorInv, PageTypes, Old
<1>8. TextsAreOld'
  BY <1>1, <1>2, <1>3, <1>7 DEF EditorInv, TextsAreOld, Old
<1>9. view'.composing <=> (view'.ime \/ view'.frame)
  BY <1>4, Zenon DEF Views
<1>10. CompositionIsTheUsers'
  BY <1>3, <1>4, <1>9 DEF CompositionIsTheUsers, Shown, Markdown
<1>11. EffectsBring' /\ NoEcho'
  BY <1>1, <1>2, <1>3, <1>4 DEF EditorInv, EffectsBring, NoEcho
<1> QED
  BY <1>5, <1>6, <1>8, <1>10, <1>11 DEF EditorInv

\* The effects of a component that stays.
LEMMA Updates ==
  ASSUME EditorInv, Effects, UpdateEffects, Stays
  PROVE  EditorInv'
<1>1. /\ due' = {} /\ latest' = [value |-> props.value, scheme |-> props.scheme]
      /\ UNCHANGED <<kind, attempt, props, fresh, loads, run, runs, status, views, value, origin>>
  BY DEF Effects, UpdateEffects, Heard, Silent
<1>2. /\ latest' \in Values /\ latest'.value = props.value /\ latest'.scheme = props.scheme
      /\ props.value \in Int /\ props.scheme \in Schemes /\ Old(props.value)
  BY <1>1 DEF EditorInv, PageTypes, Values, TextsAreOld
<1>3. /\ view \in Views
      /\ view.composing <=> (view.ime \/ view.frame)
      /\ view.composing => view.is \in {"code", "text"}
      /\ view.frame => view.is = "text" /\ ~view.ime
      /\ typed => view.composing
      /\ typed \/ view.doc = Shown(view.is, view.reported)
      /\ Old(view.doc)
  BY DEF EditorInv, ViewTypes, CompositionIsTheUsers, TextsAreOld
<1>4. PICK g : g = (IF "value" \in due THEN Given(view, props.value) ELSE view)
  OBVIOUS
<1>5. /\ g \in Views /\ g.is = view.is /\ g.scheme = view.scheme
      /\ g.ime = view.ime /\ g.composing = view.composing /\ g.frame = view.frame
      /\ view.composing \/ view.is = "none" => g = view
      /\ "value" \notin due => g = view
      /\ \/ "value" \notin due \/ view.composing \/ view.is = "none"
         \/ g.reported = props.value /\ g.doc = Shown(view.is, props.value)
  <2>1. CASE "value" \in due
    BY <1>2, <1>3, <1>4, <2>1, GivenView
  <2>2. CASE "value" \notin due
    BY <1>3, <1>4, <2>2
  <2> QED
    BY <2>1, <2>2
<1>6. /\ view' = IF "scheme" \in due THEN Configured(g, props.scheme) ELSE g
      /\ typed' = typed
      /\ skipped' = IF g.doc # view.doc THEN FALSE
                    ELSE skipped \/ ("value" \in due /\ (view.ime \/ view.composing) /\ view.reported # props.value)
  BY <1>4 DEF UpdateEffects
<1>7. /\ view' \in Views /\ view'.is = view.is /\ view'.doc = g.doc /\ view'.reported = g.reported
      /\ view'.ime = view.ime /\ view'.composing = view.composing /\ view'.frame = view.frame
      /\ view.is = "none" \/ "scheme" \notin due \/ view'.scheme = props.scheme
      /\ "scheme" \in due \/ view'.scheme = view.scheme
  <2>1. CASE "scheme" \in due
    BY <1>2, <1>5, <1>6, <2>1, ConfiguredView
  <2>2. CASE "scheme" \notin due
    BY <1>5, <1>6, <2>2
  <2> QED
    BY <2>1, <2>2
<1>8. typed' \in BOOLEAN /\ skipped' \in BOOLEAN
  BY <1>6, Zenon DEF EditorInv, ViewTypes
<1>9. PageTypes' /\ ViewTypes' /\ LoadTypes'
  BY <1>1, <1>2, <1>7, <1>8 DEF EditorInv, PageTypes, ViewTypes, LoadTypes
<1>10. TextsAreOld'
  <2>1. Old(g.doc)
    BY <1>2, <1>3, <1>5, MarkdownIsOld DEF EditorInv
  <2> QED
    BY <1>1, <1>2, <1>7, <2>1 DEF EditorInv, TextsAreOld, Old
<1>11. CompositionIsTheUsers'
  <2>1. /\ view'.composing => view'.is \in {"code", "text"}
        /\ typed' => view'.composing
    BY <1>3, <1>5, <1>6, <1>7
  <2>2. typed' \/ view'.doc = Shown(view'.is, view'.reported)
    <3>1. CASE view.composing \/ view.is = "none" \/ "value" \notin due
      BY <1>3, <1>5, <1>6, <1>7, <3>1
    <3>2. CASE ~(view.composing \/ view.is = "none" \/ "value" \notin due)
      BY <1>5, <1>7, <3>2
    <3> QED
      BY <3>1, <3>2
  <2> QED
    BY <1>3, <1>7, <2>1, <2>2 DEF CompositionIsTheUsers, Shown, Markdown
<1>12. EffectsBring'
  <2>1. view'.is = "none" \/ view'.scheme = props.scheme
    BY <1>7 DEF EditorInv, EffectsBring
  <2>2. view'.is = "none" \/ skipped' \/ value # props.value \/ view'.reported = value
    <3>1. CASE "value" \notin due
      BY <1>5, <1>6, <1>7, <3>1 DEF EditorInv, EffectsBring
    <3>2. CASE "value" \in due /\ view.composing
      BY <1>5, <1>6, <1>7, <3>2
    <3>3. CASE "value" \in due /\ ~view.composing
      BY <1>5, <1>7, <3>3
    <3> QED
      BY <3>1, <3>2, <3>3
  <2> QED
    BY <1>1, <1>2, <2>1, <2>2 DEF EffectsBring
<1>13. LoadsAreNumbered' /\ NoEcho' /\ NoViewIsLeaked'
  BY <1>1, <1>7 DEF EditorInv, LoadsAreNumbered, NoEcho, NoViewIsLeaked
<1> QED
  BY <1>9, <1>10, <1>11, <1>12, <1>13 DEF EditorInv

-----------------------------------------------------------------------------
(* The code editor loads. *)

\* A step of a load that leaves the view alone keeps the invariant.
LEMMA LoadKeeps ==
  ASSUME EditorInv, UNCHANGED <<loadVars, view, historyVars>>, LoadTypes', LoadsAreNumbered', ViewsHaveOwners'
  PROVE  EditorInv'
<1>1. PageTypes' /\ ViewTypes' /\ TextsAreOld' /\ EffectsBring'
  BY DEF EditorInv, PageTypes, ViewTypes, TextsAreOld, Old, EffectsBring, Stays, loadVars, historyVars
<1>2. CompositionIsTheUsers'
  BY DEF EditorInv, CompositionIsTheUsers, historyVars, Shown, Markdown
<1>3. NoEcho' /\ NoViewIsLeaked'
  BY Owners DEF EditorInv, NoEcho, loadVars
<1> QED
  BY <1>1, <1>2, <1>3 DEF EditorInv

\* What the invariant says of the loads, one by one.
LEMMA LoadFacts ==
  ASSUME EditorInv
  PROVE  /\ loads \subseteq Loads /\ run \in Nat /\ runs \in Nat /\ run <= runs /\ views \subseteq Nat
         /\ status \in {"loading", "ready", "error"} /\ latest \in Values
         /\ \A l \in loads : l.run \in Nat \ {0} /\ l.run <= runs /\ (view.is = "code" => l.run # run)
         /\ \A l, m \in loads : l.run = m.run => l = m
         /\ ViewsHaveOwners
<1>1. ViewsHaveOwners
  BY Owners DEF EditorInv
<1> QED
  BY <1>1 DEF EditorInv, LoadTypes, Loads, ViewTypes, LoadsAreNumbered

\* A load that failed, or whose component is gone, ends.
LEMMA LoadGoes ==
  ASSUME EditorInv, NEW l \in loads, loads' = loads \ {l}, UNCHANGED <<loadVars, view, historyVars>>,
         views' = (IF l.at = "created" THEN views \ {l.run} ELSE views),
         status' \in {"loading", "ready", "error"}, l.at = "created" => l.run # run
  PROVE  EditorInv'
<1>1. run' = run /\ runs' = runs /\ view' = view
  BY DEF loadVars
<1>2. LoadTypes' /\ LoadsAreNumbered'
  BY <1>1, LoadFacts DEF LoadTypes, LoadsAreNumbered
<1>3. ViewsHaveOwners'
  <2>1. \A x : (\E k \in loads' : k.at = "created" /\ k.run = x)
              <=> (\E k \in loads : k.at = "created" /\ k.run = x) /\ ~(l.at = "created" /\ x = l.run)
    BY LoadFacts
  <2>2. \A x : x \in views' <=> x \in views /\ ~(l.at = "created" /\ x = l.run)
    OBVIOUS
  <2> QED
    BY <1>1, <2>1, <2>2, LoadFacts DEF ViewsHaveOwners
<1> QED
  BY <1>2, <1>3, LoadKeeps

\* A load that goes on keeps its number.
LEMMA LoadGoesOn ==
  ASSUME EditorInv, NEW l \in loads, NEW n \in Loads, n.run = l.run, l.at # "created",
         loads' = (loads \ {l}) \cup {n}, UNCHANGED <<loadVars, view, historyVars, status>>,
         views' = (IF n.at = "created" THEN views \cup {n.run} ELSE views)
  PROVE  EditorInv'
<1>1. run' = run /\ runs' = runs /\ view' = view
  BY DEF loadVars
<1>2. views' \subseteq Nat
  BY LoadFacts
<1>3. LoadTypes'
  BY <1>1, <1>2, LoadFacts DEF LoadTypes
<1>4. LoadsAreNumbered'
  <2>1. \A k \in loads' : k.run <= runs /\ (view.is = "code" => k.run # run)
    BY LoadFacts
  <2>2. \A k, m \in loads' : k.run = m.run => k = m
    BY LoadFacts
  <2> QED
    BY <1>1, <2>1, <2>2, LoadFacts DEF LoadsAreNumbered
<1>5. ViewsHaveOwners'
  <2>1. \A x : (\E k \in loads' : k.at = "created" /\ k.run = x)
              <=> (\E k \in loads : k.at = "created" /\ k.run = x) \/ (n.at = "created" /\ x = n.run)
    OBVIOUS
  <2>2. \A x : x \in views' <=> x \in views \/ (n.at = "created" /\ x = n.run)
    OBVIOUS
  <2> QED
    BY <1>1, <2>1, <2>2, LoadFacts DEF ViewsHaveOwners
<1> QED
  BY <1>3, <1>4, <1>5, LoadKeeps

\* The chunk arrives, Monaco is created, or either fails.
LEMMA Loading ==
  ASSUME EditorInv, NEW l \in loads, Imported(l) \/ Created(l) \/ LoadFails(l)
  PROVE  EditorInv'
<1>0. l \in Loads /\ latest \in Values /\ status \in {"loading", "ready", "error"}
  BY LoadFacts
<1>1. CASE Imported(l) /\ active(l)
  <2>1. PICK n : n = [l EXCEPT !.at = "colorize", !.from = latest]
    OBVIOUS
  <2>2. n \in Loads /\ n.run = l.run /\ n.at = "colorize"
    BY <1>0, <2>1 DEF Loads
  <2>3. /\ loads' = (loads \ {l}) \cup {n} /\ UNCHANGED <<loadVars, view, historyVars, status, views>>
        /\ l.at = "import"
    BY <1>1, <2>1 DEF Imported
  <2> QED
    BY <2>2, <2>3, LoadGoesOn
<1>2. CASE Imported(l) /\ ~active(l)
  <2>1. /\ loads' = loads \ {l} /\ UNCHANGED <<loadVars, view, historyVars, status, views>>
        /\ l.at = "import"
    BY <1>2 DEF Imported
  <2> QED
    BY <1>0, <2>1, LoadGoes
<1>3. CASE Created(l)
  <2>1. PICK n : n = [l EXCEPT !.at = "created"]
    OBVIOUS
  <2>2. n \in Loads /\ n.run = l.run /\ n.at = "created"
    BY <1>0, <2>1 DEF Loads
  <2>3. /\ loads' = (loads \ {l}) \cup {n} /\ UNCHANGED <<loadVars, view, historyVars, status>>
        /\ l.at = "colorize" /\ views' = views \cup {n.run}
    BY <1>3, <2>1, <2>2 DEF Created
  <2> QED
    BY <2>2, <2>3, LoadGoesOn
<1>4. CASE LoadFails(l)
  <2>1. /\ loads' = loads \ {l} /\ UNCHANGED <<loadVars, view, historyVars, views>>
        /\ l.at # "created" /\ status' \in {"loading", "ready", "error"}
    BY <1>0, <1>4 DEF LoadFails
  <2> QED
    BY <2>1, LoadGoes
<1> QED
  BY <1>1, <1>2, <1>3, <1>4

\* The view of a load that ends has the newest text and settings.
LEMMA AttachedIsLatest ==
  ASSUME EditorInv, NEW l \in loads, NEW v, v = AttachedView(l)
  PROVE  /\ v \in Views /\ v.is = "code" /\ v.doc = latest.value /\ v.reported = latest.value
         /\ v.scheme = latest.scheme /\ ~v.ime /\ ~v.composing /\ ~v.frame
<1>1. /\ l.from.value \in Int /\ l.from.scheme \in Schemes /\ latest.value \in Int /\ latest.scheme \in Schemes
  BY LoadFacts DEF Loads, Values
<1>2. PICK c : c = createCodeEditor(l.from.value, l.from.scheme)
  OBVIOUS
<1>3. /\ c \in Views /\ c.is = "code" /\ c.doc = l.from.value /\ c.reported = l.from.value
      /\ ~c.ime /\ ~c.composing /\ ~c.frame
  BY <1>1, <1>2, NewView DEF Shown
<1>4. PICK g : g = setValue(c, latest.value)
  OBVIOUS
<1>5. /\ g \in Views /\ g.is = "code" /\ g.doc = latest.value /\ g.reported = latest.value
      /\ ~g.ime /\ ~g.composing /\ ~g.frame
  BY <1>1, <1>3, <1>4 DEF setValue, Views
<1>6. v = [g EXCEPT !.scheme = latest.scheme]
  BY <1>2, <1>4 DEF AttachedView, updateSettings
<1> QED
  BY <1>1, <1>5, <1>6 DEF Views

\* The editor is ready, or its view is disposed.
LEMMA LoadEnds ==
  ASSUME EditorInv, NEW l \in loads, Attached(l)
  PROVE  EditorInv'
<1>1. CASE ~active(l)
  <2>1. /\ loads' = loads \ {l} /\ UNCHANGED <<loadVars, view, historyVars, status>>
        /\ l.at = "created" /\ l.run # run /\ views' = views \ {l.run}
    BY <1>1 DEF Attached, active
  <2> QED
    BY <2>1, LoadGoes, LoadFacts
<1>2. CASE active(l)
  <2>1. /\ loads' = loads \ {l} /\ view' = AttachedView(l) /\ status' = "ready" /\ typed' = FALSE
        /\ UNCHANGED <<loadVars, views, skipped>> /\ l.at = "created" /\ l.run = run
    BY <1>2 DEF Attached, active
  <2>2. /\ view' \in Views /\ view'.is = "code" /\ view'.doc = latest.value /\ view'.reported = latest.value
        /\ view'.scheme = latest.scheme /\ ~view'.ime /\ ~view'.composing /\ ~view'.frame
    BY <2>1, AttachedIsLatest
  <2>3. PageTypes' /\ ViewTypes'
    BY <2>1, <2>2 DEF EditorInv, PageTypes, ViewTypes, loadVars
  <2>4. TextsAreOld'
    BY <2>1, <2>2 DEF EditorInv, TextsAreOld, Old, loadVars
  <2>5. CompositionIsTheUsers'
    <3>1. view'.composing <=> (view'.ime \/ view'.frame)
      BY <2>2, Zenon DEF Views
    <3> QED
      BY <2>1, <2>2, <3>1 DEF CompositionIsTheUsers, Shown
  <2>6. EffectsBring' /\ NoEcho'
    BY <2>1, <2>2 DEF EditorInv, EffectsBring, Stays, NoEcho, loadVars
  <2>7. run' = run /\ runs' = runs /\ views' = views
    BY <2>1 DEF loadVars
  <2>8. LoadTypes' /\ LoadsAreNumbered'
    BY <2>1, <2>7, LoadFacts DEF LoadTypes, LoadsAreNumbered
  <2>9. ViewsHaveOwners'
    <3>1. view.is # "code"
      BY <2>1, LoadFacts
    <3>2. \A x : (\E k \in loads : k.at = "created" /\ k.run = x)
                <=> (\E k \in loads' : k.at = "created" /\ k.run = x) \/ x = run
      BY <2>1, LoadFacts
    <3> QED
      BY <2>2, <2>7, <3>1, <3>2, LoadFacts DEF ViewsHaveOwners
  <2> QED
    BY <2>3, <2>4, <2>5, <2>6, <2>8, <2>9, Owners DEF EditorInv
<1> QED
  BY <1>1, <1>2

-----------------------------------------------------------------------------
(* What the user does. *)

\* A view that reports its text, or leaves it unreported, keeps the invariant.
LEMMA InputKeeps ==
  ASSUME EditorInv, UNCHANGED inputVars, view' \in Views, view'.is = view.is, view'.scheme = view.scheme,
         fresh' \in Nat, fresh <= fresh', -fresh' <= view'.doc, view'.doc <= fresh',
         typed' \in BOOLEAN, skipped' \in BOOLEAN, CompositionIsTheUsers',
         \/ /\ value' = view'.doc /\ view'.reported = view'.doc /\ origin' \in {"user", "composed"}
         \/ /\ value' = value /\ view'.reported = view.reported /\ origin' = origin /\ skipped' = skipped
  PROVE  EditorInv'
<1>1. /\ UNCHANGED <<kind, attempt, props, due, latest, loads, run, runs, status, views>>
  BY DEF inputVars, codeVars
<1>2. view'.doc \in Int
  BY DEF Views
<1>3. PageTypes' /\ ViewTypes' /\ LoadTypes'
  BY <1>1, <1>2 DEF EditorInv, PageTypes, ViewTypes, LoadTypes
<1>4. value \in Int /\ props.value \in Int /\ latest.value \in Int /\ fresh \in Nat
  BY DEF EditorInv, PageTypes, ViewTypes, Values
<1>5. TextsAreOld'
  BY <1>1, <1>2, <1>4 DEF EditorInv, TextsAreOld, Old
<1>6. EffectsBring' /\ NoEcho'
  BY <1>1 DEF EditorInv, EffectsBring, Stays, NoEcho
<1>7. LoadsAreNumbered' /\ NoViewIsLeaked'
  BY <1>1 DEF EditorInv, LoadsAreNumbered, NoViewIsLeaked
<1> QED
  BY <1>3, <1>5, <1>6, <1>7 DEF EditorInv

\* A view in which the user works, when it reports its text.
LEMMA Reports ==
  ASSUME EditorInv, UNCHANGED inputVars, NEW v \in Views, NEW from \in {"user", "composed"}, Report(v, from),
         v.is = view.is, v.scheme = view.scheme,
         fresh' \in Nat, fresh <= fresh', -fresh' <= v.doc, v.doc <= fresh',
         v.is = "rich" => 0 <= v.doc, v.composing <=> (v.ime \/ v.frame),
         v.frame => v.is = "text" /\ ~v.ime, v.composing => v.is \in {"code", "text"}
  PROVE  EditorInv'
<1>1. /\ view' \in Views /\ view'.is = v.is /\ view'.scheme = v.scheme /\ view'.doc = v.doc
      /\ view'.reported = v.doc /\ view'.ime = v.ime /\ view'.composing = v.composing /\ view'.frame = v.frame
  BY DEF Report, Views
<1>2. value' = view'.doc /\ origin' = from /\ typed' = FALSE /\ skipped' = FALSE
  BY <1>1 DEF Report, onChange
<1>3. view'.doc = Shown(view'.is, view'.reported)
  BY <1>1 DEF Shown, Markdown, Views
<1>4. CompositionIsTheUsers'
  BY <1>1, <1>2, <1>3 DEF CompositionIsTheUsers, Shown, Markdown
<1> QED
  BY <1>1, <1>2, <1>4, InputKeeps

\* A view in which the user works, when it reports nothing.
LEMMA ReportsNothing ==
  ASSUME EditorInv, UNCHANGED inputVars, NEW v \in Views, view' = v, typed' \in BOOLEAN, skipped' = skipped, Silent,
         v.is = view.is, v.scheme = view.scheme, v.reported = view.reported,
         fresh' \in Nat, fresh <= fresh', -fresh' <= v.doc, v.doc <= fresh',
         v.composing <=> (v.ime \/ v.frame), typed' => v.composing,
         typed' \/ v.doc = Shown(v.is, v.reported),
         v.frame => v.is = "text" /\ ~v.ime, v.composing => v.is \in {"code", "text"}
  PROVE  EditorInv'
<1>1. value' = value /\ origin' = origin
  BY DEF Silent
<1>2. CompositionIsTheUsers'
  BY <1>1 DEF CompositionIsTheUsers, Shown, Markdown
<1>3. skipped' \in BOOLEAN
  BY Zenon DEF EditorInv, ViewTypes
<1> QED
  BY <1>1, <1>2, <1>3, InputKeeps

\* What the invariant says of the view.
LEMMA ViewFacts ==
  ASSUME EditorInv
  PROVE  /\ view \in Views /\ view.doc \in Int /\ fresh \in Nat /\ -fresh <= view.doc /\ view.doc <= fresh
         /\ view.composing <=> (view.ime \/ view.frame)
         /\ view.frame => view.is = "text" /\ ~view.ime
         /\ view.composing => view.is \in {"code", "text"}
         /\ typed => view.composing
         /\ typed \/ view.doc = Shown(view.is, view.reported)
         /\ typed \in BOOLEAN
  BY DEF EditorInv, ViewTypes, PageTypes, Views, TextsAreOld, Old, CompositionIsTheUsers

\* The user types.
LEMMA UserTypes ==
  ASSUME EditorInv, Type
  PROVE  EditorInv'
<1>1. PICK n \in Nat : n = fresh + 1
  BY ViewFacts
<1>2. PICK v : v = [view EXCEPT !.doc = n]
  OBVIOUS
<1>3. /\ v \in Views /\ v.is = view.is /\ v.scheme = view.scheme /\ v.doc = n /\ v.reported = view.reported
      /\ v.ime = view.ime /\ v.composing = view.composing /\ v.frame = view.frame
  BY <1>2, ViewFacts DEF Views
<1>4. fresh' = n /\ UNCHANGED inputVars /\ -n <= n /\ fresh <= n
  BY <1>1, ViewFacts DEF Type
<1>5. view.is \in {"code", "text", "rich"}
  BY DEF Type, Usable, EditorInv, PageTypes, Editors
<1>6. \/ Report(v, "user") \/ (view.composing /\ Unreported(v, TRUE))
      \/ Unreported(v, FALSE) /\ ~view.composing /\ v.doc = v.reported /\ view.is # "rich"
  BY <1>1, <1>2, <1>3, <1>5, ViewFacts DEF Type, Heard, notifyChange
<1>7. CASE Report(v, "user")
  BY <1>3, <1>4, <1>7, ViewFacts, Reports
<1>8. CASE view.composing /\ Unreported(v, TRUE)
  <2>1. v.composing /\ (v.ime \/ v.frame) /\ (v.frame => v.is = "text" /\ ~v.ime) /\ v.is \in {"code", "text"}
    BY <1>3, <1>8, ViewFacts
  <2>2. view' = v /\ typed' = TRUE /\ skipped' = skipped /\ Silent
    BY <1>8 DEF Unreported
  <2>3. typed' \in BOOLEAN
    BY <2>2, Zenon
  <2> QED
    BY <1>1, <1>3, <1>4, <2>1, <2>2, <2>3, ReportsNothing
<1>9. CASE Unreported(v, FALSE) /\ ~view.composing /\ v.doc = v.reported /\ view.is # "rich"
  <2>1. v.doc = Shown(v.is, v.reported)
    BY <1>3, <1>9 DEF Shown
  <2>2. view' = v /\ typed' = FALSE /\ skipped' = skipped /\ Silent
    BY <1>9 DEF Unreported
  <2>3. typed' \in BOOLEAN
    BY <2>2, Zenon
  <2> QED
    BY <1>1, <1>3, <1>4, <2>1, <2>2, <2>3, ViewFacts, ReportsNothing
<1> QED
  BY <1>6, <1>7, <1>8, <1>9

\* The user begins to compose.
LEMMA UserBegins ==
  ASSUME EditorInv, beginComposition
  PROVE  EditorInv'
<1>1. view.is \in {"code", "text"}
  BY DEF beginComposition, Usable, EditorInv, PageTypes, Editors
<1>2. PICK v : v = [view EXCEPT !.ime = TRUE, !.composing = TRUE, !.frame = FALSE]
  OBVIOUS
<1>3. /\ v \in Views /\ v.is = view.is /\ v.scheme = view.scheme /\ v.doc = view.doc
      /\ v.reported = view.reported /\ v.ime = TRUE /\ v.composing = TRUE /\ v.frame = FALSE
  BY <1>2, ViewFacts DEF Views
<1>4. /\ view' = v /\ typed' = typed /\ skipped' = skipped /\ Silent
      /\ fresh' = fresh /\ UNCHANGED inputVars
  BY <1>2 DEF beginComposition, Silent, historyVars
<1> QED
  BY <1>1, <1>3, <1>4, ViewFacts, ReportsNothing

\* The composition ends: the code editor reports, the text editor waits.
LEMMA UserEnds ==
  ASSUME EditorInv, EndComposition
  PROVE  EditorInv'
<1>1. /\ view.ime /\ view.composing /\ ~view.frame /\ fresh' = fresh
      /\ UNCHANGED inputVars /\ view.is \in {"code", "text"}
  BY ViewFacts DEF EndComposition
<1>2. CASE view.is = "text"
  <2>1. PICK v : v = [view EXCEPT !.ime = FALSE, !.frame = TRUE]
    OBVIOUS
  <2>2. /\ v \in Views /\ v.is = view.is /\ v.scheme = view.scheme /\ v.doc = view.doc
        /\ v.reported = view.reported /\ v.ime = FALSE /\ v.composing = view.composing /\ v.frame = TRUE
    BY <2>1, ViewFacts DEF Views
  <2>3. view' = v /\ typed' = typed /\ skipped' = skipped /\ Silent
    BY <1>2, <2>1 DEF EndComposition, finishComposition, Unreported
  <2>4. v.composing /\ v.frame /\ ~v.ime
    BY <1>1, <2>2
  <2> QED
    BY <1>1, <1>2, <2>2, <2>3, <2>4, ViewFacts, ReportsNothing
<1>3. CASE view.is = "code"
  <2>1. PICK v : v = [view EXCEPT !.ime = FALSE, !.composing = FALSE]
    OBVIOUS
  <2>2. /\ v \in Views /\ v.is = view.is /\ v.scheme = view.scheme /\ v.doc = view.doc
        /\ v.ime = FALSE /\ v.composing = FALSE /\ v.frame = view.frame
    BY <2>1, ViewFacts DEF Views
  <2>3. Report(v, IF typed THEN "user" ELSE "composed")
    BY <1>3, <2>1 DEF EndComposition, compositionEnd
  <2> QED
    BY <1>1, <1>3, <2>2, <2>3, ViewFacts, Reports
<1> QED
  BY <1>1, <1>2, <1>3

\* The frame after it: the text editor reports what was composed.
LEMMA FrameEnds ==
  ASSUME EditorInv, compositionFrame
  PROVE  EditorInv'
<1>1. /\ view.frame /\ view.composing /\ ~view.ime /\ fresh' = fresh
      /\ UNCHANGED inputVars /\ view.is = "text"
  BY ViewFacts DEF compositionFrame
<1>2. PICK v : v = [view EXCEPT !.frame = FALSE, !.composing = FALSE]
  OBVIOUS
<1>3. /\ v \in Views /\ v.is = view.is /\ v.scheme = view.scheme /\ v.doc = view.doc
      /\ v.reported = view.reported /\ v.ime = view.ime /\ v.composing = FALSE /\ v.frame = FALSE
  BY <1>2, ViewFacts DEF Views
<1>4. \/ Report(v, "user")
      \/ Unreported(v, FALSE) /\ v.doc = v.reported
  <2>1. v.doc = v.reported \/ typed
    BY <1>1, <1>3, ViewFacts DEF Shown
  <2> QED
    BY <1>2, <2>1 DEF compositionFrame, FrameReports, notifyChange
<1>5. CASE Report(v, "user")
  BY <1>1, <1>3, <1>5, ViewFacts, Reports
<1>6. CASE Unreported(v, FALSE) /\ v.doc = v.reported
  <2>1. v.doc = Shown(v.is, v.reported)
    BY <1>1, <1>3, <1>6 DEF Shown
  <2>2. view' = v /\ typed' = FALSE /\ skipped' = skipped /\ Silent
    BY <1>6 DEF Unreported
  <2>3. typed' \in BOOLEAN
    BY <2>2, Zenon
  <2> QED
    BY <1>1, <1>3, <2>1, <2>2, <2>3, ViewFacts, ReportsNothing
<1> QED
  BY <1>4, <1>5, <1>6

-----------------------------------------------------------------------------
(* The results. *)

\* The page that starts satisfies the invariant of the editor.
LEMMA EditorStarts == Init => EditorInv
<1> SUFFICES ASSUME Init PROVE EditorInv
  OBVIOUS
<1>1. scheme \in Schemes
  BY ThemeStarts, HereAssumption DEF Init, ThemeInv, ThemeTypes, Schemes, scheme
<1>2. PageTypes
  BY <1>1 DEF Init, PageTypes, Wanted, Editors
<1>3. typed \in BOOLEAN /\ skipped \in BOOLEAN
  BY DEF Init
<1>4. ViewTypes /\ LoadTypes
  BY <1>1, <1>3, Nothing DEF Init, ViewTypes, LoadTypes, Values
<1>5. TextsAreOld
  BY Nothing DEF Init, TextsAreOld, Old, Wanted
<1>6. CompositionIsTheUsers
  <2>1. view.composing <=> (view.ime \/ view.frame)
    BY Nothing, Zenon DEF Init, NoView
  <2> QED
    BY <2>1, Nothing DEF Init, CompositionIsTheUsers, Shown, Markdown
<1>7. EffectsBring /\ LoadsAreNumbered /\ NoEcho
  BY DEF Init, EffectsBring, Stays, LoadsAreNumbered, NoEcho
<1>8. ViewsHaveOwners
  BY Nothing DEF Init, ViewsHaveOwners
<1> QED
  BY <1>2, <1>4, <1>5, <1>6, <1>7, <1>8, Owners DEF EditorInv

\* Every step keeps the invariant of the editor.
LEMMA EditorStays ==
  ASSUME EditorInv, ThemeInv, [Next]_vars
  PROVE  EditorInv'
<1>1. CASE UNCHANGED editorVars
  <2>1. PageTypes' /\ LoadTypes'
    BY <1>1 DEF EditorInv, PageTypes, LoadTypes, editorVars, codeVars
  <2> QED
    BY <1>1, <2>1, ViewUnchanged DEF editorVars, codeVars
<1>2. CASE ThemeStep
  BY <1>1, <1>2 DEF ThemeStep
<1>3. CASE Effects
  <2>1. CASE Stays
    BY <1>3, <2>1, Updates DEF Effects, Stays
  <2>2. CASE ~Stays
    BY <1>3, <2>2, Mounts DEF Effects, Stays
  <2> QED
    BY <2>1, <2>2
<1>4. CASE \E l \in loads : Imported(l) \/ Created(l) \/ Attached(l) \/ LoadFails(l)
  BY <1>4, Loading, LoadEnds
<1>5. CASE Replace \/ SwitchKind \/ LoadAgain \/ Commit
  BY <1>5, PageReplaces, PageAsks, PageCommits
<1>6. CASE Type \/ beginComposition \/ EndComposition \/ compositionFrame
  BY <1>6, UserTypes, UserBegins, UserEnds, FrameEnds
<1> QED
  BY <1>1, <1>2, <1>3, <1>4, <1>5, <1>6 DEF Next, vars

\* The invariant of the editor holds in every state.
THEOREM EditorInvariant == Spec => []EditorInv
  BY EditorStarts, EditorStays, ThemeInvariant, PTL DEF Spec

\* At rest the editor shows the text and the theme of its page: the value
\* effects, the load that reads latest.current and the reports bring the two
\* together (code-editor.tsx, text-editor.tsx, rich-markdown-editor.tsx).
THEOREM ShowsTheValue == Spec => []EditorShowsTheValue
<1>1. EditorInv => EditorShowsTheValue
  <2> SUFFICES ASSUME EditorInv, Settled
               PROVE  view.scheme = scheme /\ (skipped \/ view.doc = Shown(view.is, value))
    BY DEF EditorShowsTheValue
  <2>1. /\ due = {} /\ props.value = value /\ props.scheme = scheme /\ view.is # "none"
        /\ ~view.ime /\ ~view.frame
    BY DEF Settled, Wanted
  <2>2. view.scheme = scheme /\ (skipped \/ view.reported = value)
    BY <2>1 DEF EditorInv, EffectsBring, Stays
  <2>3. view.doc = Shown(view.is, view.reported)
    BY <2>1, ViewFacts
  <2> QED
    BY <2>2, <2>3
<1> QED
  BY <1>1, EditorInvariant, PTL

\* The text of the page is only replaced by the page, or by an edit the user
\* made after the view got its text (applyingExternalValue of the code and the
\* text editor, emitUpdate: false), save for the code editor's report at the end
\* of a composition that changed nothing (code-editor-runtime.ts:117-120).
THEOREM Echo == Spec => []NoEcho
<1>1. EditorInv => NoEcho
  BY DEF EditorInv
<1> QED
  BY <1>1, EditorInvariant, PTL

\* Monaco views that are not disposed are shown or about to be decided about
\* (the clean-up and the active flag of code-editor.tsx).
THEOREM ViewsDisposed == Spec => []NoViewIsLeaked
<1>1. EditorInv => NoViewIsLeaked
  BY DEF EditorInv
<1> QED
  BY <1>1, EditorInvariant, PTL

=============================================================================
