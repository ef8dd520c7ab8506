---------------------------- MODULE Preferences ----------------------------
(***************************************************************************)
(* The two remembered preferences of the page (frontend/src/lib/theme.ts,  *)
(* lib/i18n.tsx, components/ThemeToggle.tsx, LangToggle.tsx).  The         *)
(* language lives in one provider; every theme toggle that a screen mounts *)
(* reads the storage for itself.  The storage may be unavailable.          *)
(***************************************************************************)
CONSTANT PfNothing \* nothing stored

VARIABLES
    pfStore,   \* localStorage: does it work, and the two stored values
    pfTheme,   \* the document's theme
    pfToggle,  \* the mounted toggle's own idea of the theme
    pfLang,    \* the provider's language, the one outside React, the document's
    pfBroken   \* history: the storage failed since the page was loaded

pfVars == <<pfStore, pfTheme, pfToggle, pfLang, pfBroken>>

Themes == {"dark", "light"}
Langs == {"ru", "en"}

ASSUME PfAssumption == PfNothing \notin Themes \cup Langs

PfTypeOK ==
    /\ pfStore \in [works : BOOLEAN, theme : Themes \cup {PfNothing}, lang : Langs \cup {PfNothing}]
    /\ pfTheme \in Themes
    /\ pfToggle \in Themes
    /\ pfLang \in [provider : Langs, outside : Langs, document : Langs]
    /\ pfBroken \in BOOLEAN

\* getInitialTheme
PfStoredTheme(store) ==
    IF store.works /\ store.theme # PfNothing THEN store.theme ELSE "dark"

\* detect
PfStoredLang(store) ==
    IF store.works /\ store.lang # PfNothing THEN store.lang ELSE "ru"

\* applyTheme: the document, then the storage if it can.
PfApply(theme, store) ==
    /\ pfTheme' = theme
    /\ pfStore' = IF store.works THEN [store EXCEPT !.theme = theme] ELSE store

\* A bug for comparison: the language outside React keeps its default.
PfLangKept(l) == [pfLang EXCEPT !.provider = l, !.document = l]

\* One language everywhere.
PfLang(l) == [provider |-> l, outside |-> l, document |-> l]

PfInit ==
    /\ pfStore \in [works : BOOLEAN, theme : {PfNothing}, lang : {PfNothing}]
    /\ pfTheme = "dark"
    /\ pfToggle = "dark"
    /\ pfLang = [provider |-> "ru", outside |-> "ru", document |-> "ru"]
    /\ pfBroken = ~pfStore.works

\* The page is loaded: the saved theme is applied, and thereby saved.
PfLoad ==
    /\ PfApply(PfStoredTheme(pfStore), pfStore)
    /\ pfToggle' = PfStoredTheme(pfStore)
    /\ pfLang' = PfLang(PfStoredLang(pfStore))
    /\ pfBroken' = ~pfStore.works

\* Another screen mounts its own toggle.
PfMount ==
    /\ pfToggle' = PfStoredTheme(pfStore)
    /\ UNCHANGED <<pfStore, pfTheme, pfLang, pfBroken>>

\* A bug for comparison: the choice is not saved.
PfToggleThemeUnsaved ==
    LET next == CHOOSE t \in Themes : t # pfToggle IN
    /\ pfToggle' = next
    /\ pfTheme' = next
    /\ UNCHANGED <<pfStore, pfLang, pfBroken>>

PfToggleTheme ==
    LET next == CHOOSE t \in Themes : t # pfToggle IN
    /\ pfToggle' = next
    /\ PfApply(next, pfStore)
    /\ UNCHANGED <<pfLang, pfBroken>>

PfToggleLang ==
    LET next == CHOOSE l \in Langs : l # pfLang.provider IN
    /\ pfLang' = PfLang(next)
    /\ pfStore' = IF pfStore.works THEN [pfStore EXCEPT !.lang = next] ELSE pfStore
    /\ UNCHANGED <<pfTheme, pfToggle, pfBroken>>

\* The browser takes the storage away, or gives it back.
PfStorage ==
    /\ pfStore' = [pfStore EXCEPT !.works = ~@]
    /\ pfBroken' = TRUE
    /\ UNCHANGED <<pfTheme, pfToggle, pfLang>>

PfNext ==
    \/ PfLoad
    \/ PfMount
    \/ PfToggleTheme
    \/ PfToggleLang
    \/ PfStorage

PfSpec == PfInit /\ [][PfNext]_pfVars

----
(* Properties.                                                              *)

\* Whatever screens come and go, the page and its language agree with themselves and
\* with what the next visit will find, as long as the storage works: the toggle shows
\* the theme that is on, so that the next click changes it.
PfAgrees ==
    /\ pfLang.provider = pfLang.outside /\ pfLang.outside = pfLang.document
    /\ ~pfBroken => /\ pfToggle = pfTheme
                    /\ PfStoredTheme(pfStore) = pfTheme
                    /\ PfStoredLang(pfStore) = pfLang.provider
=============================================================================
