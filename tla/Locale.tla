------------------------------- MODULE Locale -------------------------------
(***************************************************************************)
(* The language of pages: packages/ui/src/i18n/i18.tsx, on a server that   *)
(* renders several pages at a time and in the tabs that go on with them.   *)
(*                                                                         *)
(* LocaleProvider takes the language from the url.  It is in a context, of *)
(* the page, for the component L; and in a global, of the process, for _   *)
(* and $localize, which have no page to ask.  A tab goes on with what the  *)
(* server rendered: its own global is empty until its url changes.         *)
(***************************************************************************)
EXTENDS Integers, FiniteSets

CONSTANTS
  Pages,
  Languages,   \* languages with translations
  Others,      \* what else may stand first in a path
  Default,     \* "en"
  MaxVisits,   \* bound: urls a page has
  None

\* What is assumed of the constants.
LocaleAssumption ==
  /\ Default \in Languages /\ Languages \cap Others = {}
  /\ None \notin Languages /\ MaxVisits \in Nat

VARIABLES
  where,     \* page -> "asked", "rendering" (on the server), or "tab"
  url,       \* page -> the first part of its path
  visits,
  unseen,       \* page -> LocaleProvider has not seen the url yet
  lc,        \* page -> the language of its context, None before
  global,    \* __LOCALE of the server
  tabGlobal, \* page -> __LOCALE of its tab
  byL,       \* page -> language of a text of L, None if not rendered yet
  by_        \* page -> language of a text of _

loVars == <<where, url, visits, unseen, lc, global, tabGlobal, byL, by_>>

\* A language without translations becomes the default one.
Known(ln) == IF ln \in Languages THEN ln ELSE Default

\* getLocale.
Read(g) == IF g = None THEN Default ELSE g
----------------------------------------------------------------------------
Init ==
  /\ where = [p \in Pages |-> "asked"]
  /\ url \in [Pages -> Languages \cup Others]
  /\ visits = [p \in Pages |-> 1]
  /\ unseen = [p \in Pages |-> TRUE]
  /\ lc = [p \in Pages |-> None]
  /\ global = None
  /\ tabGlobal = [p \in Pages |-> None]
  /\ byL = [p \in Pages |-> None]
  /\ by_ = [p \in Pages |-> None]

\* The task of LocaleProvider, on the server or in the tab.
Provide(p) ==
  /\ unseen[p] /\ where[p] \in {"asked", "tab"}
  /\ unseen' = [unseen EXCEPT ![p] = FALSE]
  /\ lc' = [lc EXCEPT ![p] = Known(url[p])]
  /\ IF where[p] = "asked"
     THEN where' = [where EXCEPT ![p] = "rendering"] /\ global' = Known(url[p]) /\ UNCHANGED tabGlobal
     ELSE tabGlobal' = [tabGlobal EXCEPT ![p] = Known(url[p])] /\ UNCHANGED <<where, global>>
  /\ UNCHANGED <<url, visits, byL, by_>>

\* Mutant: L asks the global too.
LanguageOfGlobal(p) == Read(IF where[p] = "tab" THEN tabGlobal[p] ELSE global)

\* format for L, and for _ and $localize.
LanguageOfL(p) == lc[p]
LanguageOf_(p) == Read(IF where[p] = "tab" THEN tabGlobal[p] ELSE global)

\* L is rendered, and computed again when the language of the context changes.
RenderL(p) ==
  /\ where[p] \in {"rendering", "tab"}
  /\ byL[p] # LanguageOfL(p)
  /\ byL' = [byL EXCEPT ![p] = LanguageOfL(p)]
  /\ UNCHANGED <<where, url, visits, unseen, lc, global, tabGlobal, by_>>

\* A component with a text of _ is rendered, in the tab for any reason.
Render_(p) ==
  /\ where[p] \in {"rendering", "tab"}
  /\ by_' = [by_ EXCEPT ![p] = LanguageOf_(p)]
  /\ UNCHANGED <<where, url, visits, unseen, lc, global, tabGlobal, byL>>

\* The page is sent, with its context, and its tab goes on.
Resume(p) ==
  /\ where[p] = "rendering" /\ byL[p] # None /\ by_[p] # None
  /\ where' = [where EXCEPT ![p] = "tab"]
  /\ tabGlobal' = [tabGlobal EXCEPT ![p] = None]
  /\ UNCHANGED <<url, visits, unseen, lc, global, byL, by_>>

\* The user follows a link within the tab.
Navigate(p, ln) ==
  /\ where[p] = "tab" /\ visits[p] < MaxVisits /\ ln # url[p]
  /\ url' = [url EXCEPT ![p] = ln]
  /\ visits' = [visits EXCEPT ![p] = @ + 1]
  /\ unseen' = [unseen EXCEPT ![p] = TRUE]
  /\ UNCHANGED <<where, lc, global, tabGlobal, byL, by_>>

\* LanguageSelect: the same path in another language, loaded anew.
LanguageSelect(p, ln) ==
  /\ where[p] = "tab" /\ visits[p] < MaxVisits /\ ln # lc[p]
  /\ url' = [url EXCEPT ![p] = ln]
  /\ visits' = [visits EXCEPT ![p] = @ + 1]
  /\ unseen' = [unseen EXCEPT ![p] = TRUE]
  /\ where' = [where EXCEPT ![p] = "asked"]
  /\ lc' = [lc EXCEPT ![p] = None]
  /\ byL' = [byL EXCEPT ![p] = None]
  /\ by_' = [by_ EXCEPT ![p] = None]
  /\ UNCHANGED <<global, tabGlobal>>
----------------------------------------------------------------------------
Next ==
  \E p \in Pages :
    \/ Provide(p) \/ RenderL(p) \/ Render_(p) \/ Resume(p)
    \/ \E ln \in Languages \cup Others : Navigate(p, ln)
    \/ \E ln \in Languages : LanguageSelect(p, ln)

Spec == Init /\ [][Next]_loVars
----------------------------------------------------------------------------
\* Whatever other pages the server renders at the same time, and wherever the
\* tab goes next, the texts of L come to be in the language of the url.
LFollowsTheUrl ==
  \A p \in Pages, ln \in Languages \cup Others :
    <>[](url[p] = ln) => <>[](byL[p] = Known(ln))
============================================================================
