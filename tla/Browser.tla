------------------------------ MODULE Browser ------------------------------
(***************************************************************************)
(* What a page of the app has in it: its frame (Shell), its language       *)
(* (Locale), its post form (Toast) and its sign-in (Passkey).  They share  *)
(* no state, so that a step of one leaves the others alone; a behaviour    *)
(* follows the user of one of them, part, through all that can happen to   *)
(* it.  Passkey is extended, so that its theorems name the properties that *)
(* are checked here; the others are instances.                             *)
(***************************************************************************)
EXTENDS Passkey

CONSTANTS
  Parts,                          \* the parts a behaviour may follow
  Timeout, OnAppear, MaxToggles,  \* of Toast
  Pages, Languages, Others, Default, MaxVisits, \* of Locale
  Tools, Positions, MaxPresses, MaxClicks, MaxResizes \* of Shell

VARIABLES
  part,
  signal, toggles, due, stage, appeared, shouldMount, frames, timer, nextTimer, loading,
  where, url, visits, unseen, lc, global, tabGlobal, byL, by_,
  wide, mounted, desktop, tab, y, x, mount, mouse, down, drags, presses, clicks,
  resizes, fromWide

Form  == INSTANCE Toast
Lang  == INSTANCE Locale
Outer == INSTANCE Shell

ASSUME BrowserAssumption ==
  /\ Parts \subseteq {"login", "form", "locale", "shell"}
  /\ PasskeyAssumption /\ Form!ToastAssumption
  /\ Lang!LocaleAssumption /\ Outer!ShellAssumption

formVars   == <<signal, toggles, due, stage, appeared, shouldMount, frames, timer, nextTimer, loading>>
localeVars == <<where, url, visits, unseen, lc, global, tabGlobal, byL, by_>>
shellVars  == <<wide, mounted, desktop, tab, y, x, mount, mouse, down, drags, presses,
                clicks, resizes, fromWide>>

vars == <<part, pkVars, formVars, localeVars, shellVars>>
----------------------------------------------------------------------------
\* Where a part that is not followed starts makes no difference: in one place.
PageInit ==
  /\ part \in Parts
  /\ Init /\ Form!Init /\ Lang!Init /\ Outer!Init
  /\ part # "form"   => stage = "idle"
  /\ part # "locale" => url = [p \in Pages |-> Default]
  /\ part # "shell"  => wide /\ mouse = CHOOSE p \in Positions : TRUE

\* The parts that are not followed stand still.
InLogin  == part = "login"  /\ UNCHANGED <<part, formVars, localeVars, shellVars>>
InForm   == part = "form"   /\ UNCHANGED <<part, pkVars, localeVars, shellVars>>
InLocale == part = "locale" /\ UNCHANGED <<part, pkVars, formVars, shellVars>>
InShell  == part = "shell"  /\ UNCHANGED <<part, pkVars, formVars, localeVars>>

LoginStep  == InLogin /\ Next
FormStep   == InForm /\ Form!Next
LocaleStep == InLocale /\ Lang!Next
ShellStep  == InShell /\ Outer!Next

PageNext == LoginStep \/ FormStep \/ LocaleStep \/ ShellStep

(* Frames come, tasks that are due run, and what is rendered is rendered.   *)
Fairness ==
  /\ WF_vars(InForm /\ Form!Frame)
  /\ WF_vars(InForm /\ (Form!Enter \/ Form!Leave))
  /\ \A p \in Pages : /\ WF_vars(InLocale /\ Lang!Provide(p))
                      /\ WF_vars(InLocale /\ Lang!RenderL(p))

PageSpec == PageInit /\ [][PageNext]_vars /\ Fairness
----------------------------------------------------------------------------
\* The toast comes to rest as it was asked to: see Toast.
EndsAsAsked == part = "form" => Form!EndsAsAsked

\* The texts of L follow the url: see Locale.
LFollowsTheUrl == part = "locale" => Lang!LFollowsTheUrl

\* The panes of the frame are where the user wants them: see Shell.
PanesFit == Outer!PanesFit
============================================================================
