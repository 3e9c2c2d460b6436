SPECIFICATION PageSpec
CONSTANTS
  Parts = {"login", "form", "locale", "shell"}
  Watches = {w1, w2}
  Logins = {l1}
  Registers = {r1}
  Timeout = 2
  OnAppear = {TRUE, FALSE}
  MaxToggles = 5
  Pages = {p1, p2}
  Languages = {en, es}
  Others = {xx}
  Default = en
  MaxVisits = 2
  Tools = {"search"}
  Positions <- MCPositions
  MaxPresses = 2
  MaxClicks = 2
  MaxResizes = 1
  None = None
CHECK_DEADLOCK FALSE
INVARIANTS WaitsCanBeAborted CancelledSignsNobodyIn PanesFit
PROPERTIES EndsAsAsked LFollowsTheUrl
