----------------------------- MODULE MCBrowser -----------------------------
(* Instances of Browser.  The left pane starts at 280 pixels and the bottom *)
(* one at 46, a tool opens it to 400: the positions are above and below.    *)
EXTENDS Browser, TLC

MCPositions == {100, 300, 600}
============================================================================
