------------------------------- MODULE Shell -------------------------------
(***************************************************************************)
(* The frame around the pages of the app: PageTool of                      *)
(* packages/ui/src/dg/layout.tsx, which shows a wide window as Desktop and *)
(* a narrow one as Mobile, the tools that open in it, and the panes the    *)
(* user drags; with the store that the route of dghome makes for it.  The  *)
(* field mobile of the store, which shows a button to close the tool of a  *)
(* narrow window, is set by nothing, and neither is here.                  *)
(*                                                                         *)
(* The handler of a press is loaded when it is first wanted, so it runs    *)
(* some time after the press; it adds its listeners to the window, even if *)
(* the button was let go in between, and then they stay until the next     *)
(* time.  Positions are those of the mouse, on the axis that matters.      *)
(***************************************************************************)
EXTENDS Integers

CONSTANTS
  Tools,       \* names of the tools
  Positions,   \* where the mouse may be
  MaxPresses,  \* bounds: presses on a border, presses on a tool, other widths
  MaxClicks,   \* of the window
  MaxResizes

\* What is assumed of the constants.
ShellAssumption ==
  /\ Positions \subseteq Nat /\ "" \notin Tools
  /\ {MaxPresses, MaxClicks, MaxResizes} \subseteq Nat

VARIABLES
  wide,      \* window.innerWidth > 640
  mounted,   \* the visible task of PageTool has run
  desktop, tab, y,
  x,         \* width of the left pane
  mount,     \* history: how often Desktop was shown
  mouse, down,
  drags,     \* presses on a border that still listen, or will: the number of the press,
             \* the border, where the mouse was, the size of the pane and the Desktop
             \* then (history), and once the handler has run (on) what it keeps (start)
  presses, clicks, resizes,
  fromWide   \* history: the tool was opened on Desktop, and its pane neither raised nor moved

shVars == <<wide, mounted, desktop, tab, y, x, mount, mouse, down, drags,
            presses, clicks, resizes, fromWide>>

Low == 46
LeftWidth == 280

----------------------------------------------------------------------------
\* The store of the route, and the first values of the signals.
Init ==
  /\ wide \in BOOLEAN /\ mounted = FALSE /\ desktop = TRUE
  /\ tab = "" /\ y = Low
  /\ x = LeftWidth /\ mount = 0
  /\ mouse \in Positions /\ down = FALSE
  /\ drags = {}
  /\ presses = 0 /\ clicks = 0 /\ resizes = 0
  /\ fromWide = FALSE

\* update: what it shows is Desktop with a new left pane, or Mobile.
Update(w) ==
  /\ desktop' = w
  /\ IF w /\ ~desktop THEN x' = LeftWidth /\ mount' = mount + 1 ELSE UNCHANGED <<x, mount>>

\* The visible task of PageTool.
Mount ==
  /\ ~mounted
  /\ mounted' = TRUE
  /\ Update(wide)
  /\ UNCHANGED <<wide, tab, y, mouse, down, drags, presses, clicks, resizes, fromWide>>

Resize ==
  /\ resizes < MaxResizes
  /\ resizes' = resizes + 1
  /\ wide' = ~wide
  /\ IF mounted THEN Update(wide') ELSE UNCHANGED <<desktop, x, mount>>
  /\ UNCHANGED <<mounted, tab, y, mouse, down, drags, presses, clicks, fromWide>>

\* What is on the screen: the left pane of Desktop, the rail of Mobile.
LeftPane == desktop /\ tab # ""
Rail     == ~desktop /\ tab = ""

Click == clicks < MaxClicks /\ clicks' = clicks + 1

\* toggle of Desktop.
Toggle(t) ==
  /\ Click /\ desktop
  /\ tab' = IF t = tab THEN "" ELSE t
  /\ fromWide' = (tab' # "")
  /\ UNCHANGED <<wide, mounted, desktop, y, x, mount, mouse, down, drags, presses, resizes>>

\* Mutant: the pane keeps the height it has.
OpenKeepsHeight(t) ==
  /\ Click /\ Rail
  /\ tab' = t
  /\ fromWide' = FALSE
  /\ UNCHANGED <<wide, mounted, desktop, y, x, mount, mouse, down, drags, presses, resizes>>

\* toggle of Mobile.
Open(t) ==
  /\ Click /\ Rail
  /\ tab' = t
  /\ y' = IF y < 400 THEN 400 ELSE y
  /\ fromWide' = FALSE
  /\ UNCHANGED <<wide, mounted, desktop, x, mount, mouse, down, drags, presses, resizes>>

\* The button to sign in of a page that needs it, on either layout.
SignIn ==
  /\ Click
  /\ tab' = "signin"
  /\ y' = 400
  /\ fromWide' = FALSE
  /\ UNCHANGED <<wide, mounted, desktop, x, mount, mouse, down, drags, presses, resizes>>

\* A press on the border of the left pane, or on the bottom pane.
Press(border) ==
  /\ ~down /\ presses < MaxPresses
  /\ (border = "left" /\ LeftPane) \/ (border = "bottom" /\ ~desktop)
  /\ presses' = presses + 1
  /\ down' = TRUE
  /\ drags' = drags \cup {[n |-> presses', border |-> border, mount |-> mount, from |-> mouse,
                           size |-> IF border = "left" THEN x ELSE y,
                           on |-> FALSE, start |-> 0, alone |-> drags = {}]}
  /\ UNCHANGED <<wide, mounted, desktop, tab, y, x, mount, mouse, clicks, resizes, fromWide>>

\* Mutant: the handler asks where the mouse is now.
StartNow(d) == IF d.border = "left" THEN mouse - x ELSE y + mouse

\* What leftSplit and bottomSplit keep: the place of the press against the size
\* the pane has when the handler runs.  The left pane is that of the press.
StartOf(d) == IF d.border = "left" THEN d.from - x ELSE y + d.from

\* leftSplit or bottomSplit runs, in the order of the presses: it listens from
\* now on.
Listen(d) ==
  /\ ~d.on
  /\ \A e \in drags : e.border = d.border /\ e.n < d.n => e.on
  /\ drags' = (drags \ {d}) \cup {[d EXCEPT !.on = TRUE, !.start = StartOf(d)]}
  /\ UNCHANGED <<wide, mounted, desktop, tab, y, x, mount, mouse, down, presses, clicks,
                 resizes, fromWide>>

Listening(border) == {d \in drags : d.border = border /\ d.on}

\* Of those that listen to a movement, the one that sets the pane last.
Latest(ds) == CHOOSE d \in ds : \A e \in ds : e.n <= d.n

\* mousemove: all that listen set their pane, so that the last one counts.  The
\* left pane of a Desktop that was taken away is not this one.
MoveTo(p) ==
  LET left   == {d \in Listening("left") : d.mount = mount}
      bottom == Listening("bottom")
      height == Latest(bottom).start - p
  IN
  /\ p # mouse
  /\ mouse' = p
  /\ x' = IF left = {} THEN x ELSE p - Latest(left).start
  /\ y' = IF bottom = {} THEN y ELSE IF height < 64 THEN 64 ELSE height
  /\ fromWide' = (fromWide /\ bottom = {})
  /\ UNCHANGED <<wide, mounted, desktop, tab, mount, down, drags, presses, clicks, resizes>>

\* mouseup: all that listen stop.  What is not loaded yet misses it.
Release ==
  /\ down
  /\ down' = FALSE
  /\ drags' = {d \in drags : ~d.on}
  /\ UNCHANGED <<wide, mounted, desktop, tab, y, x, mount, mouse, presses, clicks, resizes,
                 fromWide>>
----------------------------------------------------------------------------
Next ==
  \/ Mount \/ Resize \/ Release \/ SignIn
  \/ \E t \in Tools : Toggle(t) \/ Open(t)
  \/ \E border \in {"left", "bottom"} : Press(border)
  \/ \E d \in drags : Listen(d)
  \/ \E p \in Positions : MoveTo(p)

Spec == Init /\ [][Next]_shVars
----------------------------------------------------------------------------
\* On a narrow window a tool that is open can be seen: its pane has at least 64
\* pixels, whatever was dragged, resized and opened before, unless it was
\* opened on a wide one.
OpenToolIsTall == ~desktop /\ tab # "" /\ ~fromWide => y >= 64

\* The border of the left pane is under the mouse as it was when the user pressed
\* it, or where it was then, however late the handler is and wherever the mouse
\* has gone meanwhile, as long as no other press on it listens.
EdgeFollowsMouse ==
  \A d \in drags :
    d.border = "left" /\ d.mount = mount /\ d.alone /\ Listening("left") \subseteq {d} =>
      x = d.size \/ (d.on /\ x = d.size + mouse - d.from)

\* Both.
PanesFit == OpenToolIsTall /\ EdgeFollowsMouse
============================================================================
