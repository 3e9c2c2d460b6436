------------------------------- MODULE Toast -------------------------------
(***************************************************************************)
(* The post form and its toast: PostForm of packages/ui/src/post/          *)
(* postform.tsx, and useCSSTransition of post/transition.tsx, which mounts *)
(* and unmounts an element around the animations of its classes.           *)
(*                                                                         *)
(* A signal tells whether the toast is wanted; a task follows the signal   *)
(* some time after it changed.  Timers are animation frames that ask for   *)
(* another frame until their time has passed.  The toast's own button, and *)
(* the call that adds a post, are commented out in the source: the user    *)
(* who closes the toast, and what adding a post comes to, are external.    *)
(***************************************************************************)
EXTENDS Integers, Sequences, FiniteSets, SequencesExt

CONSTANTS
  Timeout,     \* frames that the leaving animation takes
  OnAppear,    \* values of transitionOnAppear
  MaxToggles   \* bound: changes of the signal

\* What is assumed of the constants.
ToastAssumption ==
  Timeout \in Nat /\ OnAppear \subseteq BOOLEAN /\ MaxToggles \in Nat

VARIABLES
  signal,       \* toastVisible
  toggles,      \* how often it changed
  due,          \* the task has not seen the signal yet
  stage,        \* the classes of the element
  appeared, shouldMount,
  frames,       \* callbacks of requestAnimationFrame, in the order of the requests
  timer,        \* timer.value: the number of the timer that can be cleared, 0 if none
  nextTimer,
  loading       \* a post is on its way

toVars == <<signal, toggles, due, stage, appeared, shouldMount, frames, timer, nextTimer, loading>>
----------------------------------------------------------------------------
Init ==
  /\ signal = FALSE /\ toggles = 0 /\ due = TRUE
  /\ \E appear \in OnAppear : stage = IF appear THEN "enterFrom" ELSE "idle"
  /\ appeared = FALSE /\ shouldMount = FALSE
  /\ frames = <<>> /\ timer = 0 /\ nextTimer = 1
  /\ loading = FALSE

\* A timer: what it does, after how many frames, and how many it has seen.
Timer(id, do, wait) == [id |-> id, do |-> do, wait |-> wait, age |-> 0]

\* clearAnimationFrameTimeout: the timer's request, if it has one, is withdrawn.
Cleared(fs) == SelectSeq(fs, LAMBDA f : f.id # timer)

\* The form is submitted.
Submit ==
  /\ ~loading
  /\ loading' = TRUE
  /\ UNCHANGED <<signal, toggles, due, stage, appeared, shouldMount, frames, timer, nextTimer>>

Show(on) ==
  /\ signal # on /\ toggles < MaxToggles
  /\ signal' = on
  /\ toggles' = toggles + 1
  /\ due' = TRUE

\* The answer is an error: the toast shows it.
Fail ==
  /\ loading
  /\ loading' = FALSE
  /\ Show(TRUE) \/ (signal /\ UNCHANGED <<signal, toggles, due>>)
  /\ UNCHANGED <<stage, appeared, shouldMount, frames, timer, nextTimer>>

\* The post was added.
Posted ==
  /\ loading
  /\ loading' = FALSE
  /\ UNCHANGED <<signal, toggles, due, stage, appeared, shouldMount, frames, timer, nextTimer>>

\* The user closes the toast.
CloseToast ==
  /\ Show(FALSE)
  /\ UNCHANGED <<stage, appeared, shouldMount, frames, timer, nextTimer, loading>>

\* Mutant: the timers of the last run go on.
EnterKeepsTimers ==
  /\ due /\ signal
  /\ due' = FALSE
  /\ stage' = IF appeared THEN "enterFrom" ELSE stage
  /\ shouldMount' = TRUE /\ appeared' = TRUE
  /\ frames' = Append(frames, Timer(nextTimer, "enterTo", 0))
  /\ timer' = nextTimer
  /\ nextTimer' = nextTimer + 1
  /\ UNCHANGED <<signal, toggles, loading>>

\* handleStateChange, on: the element is mounted, and enters in the next frame.
Enter ==
  /\ due /\ signal
  /\ due' = FALSE
  /\ stage' = IF appeared THEN "enterFrom" ELSE stage
  /\ shouldMount' = TRUE /\ appeared' = TRUE
  /\ frames' = Append(Cleared(frames), Timer(nextTimer, "enterTo", 0))
  /\ timer' = nextTimer
  /\ nextTimer' = nextTimer + 1
  /\ UNCHANGED <<signal, toggles, loading>>

\* Off: it leaves in the next frame, by a timer that is not kept, and is
\* unmounted by one that is.
Leave ==
  /\ due /\ ~signal
  /\ due' = FALSE
  /\ IF shouldMount
     THEN /\ stage' = "leaveFrom"
          /\ frames' = Cleared(frames) \o <<Timer(nextTimer, "leaveTo", 0),
                                            Timer(nextTimer + 1, "unmount", Timeout)>>
          /\ timer' = nextTimer + 1
          /\ nextTimer' = nextTimer + 2
     ELSE frames' = Cleared(frames) /\ UNCHANGED <<stage, timer, nextTimer>>
  /\ UNCHANGED <<signal, toggles, appeared, shouldMount, loading>>

\* A frame runs the callbacks requested before it, in their order.  Its time may
\* not be past the start of the timers that were made last.
Frame ==
  /\ frames # <<>>
  /\ \E young \in BOOLEAN :
       LET aged  == [i \in DOMAIN frames |->
                      IF frames[i].age = 0 /\ young THEN frames[i]
                      ELSE [frames[i] EXCEPT !.age = @ + 1]]
           Ripe(f) == f.age > f.wait
           fired == SelectSeq(aged, Ripe)
           moved == SelectSeq(fired, LAMBDA f : f.do # "unmount")
       IN
       /\ young => \E i \in DOMAIN frames : frames[i].age = 0
       /\ frames' = SelectSeq(aged, LAMBDA f : ~Ripe(f))
       /\ stage' = IF moved = <<>> THEN stage ELSE Last(moved).do
       /\ shouldMount' = (shouldMount /\ \A i \in DOMAIN fired : fired[i].do # "unmount")
  /\ UNCHANGED <<signal, toggles, due, appeared, timer, nextTimer, loading>>
----------------------------------------------------------------------------
Next == Submit \/ Fail \/ Posted \/ CloseToast \/ Enter \/ Leave \/ Frame

Spec == Init /\ [][Next]_toVars
----------------------------------------------------------------------------
\* However often the toast is asked for and closed while it enters or leaves,
\* and though the timer that sets leaveTo is never cleared, the element comes
\* to rest as the signal says: in place, or unmounted and out of the way.
EndsAsAsked ==
  /\ <>[]signal  => <>[](shouldMount /\ stage = "enterTo")
  /\ <>[]~signal => <>[](~shouldMount /\ (appeared => stage = "leaveTo"))
============================================================================
