----------------------------- MODULE TaskServer -----------------------------
(***************************************************************************)
(* The task server of sshlib/sshlib.go (and its twin dgdb/bot2.go): keys   *)
(* and tasks are files of a home directory, edited while the server runs.  *)
(* Load reads them, builds a LoadState and, if everything parses,          *)
(* starts its schedule and makes it the running one.  main loads once at   *)
(* the start, and every session may call the task "load" again.            *)
(*                                                                         *)
(* Load holds the mutex mu from its first line to its return.  Sessions    *)
(* and the handler of public keys read "running" without it.               *)
(***************************************************************************)
EXTENDS Integers, Sequences

CONSTANTS
  Keys,
  Tasks,     \* names of task files
  BadTasks,  \* those that do not read, have no compiler or do not compile
  Sessions,
  Main,      \* the goroutine of Start
  MaxEdits,  \* bound: edits of the home directory
  MaxLoads,  \* bound: schedules that are made
  None

ASSUME TaskAssumption ==
  /\ BadTasks \subseteq Tasks
  /\ Main \notin Sessions
  /\ None \notin Sessions \cup {Main}
  /\ MaxEdits \in Nat
  /\ MaxLoads \in Nat

Loaders == Sessions \cup {Main}

VARIABLES
  up,        \* the process runs
  files,     \* history: the contents of the home directory, the last is now
  mu,        \* who holds the mutex
  pc,        \* loader -> where it is
  st,        \* loader -> the LoadState it builds
  running,   \* the LoadState in use
  made,      \* how many schedules were made
  schedules, \* those that are started and not stopped
  key,       \* session -> the key it signed in with
  asked,     \* history: loader -> the contents there were when it called Load
  shown      \* history: the latest contents a Load without errors was asked for

vars == <<up, files, mu, pc, st, running, made, schedules, key, asked, shown>>

Home == [keys : SUBSET Keys, tasks : SUBSET Tasks]
Now == Len(files)

\* at is the number of the contents the keys were read from.
State == [keys : SUBSET Keys, tasks : SUBSET Tasks, at : Nat, sched : Nat]
Blank == [keys |-> {}, tasks |-> {}, at |-> 0, sched |-> 0]
----------------------------------------------------------------------------
Init ==
  /\ up = TRUE
  /\ \E home \in Home : files = <<home>>
  /\ mu = None
  /\ pc = [p \in Loaders |-> IF p = Main THEN "wait" ELSE "idle"]
  /\ st = [p \in Loaders |-> Blank]
  /\ running = Blank
  /\ made = 0
  /\ schedules = {}
  /\ key = [s \in Sessions |-> None]
  /\ asked = [p \in Loaders |-> 1]
  /\ shown = 0

\* running is nil before the first Load.
IsRunning == running.at # 0

\* The users change the directory.
Edit ==
  /\ up
  /\ Now <= MaxEdits
  /\ \E home \in Home \ {files[Now]} : files' = Append(files, home)
  /\ UNCHANGED <<up, mu, pc, st, running, made, schedules, key, asked, shown>>

\* PublicKeyHandler.  The server listens when Start has loaded.
SignIn(s, k) ==
  /\ up
  /\ pc[Main] = "serve"
  /\ key[s] = None
  /\ k \in running.keys
  /\ key' = [key EXCEPT ![s] = k]
  /\ UNCHANGED <<up, files, mu, pc, st, running, made, schedules, asked, shown>>

\* The terminal of a session that waits for no task is closed.
SignOut(s) ==
  /\ up
  /\ key[s] # None
  /\ pc[s] = "idle"
  /\ key' = [key EXCEPT ![s] = None]
  /\ UNCHANGED <<up, files, mu, pc, st, running, made, schedules, asked, shown>>

\* An empty line has no first word: index out of range, in a goroutine that
\* recovers from nothing.
EmptyLine(s) ==
  /\ up
  /\ key[s] # None
  /\ pc[s] = "idle"
  /\ up' = FALSE
  /\ UNCHANGED <<files, mu, pc, st, running, made, schedules, key, asked, shown>>

\* A session calls the task "load", which every taskmap has.
Call(s) ==
  /\ up
  /\ key[s] # None
  /\ pc[s] = "idle"
  /\ pc' = [pc EXCEPT ![s] = "wait"]
  /\ asked' = [asked EXCEPT ![s] = Now]
  /\ UNCHANGED <<up, files, mu, st, running, made, schedules, key, shown>>

\* Mutant: the mutex is not taken.
EnterFree(p) ==
  /\ up
  /\ pc[p] = "wait"
  /\ mu' = p
  /\ pc' = [pc EXCEPT ![p] = "keys"]
  /\ UNCHANGED <<up, files, st, running, made, schedules, key, asked, shown>>

Enter(p) ==
  /\ up
  /\ pc[p] = "wait"
  /\ mu = None
  /\ mu' = p
  /\ pc' = [pc EXCEPT ![p] = "keys"]
  /\ UNCHANGED <<up, files, st, running, made, schedules, key, asked, shown>>

\* Mutant: the mutex stays locked when Load returns errors.
FailLocked(p) ==
  /\ pc' = [pc EXCEPT ![p] = "idle"]
  /\ up' = (p # Main)
  /\ UNCHANGED <<files, mu, st, running, made, schedules, key, asked, shown>>

\* Load returns errors: Start ends the process, a session prints them.
Fail(p) ==
  /\ mu' = None
  /\ pc' = [pc EXCEPT ![p] = "idle"]
  /\ up' = (p # Main)
  /\ UNCHANGED <<files, st, running, made, schedules, key, asked, shown>>

\* The directory "keys".  A file that cannot be read or parsed is skipped, a
\* directory that cannot be read is an error.
ReadKeys(p) ==
  /\ up
  /\ pc[p] = "keys"
  /\ \/ \E keys \in SUBSET files[Now].keys :
          /\ st' = [st EXCEPT ![p] = [Blank EXCEPT !.keys = keys, !.at = Now]]
          /\ pc' = [pc EXCEPT ![p] = "tasks"]
          /\ UNCHANGED <<up, files, mu, running, made, schedules, key, asked, shown>>
     \/ Fail(p)

\* Mutant: a task that does not compile is left out and the others are used.
ReadTasksLenient(p) ==
  /\ up
  /\ pc[p] = "tasks"
  /\ \/ /\ made < MaxLoads
        /\ st' = [st EXCEPT ![p].tasks = files[Now].tasks, ![p].sched = made + 1]
        /\ made' = made + 1
        /\ schedules' = schedules \cup {made + 1}
        /\ pc' = [pc EXCEPT ![p] = "stop"]
        /\ UNCHANGED <<up, files, mu, running, key, asked, shown>>
     \/ Fail(p)

\* The directories "schema" and "task".  If no file has an error, the schedule
\* made of the tasks is started; else nothing of it is used.
ReadTasks(p) ==
  /\ up
  /\ pc[p] = "tasks"
  /\ \/ /\ files[Now].tasks \cap BadTasks = {}
        /\ made < MaxLoads
        /\ st' = [st EXCEPT ![p].tasks = files[Now].tasks, ![p].sched = made + 1]
        /\ made' = made + 1
        /\ schedules' = schedules \cup {made + 1}
        /\ pc' = [pc EXCEPT ![p] = "stop"]
        /\ UNCHANGED <<up, files, mu, running, key, asked, shown>>
     \/ Fail(p)

\* running.sched.Stop().  The sched of a LoadState is the empty Scheduler it was
\* built with, never the one that was started: Stop has nothing to stop, or
\* fails on a Scheduler that NewScheduler did not make.
StopOld(p) ==
  /\ up
  /\ pc[p] = "stop"
  /\ pc' = [pc EXCEPT ![p] = "swap"]
  /\ up' \in {TRUE, ~IsRunning}
  /\ UNCHANGED <<files, mu, st, running, made, schedules, key, asked, shown>>

\* running = st, and Load returns.
Swap(p) ==
  /\ up
  /\ pc[p] = "swap"
  /\ running' = st[p]
  /\ mu' = None
  /\ pc' = [pc EXCEPT ![p] = IF p = Main THEN "serve" ELSE "idle"]
  /\ shown' = IF asked[p] > shown THEN asked[p] ELSE shown
  /\ UNCHANGED <<up, files, st, made, schedules, key, asked>>

\* The process is interrupted.
Interrupt ==
  /\ up
  /\ pc[Main] = "serve"
  /\ up' = FALSE
  /\ UNCHANGED <<files, mu, pc, st, running, made, schedules, key, asked, shown>>
----------------------------------------------------------------------------
Load(p) == ReadKeys(p) \/ ReadTasks(p) \/ StopOld(p) \/ Swap(p)

Next ==
  \/ \E p \in Loaders : Enter(p) \/ Load(p)
  \/ \E s \in Sessions : \/ \E k \in Keys : SignIn(s, k)
                         \/ SignOut(s) \/ EmptyLine(s) \/ Call(s)
  \/ Edit
  \/ Interrupt

Spec == Init /\ [][Next]_vars

(* Goroutines run, and a mutex of Go is handed to the one that waits.       *)
Fairness == \A p \in Loaders : SF_vars(Enter(p)) /\ WF_vars(Load(p))

FairSpec == Spec /\ Fairness
----------------------------------------------------------------------------
Inside == {"keys", "tasks", "stop", "swap"}

\* The types of the variables; the mutex is held by the loader that is inside.
TypeOK ==
  /\ up \in BOOLEAN
  /\ files \in Seq(Home) /\ files # <<>>
  /\ mu \in Loaders \cup {None}
  /\ pc \in [Loaders -> {"idle", "wait", "keys", "tasks", "stop", "swap", "serve"}]
  /\ st \in [Loaders -> State]
  /\ running \in State
  /\ made \in 0..MaxLoads
  /\ schedules \in SUBSET (1..made)
  /\ key \in [Sessions -> Keys \cup {None}]
  /\ asked \in [Loaders -> 1..Now]
  /\ shown \in 0..Now
  /\ \A p \in Loaders : pc[p] \in Inside <=> mu = p

\* When a Load has returned without errors, the keys that sign in are keys the
\* home directory had after that Load was called, or later: a session whose
\* reading took longer never brings back an older state.
LoadsShowEdits ==
  IsRunning => shown <= running.at /\ running.keys \subseteq files[running.at].keys

\* "start if everything parses": the running state holds no task with an error,
\* and every schedule but that of a Load about to end was once running.
OnlyParsedStates ==
  /\ running.tasks \cap BadTasks = {}
  /\ \A i \in schedules : i <= running.sched \/ (mu # None /\ st[mu].sched = i)

\* A session that calls "load" gets an answer, if the process goes on and
\* schedules are within the bound.
LoadsReturn ==
  \A s \in Sessions : pc[s] = "wait" ~> pc[s] = "idle" \/ ~up

\* "start running a new schedule; old one will finish then stop."
OldScheduleStops ==
  [][running'.sched > running.sched => running.sched \notin schedules']_vars
============================================================================
