-------------------------- MODULE TaskServerProofs --------------------------
(***************************************************************************)
(* Theorems about TaskServer, for any number of sessions, keys, tasks,     *)
(* edits and loads.                                                        *)
(*                                                                         *)
(* A Load that is inside read the directory after the running state was    *)
(* read, and after it was called; nobody else changes the running state    *)
(* until it is out.                                                        *)
(***************************************************************************)
EXTENDS TaskServer, SequenceTheorems, TLAPS

\* What a Load that has read its keys knows.
BuiltOK(p) ==
  /\ st[p].at \in 1..Now
  /\ asked[p] <= st[p].at
  /\ running.at <= st[p].at
  /\ st[p].keys \subseteq files[st[p].at].keys

ReadInv == \A p \in Loaders : pc[p] \in {"tasks", "stop", "swap"} => BuiltOK(p)

ParseInv ==
  \A p \in Loaders : pc[p] \in {"stop", "swap"} =>
    /\ st[p].tasks \cap BadTasks = {}
    /\ st[p].sched = made

\* The state in use has the last schedule, or the Load that made it is inside.
SchedInv == (\A p \in Loaders : pc[p] \notin {"stop", "swap"}) => running.sched = made

OlderInv == running.sched + 1 >= made /\ running.tasks \cap BadTasks = {}

RunningInv ==
  /\ running.at \in 0..Now
  /\ running.at = 0 => shown = 0
  /\ LoadsShowEdits

TaskInv == TypeOK /\ ReadInv /\ ParseInv /\ SchedInv /\ OlderInv /\ RunningInv
----------------------------------------------------------------------------
\* The directory only gets newer contents.
LEMMA EditFacts ==
  ASSUME TypeOK, Edit
  PROVE  /\ files' \in Seq(Home) /\ files' # <<>>
         /\ Now \in Nat /\ Now' = Now + 1
         /\ \A i \in 1..Now : files'[i] = files[i]
  <1>1. PICK home \in Home : files' = Append(files, home)
    BY DEF Edit
  <1>2. files \in Seq(Home) /\ Append(files, home) # <<>>
    BY DEF TypeOK
  <1> QED
    BY <1>1, <1>2, AppendProperties DEF Now

\* Every step keeps the types.
LEMMA TypeStep == TypeOK /\ [Next]_vars => TypeOK'
  <1> SUFFICES ASSUME TypeOK, [Next]_vars PROVE TypeOK'
    OBVIOUS
  <1>0. /\ files \in Seq(Home) /\ files # <<>> /\ Now \in Nat /\ Now >= 1
        /\ None \notin Loaders /\ Main \in Loaders /\ Sessions \subseteq Loaders
    BY TaskAssumption DEF TypeOK, Now, Loaders
  <1>h. files[Now] \in Home
    BY <1>0 DEF Now
  <1>1. CASE Edit
    <2>1. /\ files' \in Seq(Home) /\ files' # <<>> /\ Now' = Now + 1
          /\ UNCHANGED <<up, mu, pc, st, running, made, schedules, key, asked, shown>>
      BY <1>1, EditFacts DEF Edit
    <2>2. asked' \in [Loaders -> 1..Now'] /\ shown' \in 0..Now'
      BY <1>0, <2>1 DEF TypeOK
    <2> QED
      BY <2>1, <2>2 DEF TypeOK
  <1>2. ASSUME NEW s \in Sessions, NEW k \in Keys, SignIn(s, k) PROVE TypeOK'
    BY <1>2 DEF SignIn, TypeOK, Now
  <1>3. ASSUME NEW s \in Sessions, SignOut(s) \/ EmptyLine(s) PROVE TypeOK'
    BY <1>3 DEF SignOut, EmptyLine, TypeOK, Now
  <1>4. ASSUME NEW s \in Sessions, Call(s) PROVE TypeOK'
    <2>1. /\ pc[s] = "idle" /\ pc' = [pc EXCEPT ![s] = "wait"]
          /\ asked' = [asked EXCEPT ![s] = Now] /\ Now' = Now
          /\ UNCHANGED <<up, files, mu, st, running, made, schedules, key, shown>>
      BY <1>4 DEF Call, Now
    <2>2. asked' \in [Loaders -> 1..Now]
      BY <1>0, <2>1 DEF TypeOK
    <2>3. \A p \in Loaders : pc'[p] \in Inside <=> mu' = p
      BY <1>0, <2>1 DEF TypeOK, Inside
    <2> QED
      BY <1>0, <2>1, <2>2, <2>3 DEF TypeOK
  <1>5. ASSUME NEW p \in Loaders, Enter(p) PROVE TypeOK'
    <2>1. /\ pc[p] = "wait" /\ mu = None /\ mu' = p /\ pc' = [pc EXCEPT ![p] = "keys"]
          /\ UNCHANGED <<up, files, st, running, made, schedules, key, asked, shown>>
          /\ Now' = Now
      BY <1>5 DEF Enter, Now
    <2>2. \A q \in Loaders : pc'[q] \in Inside <=> mu' = q
      BY <1>0, <2>1 DEF TypeOK, Inside
    <2> QED
      BY <2>1, <2>2 DEF TypeOK
  <1>6. ASSUME NEW p \in Loaders, pc[p] \in Inside, Fail(p) PROVE TypeOK'
    <2>1. /\ mu' = None /\ pc' = [pc EXCEPT ![p] = "idle"] /\ up' \in BOOLEAN
          /\ UNCHANGED <<files, st, running, made, schedules, key, asked, shown>>
          /\ Now' = Now /\ mu = p
      BY <1>6 DEF Fail, Now, TypeOK
    <2>2. \A q \in Loaders : pc'[q] \in Inside <=> mu' = q
      BY <1>0, <2>1 DEF TypeOK, Inside
    <2> QED
      BY <2>1, <2>2 DEF TypeOK
  <1>7. ASSUME NEW p \in Loaders, ReadKeys(p) PROVE TypeOK'
    <2>1. CASE Fail(p)
      BY <1>6, <1>7, <2>1 DEF ReadKeys, Inside
    <2>2. CASE \E keys \in SUBSET files[Now].keys :
                 /\ st' = [st EXCEPT ![p] = [Blank EXCEPT !.keys = keys, !.at = Now]]
                 /\ pc' = [pc EXCEPT ![p] = "tasks"]
                 /\ UNCHANGED <<up, files, mu, running, made, schedules, key, asked, shown>>
      <3>1. PICK keys \in SUBSET files[Now].keys :
              /\ st' = [st EXCEPT ![p] = [Blank EXCEPT !.keys = keys, !.at = Now]]
              /\ pc' = [pc EXCEPT ![p] = "tasks"]
              /\ UNCHANGED <<up, files, mu, running, made, schedules, key, asked, shown>>
        BY <2>2
      <3>2. [Blank EXCEPT !.keys = keys, !.at = Now] \in State
        BY <1>0, <1>h DEF Blank, State, Home
      <3>3. st' \in [Loaders -> State]
        BY <3>1, <3>2 DEF TypeOK
      <3>4. \A q \in Loaders : pc'[q] \in Inside <=> mu' = q
        BY <1>7, <3>1 DEF TypeOK, Inside, ReadKeys
      <3> QED
        BY <3>1, <3>3, <3>4 DEF TypeOK, Now
    <2> QED
      BY <1>7, <2>1, <2>2 DEF ReadKeys
  <1>8. ASSUME NEW p \in Loaders, ReadTasks(p) PROVE TypeOK'
    <2>1. CASE Fail(p)
      BY <1>6, <1>8, <2>1 DEF ReadTasks, Inside
    <2>2. CASE ~Fail(p)
      <3>1. /\ pc[p] = "tasks" /\ made < MaxLoads
            /\ st' = [st EXCEPT ![p].tasks = files[Now].tasks, ![p].sched = made + 1]
            /\ made' = made + 1 /\ schedules' = schedules \cup {made + 1}
            /\ pc' = [pc EXCEPT ![p] = "stop"] /\ Now' = Now
            /\ UNCHANGED <<up, files, mu, running, key, asked, shown>>
        BY <1>8, <2>2 DEF ReadTasks, Now
      <3>2. made \in Nat /\ made' \in 0..MaxLoads /\ schedules' \in SUBSET (1..made')
        BY <3>1, TaskAssumption DEF TypeOK
      <3>3. st' \in [Loaders -> State]
        <4>1. st[p] \in State /\ files[Now].tasks \in SUBSET Tasks /\ made + 1 \in Nat
          BY <1>h, <3>2 DEF TypeOK, Home
        <4>2. [st[p] EXCEPT !.tasks = files[Now].tasks, !.sched = made + 1] \in State
          BY <4>1 DEF State
        <4>3. st' = [st EXCEPT ![p] = [st[p] EXCEPT !.tasks = files[Now].tasks, !.sched = made + 1]]
          BY <3>1
        <4> QED
          BY <4>2, <4>3 DEF TypeOK
      <3>4. \A q \in Loaders : pc'[q] \in Inside <=> mu' = q
        BY <3>1 DEF TypeOK, Inside
      <3> QED
        BY <3>1, <3>2, <3>3, <3>4 DEF TypeOK
    <2> QED
      BY <2>1, <2>2
  <1>9. ASSUME NEW p \in Loaders, StopOld(p) PROVE TypeOK'
    <2>1. /\ pc[p] = "stop" /\ pc' = [pc EXCEPT ![p] = "swap"] /\ up' \in BOOLEAN
          /\ UNCHANGED <<files, mu, st, running, made, schedules, key, asked, shown>> /\ Now' = Now
      BY <1>9 DEF StopOld, Now
    <2>2. \A q \in Loaders : pc'[q] \in Inside <=> mu' = q
      BY <2>1 DEF TypeOK, Inside
    <2> QED
      BY <2>1, <2>2 DEF TypeOK
  <1>10. ASSUME NEW p \in Loaders, Swap(p) PROVE TypeOK'
    <2>1. /\ pc[p] = "swap" /\ mu' = None /\ running' = st[p]
          /\ pc' = [pc EXCEPT ![p] = IF p = Main THEN "serve" ELSE "idle"]
          /\ shown' = IF asked[p] > shown THEN asked[p] ELSE shown
          /\ UNCHANGED <<up, files, st, made, schedules, key, asked>> /\ Now' = Now
      BY <1>10 DEF Swap, Now
    <2>2. \A q \in Loaders : pc'[q] \in Inside <=> mu' = q
      BY <1>0, <2>1 DEF TypeOK, Inside
    <2>3. shown' \in 0..Now'
      BY <1>0, <2>1 DEF TypeOK
    <2>4. pc' \in [Loaders -> {"idle", "wait", "keys", "tasks", "stop", "swap", "serve"}]
      BY <2>1 DEF TypeOK
    <2> QED
      BY <2>1, <2>2, <2>3, <2>4 DEF TypeOK
  <1>11. CASE Interrupt \/ UNCHANGED vars
    BY <1>11 DEF Interrupt, vars, TypeOK, Now
  <1> QED
    BY <1>1, <1>2, <1>3, <1>4, <1>5, <1>7, <1>8, <1>9, <1>10, <1>11 DEF Next, Load
----------------------------------------------------------------------------
\* Only one Load is inside.
LEMMA OneInside ==
  ASSUME TypeOK, NEW p \in Loaders, NEW q \in Loaders, pc[p] \in Inside, pc[q] \in Inside
  PROVE  p = q
  BY DEF TypeOK

\* What the types say of the numbers.
LEMMA NumberFacts ==
  ASSUME TypeOK
  PROVE  /\ Now \in Nat /\ Now >= 1 /\ made \in Nat /\ shown \in Nat /\ shown <= Now
         /\ running.at \in Nat /\ running.sched \in Nat /\ running.keys \subseteq Keys
         /\ \A p \in Loaders : /\ st[p].at \in Nat /\ st[p].sched \in Nat
                               /\ asked[p] \in Nat /\ asked[p] >= 1 /\ asked[p] <= Now
  <1>1. Now \in Nat /\ Now >= 1
    BY DEF TypeOK, Now
  <1>2. /\ running \in State /\ made \in 0..MaxLoads /\ shown \in 0..Now
        /\ \A p \in Loaders : st[p] \in State /\ asked[p] \in 1..Now
    BY DEF TypeOK
  <1> QED
    BY <1>1, <1>2 DEF State

\* Steps that touch neither the states nor the directory.
LEMMA CalmStep ==
  ASSUME TaskInv, UNCHANGED <<files, st, running, made, shown>>,
         \A p \in Loaders : pc'[p] \in {"tasks", "stop", "swap"} =>
                              pc'[p] = pc[p] /\ asked'[p] = asked[p],
         \A p \in Loaders : pc[p] \in {"stop", "swap"} => pc'[p] = pc[p]
  PROVE  ReadInv' /\ ParseInv' /\ SchedInv' /\ OlderInv' /\ RunningInv'
  BY DEF TaskInv, ReadInv, BuiltOK, ParseInv, SchedInv, OlderInv, RunningInv, LoadsShowEdits,
         IsRunning, Now

\* A Load that is not inside, or ends with errors before it has a schedule.
LEMMA EarlyStep ==
  ASSUME TaskInv, NEW p \in Loaders, pc[p] \notin {"stop", "swap"}, NEW x, x \notin {"tasks", "stop", "swap"},
         pc' = [pc EXCEPT ![p] = x], UNCHANGED <<files, st, running, made, shown>>,
         asked' = asked \/ (pc[p] = "idle" /\ asked' = [asked EXCEPT ![p] = Now])
  PROVE  ReadInv' /\ ParseInv' /\ SchedInv' /\ OlderInv' /\ RunningInv'
  <1>1. pc \in [Loaders -> {"idle", "wait", "keys", "tasks", "stop", "swap", "serve"}]
        /\ asked \in [Loaders -> 1..Now]
    BY DEF TaskInv, TypeOK
  <1>2. \A q \in Loaders : q # p => pc'[q] = pc[q] /\ asked'[q] = asked[q]
    BY <1>1
  <1>3. pc'[p] = x
    BY <1>1
  <1> QED
    BY <1>2, <1>3, CalmStep

\* An edit adds contents, and the older ones stay what they were.
LEMMA EditKeeps ==
  ASSUME TaskInv, Edit
  PROVE  ReadInv' /\ ParseInv' /\ SchedInv' /\ OlderInv' /\ RunningInv'
  <1>0. /\ Now \in Nat /\ Now' = Now + 1 /\ \A i \in 1..Now : files'[i] = files[i]
        /\ UNCHANGED <<up, mu, pc, st, running, made, schedules, key, asked, shown>>
    BY EditFacts DEF TaskInv, Edit
  <1>1. TypeOK /\ ReadInv /\ ParseInv /\ SchedInv /\ OlderInv /\ RunningInv
    BY DEF TaskInv
  <1>2. ReadInv'
    BY <1>0, <1>1 DEF ReadInv, BuiltOK
  <1>3. ParseInv' /\ SchedInv' /\ OlderInv'
    BY <1>0, <1>1 DEF ParseInv, SchedInv, OlderInv
  <1>4. RunningInv'
    <2>1. running.at \in 0..Now' /\ (running.at = 0 => shown = 0)
      BY <1>0, <1>1 DEF RunningInv
    <2>2. ASSUME running.at # 0
          PROVE  shown <= running.at /\ running.keys \subseteq files'[running.at].keys
      <3>1. running.at \in 1..Now
        BY <1>0, <1>1, <2>2 DEF RunningInv
      <3> QED
        BY <1>0, <1>1, <2>2, <3>1 DEF RunningInv, LoadsShowEdits, IsRunning
    <2> QED
      BY <1>0, <2>1, <2>2 DEF RunningInv, LoadsShowEdits, IsRunning
  <1> QED
    BY <1>2, <1>3, <1>4

\* The keys are those of now, which is no earlier than the call and than all
\* that was read before.
LEMMA ReadKeysKeeps ==
  ASSUME TaskInv, NEW p \in Loaders, pc[p] = "keys", NEW keys \in SUBSET files[Now].keys,
         st' = [st EXCEPT ![p] = [Blank EXCEPT !.keys = keys, !.at = Now]],
         pc' = [pc EXCEPT ![p] = "tasks"],
         UNCHANGED <<up, files, mu, running, made, schedules, key, asked, shown>>
  PROVE  ReadInv' /\ ParseInv' /\ SchedInv' /\ OlderInv' /\ RunningInv'
  <1>0. TypeOK /\ ReadInv /\ ParseInv /\ SchedInv /\ OlderInv /\ RunningInv
    BY DEF TaskInv
  <1>1. /\ st \in [Loaders -> State]
        /\ pc \in [Loaders -> {"idle", "wait", "keys", "tasks", "stop", "swap", "serve"}]
    BY <1>0 DEF TypeOK
  <1>2. /\ st'[p].at = Now /\ st'[p].keys = keys /\ pc'[p] = "tasks" /\ Now' = Now
        /\ \A q \in Loaders : q # p => st'[q] = st[q] /\ pc'[q] = pc[q]
    BY <1>1 DEF Blank, Now
  <1>3. \A q \in Loaders : q # p => pc[q] \notin Inside
    BY <1>0, OneInside DEF Inside
  <1>4. ReadInv'
    <2>1. Now \in Nat /\ Now >= 1 /\ asked[p] <= Now /\ running.at <= Now
      BY <1>0, NumberFacts DEF RunningInv
    <2> QED
      BY <1>2, <1>3, <2>1 DEF ReadInv, BuiltOK, Inside
  <1>5. ParseInv' /\ SchedInv' /\ OlderInv' /\ RunningInv'
    BY <1>0, <1>2, <1>3 DEF ParseInv, SchedInv, OlderInv, RunningInv, LoadsShowEdits, IsRunning, Inside
  <1> QED
    BY <1>4, <1>5

\* Everything parsed, and the schedule is the last one made.
LEMMA ReadTasksKeeps ==
  ASSUME TaskInv, NEW p \in Loaders, pc[p] = "tasks",
         files[Now].tasks \cap BadTasks = {},
         st' = [st EXCEPT ![p].tasks = files[Now].tasks, ![p].sched = made + 1],
         made' = made + 1,
         pc' = [pc EXCEPT ![p] = "stop"],
         UNCHANGED <<files, running, asked, shown>>
  PROVE  ReadInv' /\ ParseInv' /\ SchedInv' /\ OlderInv' /\ RunningInv'
  <1>0. TypeOK /\ ReadInv /\ ParseInv /\ SchedInv /\ OlderInv /\ RunningInv
    BY DEF TaskInv
  <1>1. /\ st \in [Loaders -> State]
        /\ pc \in [Loaders -> {"idle", "wait", "keys", "tasks", "stop", "swap", "serve"}]
    BY <1>0 DEF TypeOK
  <1>2. st' = [st EXCEPT ![p] = [st[p] EXCEPT !.tasks = files[Now].tasks, !.sched = made + 1]]
    OBVIOUS
  <1>3. st'[p] = [st[p] EXCEPT !.tasks = files[Now].tasks, !.sched = made + 1]
    BY <1>1, <1>2
  <1>4. /\ st'[p].at = st[p].at /\ st'[p].keys = st[p].keys /\ st'[p].sched = made + 1
        /\ st'[p].tasks = files[Now].tasks
    BY <1>1, <1>3 DEF State
  <1>5. /\ pc'[p] = "stop" /\ Now' = Now
        /\ \A q \in Loaders : q # p => st'[q] = st[q] /\ pc'[q] = pc[q]
    BY <1>1, <1>2 DEF Now
  <1>6. \A q \in Loaders : q # p => pc[q] \notin Inside
    BY <1>0, OneInside DEF Inside
  <1>7. ReadInv'
    <2>1. BuiltOK(p)
      BY <1>0 DEF ReadInv
    <2>2. BuiltOK(p)'
      BY <1>4, <1>5, <2>1 DEF BuiltOK
    <2>3. ASSUME NEW q \in Loaders, q # p PROVE pc'[q] \notin {"tasks", "stop", "swap"}
      BY <1>5, <1>6, <2>3 DEF Inside
    <2> QED
      BY <2>2, <2>3 DEF ReadInv
  <1>8. ParseInv' /\ SchedInv'
    BY <1>4, <1>5, <1>6 DEF ParseInv, SchedInv, Inside
  <1>9. OlderInv'
    <2>1. running.sched = made /\ made \in Nat
      BY <1>0, <1>6, NumberFacts DEF SchedInv, Inside
    <2> QED
      BY <1>0, <2>1 DEF OlderInv
  <1>10. RunningInv'
    BY <1>0, <1>5 DEF RunningInv, LoadsShowEdits, IsRunning
  <1> QED
    BY <1>7, <1>8, <1>9, <1>10

\* The state that was built becomes the running one.
LEMMA SwapKeeps ==
  ASSUME TaskInv, NEW p \in Loaders, Swap(p)
  PROVE  ReadInv' /\ ParseInv' /\ SchedInv' /\ OlderInv' /\ RunningInv'
  <1>0. TypeOK /\ ReadInv /\ ParseInv /\ SchedInv /\ OlderInv /\ RunningInv
    BY DEF TaskInv
  <1>1. /\ pc[p] = "swap" /\ running' = st[p]
        /\ pc' = [pc EXCEPT ![p] = IF p = Main THEN "serve" ELSE "idle"]
        /\ shown' = IF asked[p] > shown THEN asked[p] ELSE shown
        /\ UNCHANGED <<up, files, st, made, schedules, key, asked>> /\ Now' = Now
    BY DEF Swap, Now
  <1>2. \A q \in Loaders : pc'[q] \notin Inside
    <2>1. pc \in [Loaders -> {"idle", "wait", "keys", "tasks", "stop", "swap", "serve"}]
      BY <1>0 DEF TypeOK
    <2>2. pc'[p] \notin Inside
      BY <1>1, <2>1 DEF Inside
    <2>3. \A q \in Loaders : q # p => pc'[q] = pc[q] /\ pc[q] \notin Inside
      BY <1>0, <1>1, <2>1, OneInside DEF Inside
    <2> QED
      BY <2>2, <2>3
  <1>3. BuiltOK(p) /\ st[p].tasks \cap BadTasks = {} /\ st[p].sched = made
    BY <1>0, <1>1 DEF ReadInv, ParseInv
  <1>4. ReadInv' /\ ParseInv'
    BY <1>2 DEF ReadInv, ParseInv, Inside
  <1>5. SchedInv' /\ OlderInv'
    BY <1>0, <1>1, <1>3, NumberFacts DEF SchedInv, OlderInv
  <1>6. RunningInv'
    <2>1. /\ st[p].at \in 1..Now /\ asked[p] <= st[p].at /\ running.at <= st[p].at
          /\ st[p].keys \subseteq files[st[p].at].keys
      BY <1>3 DEF BuiltOK
    <2>2. shown <= running.at
      BY <1>0 DEF RunningInv, LoadsShowEdits, IsRunning
    <2>3. shown' <= st[p].at
      BY <1>0, <1>1, <2>1, <2>2, NumberFacts
    <2>4. Now \in Nat /\ st[p].at \in 0..Now /\ st[p].at # 0
      BY <1>0, <2>1, NumberFacts
    <2> QED
      BY <1>1, <2>1, <2>3, <2>4 DEF RunningInv, LoadsShowEdits, IsRunning
  <1> QED
    BY <1>4, <1>5, <1>6

\* The invariant holds at the start.
LEMMA TaskInitial == Init => TaskInv
  <1> SUFFICES ASSUME Init PROVE TaskInv
    OBVIOUS
  <1>1. PICK home \in Home : files = <<home>>
    BY DEF Init
  <1>2. files \in Seq(Home) /\ files # <<>> /\ Now = 1
    BY <1>1 DEF Now
  <1>3. Blank \in State /\ Blank.at = 0 /\ Blank.sched = 0 /\ Blank.tasks = {}
    BY DEF Blank, State
  <1>4. TypeOK
    BY <1>2, <1>3, TaskAssumption DEF Init, TypeOK, Inside, Loaders
  <1>5. ReadInv /\ ParseInv
    BY DEF Init, ReadInv, ParseInv
  <1>6. SchedInv /\ OlderInv /\ RunningInv
    BY <1>2, <1>3 DEF Init, SchedInv, OlderInv, RunningInv, LoadsShowEdits, IsRunning
  <1> QED
    BY <1>4, <1>5, <1>6 DEF TaskInv

\* Every step keeps it.
LEMMA TaskStep == TaskInv /\ [Next]_vars => TaskInv'
  <1> DEFINE Rest == ReadInv' /\ ParseInv' /\ SchedInv' /\ OlderInv' /\ RunningInv'
  <1> SUFFICES ASSUME TaskInv, [Next]_vars PROVE Rest
    BY TypeStep DEF TaskInv
  <1>0. Sessions \subseteq Loaders
    BY DEF Loaders
  <1>1. ASSUME NEW s \in Sessions, NEW k \in Keys, SignIn(s, k) PROVE Rest
    BY <1>1, CalmStep DEF SignIn
  <1>2. ASSUME NEW s \in Sessions, SignOut(s) \/ EmptyLine(s) PROVE Rest
    BY <1>2, CalmStep DEF SignOut, EmptyLine
  <1>3. ASSUME NEW s \in Sessions, Call(s) PROVE Rest
    BY <1>0, <1>3, EarlyStep DEF Call
  <1>4. ASSUME NEW p \in Loaders, Enter(p) PROVE Rest
    BY <1>4, EarlyStep DEF Enter
  <1>5. ASSUME NEW p \in Loaders, pc[p] \notin {"stop", "swap"}, Fail(p) PROVE Rest
    BY <1>5, EarlyStep DEF Fail
  <1>6. ASSUME NEW p \in Loaders, ReadKeys(p) PROVE Rest
    BY <1>5, <1>6, ReadKeysKeeps DEF ReadKeys
  <1>7. ASSUME NEW p \in Loaders, ReadTasks(p) PROVE Rest
    BY <1>5, <1>7, ReadTasksKeeps DEF ReadTasks
  <1>8. ASSUME NEW p \in Loaders, StopOld(p) PROVE Rest
    <2>1. /\ pc[p] = "stop" /\ pc' = [pc EXCEPT ![p] = "swap"]
          /\ UNCHANGED <<files, mu, st, running, made, schedules, key, asked, shown>> /\ Now' = Now
      BY <1>8 DEF StopOld, Now
    <2>2. \A q \in Loaders : pc'[q] \in {"tasks", "stop", "swap"} <=> pc[q] \in {"tasks", "stop", "swap"}
      BY <2>1 DEF TaskInv, TypeOK
    <2>3. \A q \in Loaders : pc'[q] \in {"stop", "swap"} <=> pc[q] \in {"stop", "swap"}
      BY <2>1 DEF TaskInv, TypeOK
    <2> QED
      BY <2>1, <2>2, <2>3 DEF TaskInv, ReadInv, BuiltOK, ParseInv, SchedInv, OlderInv, RunningInv,
                             LoadsShowEdits, IsRunning
  <1>9. CASE Interrupt \/ UNCHANGED vars
    BY <1>9, CalmStep DEF Interrupt, vars
  <1> HIDE DEF Rest
  <1>10. ASSUME NEW p \in Loaders, Swap(p) PROVE Rest
    BY <1>10, SwapKeeps DEF Rest
  <1>11. CASE Edit
    BY <1>11, EditKeeps DEF Rest
  <1> QED
    BY <1>1, <1>2, <1>3, <1>4, <1>6, <1>7, <1>8, <1>9, <1>10, <1>11 DEF Next, Load

\* In every state of every behaviour: what is inside was read after the call
\* and after what is in use.
THEOREM Invariance == Spec => []TaskInv
  BY TaskInitial, TaskStep, PTL DEF Spec

\* The variables keep their types, and the mutex is held by the one loader that
\* is inside Load.
THEOREM TypeCorrect == Spec => []TypeOK
  <1>1. TaskInv => TypeOK
    BY DEF TaskInv
  <1> QED
    BY <1>1, Invariance, PTL

\* A Load without errors shows the directory as it was when it was called or
\* later, whatever other Loads and edits go on (Load, sshlib.go:81-217).
THEOREM Fresh == Spec => []LoadsShowEdits
  <1>1. TaskInv => LoadsShowEdits
    BY DEF TaskInv, RunningInv
  <1> QED
    BY <1>1, Invariance, PTL

\* No state with an error is ever in use, and schedules are started only for
\* states that are or come into use.
THEOREM Parsed == Spec => []OnlyParsedStates
  <1>1. TaskInv => OnlyParsedStates
    <2> SUFFICES ASSUME TaskInv PROVE OnlyParsedStates
      OBVIOUS
    <2>0. TypeOK /\ ParseInv /\ SchedInv /\ OlderInv
      BY DEF TaskInv
    <2>1. ASSUME NEW i \in schedules, ~(i <= running.sched) PROVE mu # None /\ st[mu].sched = i
      <3>1. i \in Nat /\ i <= made /\ made \in Nat /\ running.sched \in Nat
        BY <2>0, NumberFacts DEF TypeOK
      <3>2. i = made /\ running.sched # made
        BY <2>0, <2>1, <3>1 DEF OlderInv
      <3>3. PICK p \in Loaders : pc[p] \in {"stop", "swap"}
        BY <2>0, <3>2 DEF SchedInv
      <3>4. mu = p /\ st[p].sched = made
        BY <2>0, <3>3 DEF TypeOK, Inside, ParseInv
      <3> QED
        BY <3>2, <3>4, TaskAssumption DEF Loaders
    <2> QED
      BY <2>0, <2>1 DEF OlderInv, OnlyParsedStates
  <1> QED
    BY <1>1, Invariance, PTL
============================================================================
