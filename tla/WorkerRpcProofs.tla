-------------------------- MODULE WorkerRpcProofs --------------------------
(***************************************************************************)
(* Theorems about WorkerRpc, for any number of tabs, calls and             *)
(* notifications and any api.                                              *)
(*                                                                         *)
(* A call has one trace at a time, all of it at the tab that made it: a    *)
(* message, a handler that runs, a reply.  While it has one, its number is *)
(* that of its promise there; what a handler produced is in the reply.     *)
(***************************************************************************)
EXTENDS WorkerRpc, SequenceTheorems, TLAPS

Promised(t, m) == [id |-> m.id, call |-> m.call] \in reply[t]

\* A message to the worker, or a handler that runs for one.
AsksFor(t, m) ==
  /\ caller[m.call] = t
  /\ IF m.call \in Calls THEN m.id # 0 /\ Promised(t, m) /\ produced[m.call] = None ELSE m.id = 0

\* A reply.
Replies(t, m) ==
  /\ caller[m.call] = t
  /\ IF m.call \in Calls THEN m.id # 0 /\ Promised(t, m) /\ produced[m.call] = m.outcome
     ELSE m.id = 0

QueueOK(t) ==
  /\ \A i \in DOMAIN toWorker[t] : AsksFor(t, toWorker[t][i])
  /\ \A i, j \in DOMAIN toWorker[t] :
       toWorker[t][i].call \in Calls /\ toWorker[t][i].call = toWorker[t][j].call => i = j
  /\ \A i \in DOMAIN toWorker[t], r \in running[t] :
       toWorker[t][i].call \in Calls => toWorker[t][i].call # r.call

RunsOK(t) ==
  /\ \A r \in running[t] : AsksFor(t, r)
  /\ \A r, s \in running[t] : r.call \in Calls /\ r.call = s.call => r = s

TabOK(t) ==
  /\ \A i \in DOMAIN toTab[t] : toTab[t][i].kind = "reply" => Replies(t, toTab[t][i])
  /\ \A i, j \in DOMAIN toTab[t] :
       (/\ toTab[t][i].kind = "reply" /\ toTab[t][j].kind = "reply"
        /\ toTab[t][i].call \in Calls /\ toTab[t][i].call = toTab[t][j].call) => i = j

TicketsOK(t) ==
  /\ \A p \in reply[t] : caller[p.call] = t /\ p.id < nextId[t] /\ value[p.call] = None
  /\ \A p, q \in reply[t] : p.id = q.id \/ p.call = q.call => p = q

TabInv(t) == QueueOK(t) /\ RunsOK(t) /\ TabOK(t) /\ TicketsOK(t)

\* A call that was not made has come to nothing.
FreshInv == \A c \in Calls : caller[c] = None => produced[c] = None /\ value[c] = None

\* The default log function is part of the api.
LogInv == (logPort # None => "log" \in api) /\ LogsReachTheirTab

WorkerInv == TypeOK /\ FreshInv /\ LogInv /\ \A t \in Tabs : TabInv(t)
----------------------------------------------------------------------------
(* Messages and ports.                                                      *)

LEMMA RecordFacts ==
  /\ DOMAIN Settled = {"value", "falsy", "error"}
  /\ \A o \in DOMAIN Settled : Settled[o] \in {"value", "rejected"} /\ o \in Outcomes
  /\ \A o \in Outcomes : o # "mute" => o \in DOMAIN Settled
  /\ \A m \in CallMsg : m.id \in Nat /\ m.method \in Methods /\ m.call \in Sent
  /\ \A r \in Run : r.id \in Nat /\ r.call \in Sent /\ r.outs \subseteq Outcomes
  /\ \A p \in Ticket : p.id \in Nat /\ p.call \in Calls /\ p = [id |-> p.id, call |-> p.call]
  /\ \A m \in TabMsg :
       /\ m.kind \in {"reply", "note"}
       /\ m.kind = "reply" => m.id \in Nat /\ m.call \in Sent /\ m.outcome \in DOMAIN Settled
  BY DEF Settled, Outcomes, CallMsg, Run, Ticket, TabMsg

LEMMA NoteFacts ==
  \A t \in Tabs, via \in {"context", "log"} :
    Note(t, via) \in TabMsg /\ Note(t, via).kind = "note" /\ Note(t, via).of = t /\ Note(t, via).via = via
  BY DEF Note, TabMsg

LEMMA ReplyFacts ==
  ASSUME NEW r, r.id \in Nat, r.call \in Sent, NEW o \in DOMAIN Settled
  PROVE  /\ ReplyOf(r, o) \in TabMsg /\ ReplyOf(r, o).kind = "reply" /\ ReplyOf(r, o).id = r.id
         /\ ReplyOf(r, o).call = r.call /\ ReplyOf(r, o).outcome = o
  BY DEF ReplyOf, TabMsg

\* The messages ms were added to wire t of w, which gave x, or none were.
Added(w, x, t, ms) ==
  /\ \A u \in Tabs : u # t => x[u] = w[u]
  /\ \A i \in DOMAIN x[t] :
       \/ i \in DOMAIN w[t] /\ x[t][i] = w[t][i]
       \/ \E k \in DOMAIN ms : i = Len(w[t]) + k /\ x[t][i] = ms[k]

\* What Post does to the wires.
LEMMA PostFacts ==
  ASSUME NEW S, NEW w \in [Tabs -> Seq(S)], NEW t \in Tabs, NEW ms \in Seq(S)
  PROVE  Post(w, t, ms) \in [Tabs -> Seq(S)] /\ Added(w, Post(w, t, ms), t, ms)
  <1>1. CASE port[t] = "gone"
    BY <1>1 DEF Post, Added
  <1>2. CASE port[t] # "gone"
    <2>1. Post(w, t, ms) = [w EXCEPT ![t] = w[t] \o ms]
      BY <1>2 DEF Post
    <2>2. w[t] \in Seq(S)
      OBVIOUS
    <2>3. /\ w[t] \o ms \in Seq(S) /\ Len(w[t] \o ms) = Len(w[t]) + Len(ms)
          /\ \A i \in 1 .. Len(w[t]) + Len(ms) :
               (w[t] \o ms)[i] = IF i <= Len(w[t]) THEN w[t][i] ELSE ms[i - Len(w[t])]
      BY <2>2, ConcatProperties
    <2>4. /\ Len(w[t]) \in Nat /\ Len(ms) \in Nat /\ DOMAIN w[t] = 1 .. Len(w[t]) /\ DOMAIN ms = 1 .. Len(ms)
          /\ DOMAIN (w[t] \o ms) = 1 .. Len(w[t] \o ms)
      BY <2>2, <2>3, LenProperties
    <2>5. Post(w, t, ms)[t] = w[t] \o ms /\ Post(w, t, ms) \in [Tabs -> Seq(S)]
      BY <2>1, <2>3
    <2>6. \A u \in Tabs : u # t => Post(w, t, ms)[u] = w[u]
      BY <2>1
    <2> DEFINE s == w[t] \o ms
               n == Len(w[t])
               k == Len(ms)
               v == w[t]
    <2>7. /\ DOMAIN s = 1 .. n + k /\ n \in Nat /\ k \in Nat /\ DOMAIN v = 1 .. n /\ DOMAIN ms = 1 .. k
          /\ \A i \in 1 .. n + k : s[i] = IF i <= n THEN v[i] ELSE ms[i - n]
      BY <2>3, <2>4
    <2> HIDE DEF s, n, k, v
    <2>9. ASSUME NEW i \in DOMAIN s
          PROVE  (i \in DOMAIN v /\ s[i] = v[i]) \/ \E j \in DOMAIN ms : i = n + j /\ s[i] = ms[j]
      <3>1. CASE i <= n
        BY <2>7, <3>1
      <3>2. CASE ~(i <= n)
        <4>1. i - n \in DOMAIN ms /\ i = n + (i - n) /\ s[i] = ms[i - n]
          BY <2>7, <3>2
        <4> QED
          BY <4>1
      <3> QED
        BY <3>1, <3>2
    <2> QED
      BY <2>5, <2>6, <2>9 DEF s, n, v, Added
  <1> QED
    BY <1>1, <1>2

\* What taking the first message of a wire does.
LEMMA TakeFacts ==
  ASSUME NEW S, NEW w \in [Tabs -> Seq(S)], NEW t \in Tabs, w[t] # <<>>
  PROVE  /\ [w EXCEPT ![t] = Tail(@)] \in [Tabs -> Seq(S)]
         /\ \A u \in Tabs : u # t => [w EXCEPT ![t] = Tail(@)][u] = w[u]
         /\ 1 \in DOMAIN w[t] /\ Head(w[t]) = w[t][1] /\ Head(w[t]) \in S
         /\ \A i \in DOMAIN [w EXCEPT ![t] = Tail(@)][t] :
              /\ i \in Nat /\ i + 1 # 1 /\ i + 1 \in DOMAIN w[t]
              /\ [w EXCEPT ![t] = Tail(@)][t][i] = w[t][i + 1]
  <1> DEFINE s == w[t]
  <1>1. s \in Seq(S) /\ s # <<>>
    OBVIOUS
  <1> HIDE DEF s
  <1>2. /\ Tail(s) \in Seq(S) /\ Len(Tail(s)) = Len(s) - 1 /\ Head(s) \in S
        /\ Len(s) \in Nat /\ Len(s) > 0
        /\ \A i \in 1..Len(Tail(s)) : Tail(s)[i] = s[i + 1]
    BY <1>1, HeadTailProperties
  <1>3. DOMAIN Tail(s) = 1..Len(Tail(s)) /\ DOMAIN s = 1..Len(s)
    BY <1>1, <1>2, LenProperties
  <1>4. Head(s) = s[1] /\ 1 \in DOMAIN s
    BY <1>1, <1>2, <1>3
  <1>5. \A i \in DOMAIN Tail(s) :
          i \in Nat /\ i + 1 # 1 /\ i + 1 \in DOMAIN s /\ Tail(s)[i] = s[i + 1]
    BY <1>2, <1>3
  <1>6. [w EXCEPT ![t] = Tail(@)] = [w EXCEPT ![t] = Tail(s)] /\ [w EXCEPT ![t] = Tail(s)][t] = Tail(s)
    BY DEF s
  <1>7. [w EXCEPT ![t] = Tail(s)] \in [Tabs -> Seq(S)]
    BY <1>2
  <1> QED
    BY <1>2, <1>4, <1>5, <1>6, <1>7 DEF s

\* What onconnect posts to the tab are notes about it.
LEMMA GreetingFacts ==
  ASSUME NEW t \in Tabs, NEW hello \in {<<>>, <<Note(t, "context")>>},
         NEW ms, ms = hello \o IF kind = "shared" THEN <<Note(t, "context")>> ELSE <<>>
  PROVE  ms \in Seq(TabMsg) /\ \A k \in DOMAIN ms : ms[k] = Note(t, "context")
  <1> DEFINE n == Note(t, "context")
             there == IF kind = "shared" THEN <<n>> ELSE <<>>
  <1>1. n \in TabMsg
    BY NoteFacts
  <1> HIDE DEF n
  <1>2. ms = hello \o there /\ hello \in {<<>>, <<n>>} /\ there \in {<<>>, <<n>>}
    BY DEF n
  <1> HIDE DEF there
  <1>5. <<>> \in Seq({n}) /\ <<n>> \in Seq({n})
    OBVIOUS
  <1>6. hello \in Seq({n}) /\ there \in Seq({n})
    <2>1. hello = <<>> \/ hello = <<n>>
      BY <1>2
    <2>2. there = <<>> \/ there = <<n>>
      BY <1>2
    <2>3. hello \in Seq({n})
      BY <1>5, <2>1
    <2>4. there \in Seq({n})
      BY <1>5, <2>2
    <2> QED
      BY <2>3, <2>4
  <1>3. ms \in Seq({n})
    BY <1>2, <1>6, ConcatProperties
  <1>4. \A k \in DOMAIN ms : ms[k] = n
    BY <1>3, ElementOfSeq, LenProperties
  <1>7. ms \in Seq(TabMsg)
    BY <1>1, <1>3
  <1> QED
    BY <1>4, <1>7 DEF n

\* Post on the wires there are.
LEMMA WireTypes ==
  ASSUME TypeOK
  PROVE  /\ \A t \in Tabs : \A ms \in Seq(TabMsg) : Post(toTab, t, ms) \in [Tabs -> Seq(TabMsg)]
         /\ \A t \in Tabs : \A m \in TabMsg : Post(toTab, t, <<m>>) \in [Tabs -> Seq(TabMsg)]
         /\ \A t \in Tabs : \A m \in CallMsg : Post(toWorker, t, <<m>>) \in [Tabs -> Seq(CallMsg)]
  <1>0. toTab \in [Tabs -> Seq(TabMsg)] /\ toWorker \in [Tabs -> Seq(CallMsg)]
    BY DEF TypeOK
  <1>1. ASSUME NEW t \in Tabs, NEW ms \in Seq(TabMsg) PROVE Post(toTab, t, ms) \in [Tabs -> Seq(TabMsg)]
    BY <1>0, <1>1, PostFacts
  <1>2. ASSUME NEW t \in Tabs, NEW ms \in Seq(CallMsg) PROVE Post(toWorker, t, ms) \in [Tabs -> Seq(CallMsg)]
    BY <1>0, <1>2, PostFacts
  <1>3. /\ \A m \in TabMsg : <<m>> \in Seq(TabMsg)
        /\ \A m \in CallMsg : <<m>> \in Seq(CallMsg)
    OBVIOUS
  <1> QED
    BY <1>1, <1>2, <1>3
----------------------------------------------------------------------------
(* Types.                                                                   *)

\* Every step keeps the types.
LEMMA TypeStep == TypeOK /\ [Next]_vars => TypeOK'
  <1> SUFFICES ASSUME TypeOK, [Next]_vars PROVE TypeOK'
    OBVIOUS
  <1>0. /\ toWorker \in [Tabs -> Seq(CallMsg)] /\ toTab \in [Tabs -> Seq(TabMsg)]
        /\ running \in [Tabs -> SUBSET Run] /\ reply \in [Tabs -> SUBSET Ticket]
        /\ nextId \in [Tabs -> Nat \ {0}] /\ api \in SUBSET Methods /\ kind \in Kinds
        /\ produced \in [Calls -> Outcomes \cup {None}] /\ value \in [Calls -> {"value", "rejected", None}]
        /\ caller \in [Sent -> Tabs \cup {None}] /\ port \in [Tabs -> {"new", "open", "gone"}]
        /\ Calls \subseteq Sent /\ Notes \subseteq Sent /\ "log" \in Methods
        /\ Called \subseteq Methods /\ Noted \subseteq Methods
        /\ "falsy" \in Outcomes /\ "error" \in Outcomes
        /\ "error" \in DOMAIN Settled
    BY WorkerAssumption DEF TypeOK, Sent, Outcomes, Settled
  <1>1. \A c \in Sent, o \in Outcomes : Answered(c, o) \in [Calls -> Outcomes \cup {None}]
    BY <1>0 DEF Answered
  <1>2. ASSUME NEW t \in Tabs, Connect(t) PROVE TypeOK'
    <2>1. PICK hello \in {<<>>, <<Note(t, "context")>>} :
            toTab' = IF kind = "service" THEN toTab
                     ELSE Post(toTab, t, hello \o IF kind = "shared" THEN <<Note(t, "context")>> ELSE <<>>)
      BY <1>2 DEF Connect, ContextPort
    <2> DEFINE ms == hello \o IF kind = "shared" THEN <<Note(t, "context")>> ELSE <<>>
    <2>2. ms \in Seq(TabMsg)
      BY GreetingFacts
    <2>3. toTab' = toTab \/ toTab' = Post(toTab, t, ms)
      BY <2>1
    <2> HIDE DEF ms
    <2>4. toTab' \in [Tabs -> Seq(TabMsg)]
      BY <1>0, <2>2, <2>3, WireTypes
    <2>5. api' \in SUBSET Methods /\ logPort' \in Tabs \cup {None} /\ port' \in [Tabs -> {"new", "open", "gone"}]
      BY <1>0, <1>2 DEF Connect, TypeOK
    <2> QED
      BY <1>2, <2>4, <2>5 DEF Connect, TypeOK
  <1>3. ASSUME NEW t \in Tabs, CloseTab(t) PROVE TypeOK'
    <2>1. toWorker' \in [Tabs -> Seq(CallMsg)] /\ toTab' \in [Tabs -> Seq(TabMsg)]
      BY <1>0, <1>3 DEF CloseTab
    <2> QED
      BY <1>3, <2>1 DEF CloseTab, TypeOK
  <1>4. ASSUME NEW t \in Tabs, NEW c \in Calls, NEW method \in Called, Rpc(t, c, method) PROVE TypeOK'
    <2> DEFINE m == [id |-> nextId[t], method |-> method, call |-> c]
    <2>1. m \in CallMsg
      BY <1>0 DEF CallMsg
    <2>2. toWorker' = Post(toWorker, t, <<m>>)
      BY <1>4 DEF Rpc
    <2> HIDE DEF m
    <2>3. toWorker' \in [Tabs -> Seq(CallMsg)]
      BY <1>0, <2>1, <2>2, WireTypes
    <2>4. [id |-> nextId[t], call |-> c] \in Ticket
      BY <1>0 DEF Ticket
    <2>5. reply' \in [Tabs -> SUBSET Ticket]
      BY <1>0, <1>4, <2>4 DEF Rpc
    <2>6. caller' \in [Sent -> Tabs \cup {None}] /\ nextId' \in [Tabs -> Nat \ {0}]
      BY <1>0, <1>4 DEF Rpc
    <2> QED
      BY <1>4, <2>3, <2>5, <2>6 DEF Rpc, TypeOK
  <1>5. ASSUME NEW t \in Tabs, NEW c \in Calls, RpcThrows(t, c) PROVE TypeOK'
    <2>1. caller' \in [Sent -> Tabs \cup {None}] /\ nextId' \in [Tabs -> Nat \ {0}]
          /\ value' \in [Calls -> {"value", "rejected", None}]
      BY <1>0, <1>5 DEF RpcThrows
    <2> QED
      BY <1>5, <2>1 DEF RpcThrows, TypeOK
  <1>6. ASSUME NEW t \in Tabs, NEW n \in Notes, NEW method \in Noted, Notify(t, n, method) PROVE TypeOK'
    <2> DEFINE m == [id |-> 0, method |-> method, call |-> n]
    <2>1. m \in CallMsg
      BY <1>0 DEF CallMsg
    <2>2. toWorker' = Post(toWorker, t, <<m>>)
      BY <1>6 DEF Notify
    <2> HIDE DEF m
    <2>3. toWorker' \in [Tabs -> Seq(CallMsg)]
      BY <1>0, <2>1, <2>2, WireTypes
    <2>4. caller' \in [Sent -> Tabs \cup {None}]
      BY <1>0, <1>6 DEF Notify
    <2> QED
      BY <1>6, <2>3, <2>4 DEF Notify, TypeOK
  <1>7. ASSUME NEW t \in Tabs, Serve(t) \/ ServeUnknown(t) PROVE TypeOK'
    <2>1. toWorker[t] # <<>> /\ toWorker' = [toWorker EXCEPT ![t] = Tail(@)]
      BY <1>7 DEF Serve, ServeUnknown
    <2>2. toWorker' \in [Tabs -> Seq(CallMsg)] /\ Head(toWorker[t]) \in CallMsg
      BY <1>0, <2>1, TakeFacts
    <2>3. PICK outs \in SUBSET Outcomes :
            running' = [running EXCEPT ![t] = @ \cup
              {[id |-> Head(toWorker[t]).id, call |-> Head(toWorker[t]).call, outs |-> outs]}]
      <3>1. {"falsy"} \subseteq Outcomes /\ Outcomes \subseteq Outcomes
        BY <1>0
      <3>2. CASE Serve(t)
        BY <1>0, <3>1, <3>2 DEF Serve
      <3>3. CASE ServeUnknown(t)
        BY <1>0, <3>1, <3>3 DEF ServeUnknown
      <3> QED
        BY <1>7, <3>2, <3>3
    <2>4. [id |-> Head(toWorker[t]).id, call |-> Head(toWorker[t]).call, outs |-> outs] \in Run
      BY <2>2, RecordFacts DEF Run
    <2>5. running' \in [Tabs -> SUBSET Run]
      BY <1>0, <2>3, <2>4
    <2>6. \/ toTab' = toTab
          \/ toTab' = Post(toTab, t, <<Note(t, "context")>>)
          \/ logPort # None /\ toTab' = Post(toTab, logPort, <<Note(t, "log")>>)
      BY <1>7 DEF Serve, ServeUnknown, ContextPort
    <2>7. Note(t, "context") \in TabMsg /\ Note(t, "log") \in TabMsg
      BY NoteFacts
    <2>8. logPort # None => logPort \in Tabs
      BY DEF TypeOK
    <2>10. PICK u \in Tabs, m \in TabMsg : toTab' = toTab \/ toTab' = Post(toTab, u, <<m>>)
      BY <2>6, <2>7, <2>8
    <2>11. Post(toTab, u, <<m>>) \in [Tabs -> Seq(TabMsg)]
      BY <2>10, WireTypes
    <2>9. toTab' \in [Tabs -> Seq(TabMsg)]
      BY <1>0, <2>10, <2>11
    <2> QED
      BY <1>7, <2>2, <2>5, <2>9 DEF Serve, ServeUnknown, TypeOK
  <1>8. ASSUME NEW t \in Tabs, Refuse(t) PROVE TypeOK'
    <2>1. toWorker[t] # <<>> /\ toWorker' = [toWorker EXCEPT ![t] = Tail(@)]
          /\ toTab' = Post(toTab, t, <<ReplyOf(Head(toWorker[t]), "error")>>)
          /\ produced' = Answered(Head(toWorker[t]).call, "error")
      BY <1>8 DEF Refuse
    <2>2. toWorker' \in [Tabs -> Seq(CallMsg)] /\ Head(toWorker[t]) \in CallMsg
      BY <1>0, <2>1, TakeFacts
    <2>3. ReplyOf(Head(toWorker[t]), "error") \in TabMsg
      BY <1>0, <2>2, RecordFacts, ReplyFacts
    <2>4. toTab' \in [Tabs -> Seq(TabMsg)]
      BY <1>0, <2>1, <2>3, WireTypes
    <2>5. produced' \in [Calls -> Outcomes \cup {None}]
      BY <1>0, <1>1, <2>1, <2>2, RecordFacts
    <2> QED
      BY <1>8, <2>2, <2>4, <2>5 DEF Refuse, TypeOK
  <1>9. ASSUME NEW t \in Tabs, NEW r \in running[t], NEW o \in r.outs, Finish(t, r, o) PROVE TypeOK'
    <2>1. r \in Run /\ o \in Outcomes /\ r.call \in Sent /\ r.id \in Nat
      BY <1>0, RecordFacts
    <2>2. o # "mute" => ReplyOf(r, o) \in TabMsg
      BY <2>1, RecordFacts, ReplyFacts
    <2>3. toTab' = toTab \/ (o # "mute" /\ toTab' = Post(toTab, t, <<ReplyOf(r, o)>>))
      BY <1>9 DEF Finish
    <2>4. toTab' \in [Tabs -> Seq(TabMsg)]
      BY <1>0, <2>2, <2>3, WireTypes
    <2>5. produced' \in [Calls -> Outcomes \cup {None}] /\ running' \in [Tabs -> SUBSET Run]
      BY <1>0, <1>1, <1>9, <2>1 DEF Finish
    <2> QED
      BY <1>9, <2>4, <2>5 DEF Finish, TypeOK
  <1>10. ASSUME NEW t \in Tabs, Recv(t) PROVE TypeOK'
    <2>1. toTab[t] # <<>> /\ toTab' = [toTab EXCEPT ![t] = Tail(@)]
      BY <1>10 DEF Recv
    <2>2. toTab' \in [Tabs -> Seq(TabMsg)] /\ Head(toTab[t]) \in TabMsg
      BY <1>0, <2>1, TakeFacts
    <2> DEFINE m == Head(toTab[t])
               done == IF m.kind = "reply" /\ m.id # 0 /\ kind # "service" THEN Pending(t, m.id) ELSE {}
    <2>3. /\ reply' = [reply EXCEPT ![t] = @ \ done]
          /\ value' = [c \in Calls |-> IF \E p \in done : p.call = c THEN Settled[m.outcome] ELSE value[c]]
      BY <1>10 DEF Recv
    <2>4. (\E p \in done : TRUE) => Settled[m.outcome] \in {"value", "rejected"}
      BY <2>2, RecordFacts
    <2> HIDE DEF done
    <2>5. reply' \in [Tabs -> SUBSET Ticket]
      BY <1>0, <2>3
    <2>6. value' \in [Calls -> {"value", "rejected", None}]
      BY <1>0, <2>3, <2>4
    <2> QED
      BY <1>10, <2>2, <2>5, <2>6 DEF Recv, TypeOK
  <1>11. CASE UNCHANGED vars
    BY <1>11 DEF vars, TypeOK
  <1> QED
    BY <1>2, <1>3, <1>4, <1>5, <1>6, <1>7, <1>8, <1>9, <1>10, <1>11 DEF Next, Deliver, FinishCall
----------------------------------------------------------------------------
(* One tab.                                                                 *)

\* Nothing but notes is posted to u.
NotesOnly(u) ==
  \A i \in DOMAIN toTab'[u] :
    toTab'[u][i].kind = "note" \/ (i \in DOMAIN toTab[u] /\ toTab'[u][i] = toTab[u][i])

\* What u and its calls have come to stays, but messages may be lost.
Untouched(u) ==
  /\ toWorker'[u] \in {toWorker[u], <<>>}
  /\ running'[u] = running[u] /\ reply'[u] = reply[u] /\ nextId'[u] >= nextId[u]
  /\ NotesOnly(u)
  /\ \A c \in Sent : caller[c] = u => caller'[c] = u
  /\ \A c \in Calls : caller[c] = u => produced'[c] = produced[c] /\ value'[c] = value[c]

\* The messages, handlers, replies and promises of u are of the calls there are.
LEMMA TabTypes ==
  ASSUME TypeOK, NEW u \in Tabs
  PROVE  /\ \A i \in DOMAIN toWorker[u] : toWorker[u][i] \in CallMsg /\ toWorker[u][i].call \in Sent
         /\ \A r \in running[u] : r \in Run /\ r.call \in Sent
         /\ \A i \in DOMAIN toTab[u] : /\ toTab[u][i] \in TabMsg /\ toTab[u][i].kind \in {"reply", "note"}
                                       /\ toTab[u][i].kind = "reply" =>
                                            toTab[u][i].call \in Sent /\ toTab[u][i].outcome \in Outcomes
         /\ \A p \in reply[u] : p \in Ticket /\ p.id \in Nat /\ p.call \in Calls /\ p.call \in Sent
         /\ nextId[u] \in Nat \ {0}
  <1>1. toWorker[u] \in Seq(CallMsg) /\ toTab[u] \in Seq(TabMsg) /\ running[u] \subseteq Run /\ reply[u] \subseteq Ticket
    BY DEF TypeOK
  <1>2. \A i \in DOMAIN toWorker[u] : toWorker[u][i] \in CallMsg
    BY <1>1, ElementOfSeq, LenProperties
  <1>3. \A i \in DOMAIN toTab[u] : toTab[u][i] \in TabMsg
    BY <1>1, ElementOfSeq, LenProperties
  <1>4. nextId[u] \in Nat \ {0}
    BY DEF TypeOK
  <1>5. Calls \subseteq Sent
    BY DEF Sent
  <1> QED
    BY <1>1, <1>2, <1>3, <1>4, <1>5, RecordFacts

\* The replies to u stay right while its calls stay and notes come in.
LEMMA NotedTab ==
  ASSUME TypeOK, NEW u \in Tabs, TabOK(u), NotesOnly(u), reply[u] \subseteq reply'[u],
         \A c \in Sent : caller[c] = u => caller'[c] = u,
         \A c \in Calls : caller[c] = u => produced'[c] = produced[c]
  PROVE  TabOK(u)'
  <1>1. \A i \in DOMAIN toTab'[u] : toTab'[u][i].kind = "reply" =>
          i \in DOMAIN toTab[u] /\ toTab'[u][i] = toTab[u][i]
    BY DEF NotesOnly
  <1>2. \A i \in DOMAIN toTab'[u] : toTab'[u][i].kind = "reply" => Replies(u, toTab[u][i])'
    <2> TAKE i \in DOMAIN toTab'[u]
    <2> HAVE toTab'[u][i].kind = "reply"
    <2>1. i \in DOMAIN toTab[u] /\ toTab'[u][i] = toTab[u][i] /\ toTab[u][i].kind = "reply"
      BY <1>1
    <2>2. Replies(u, toTab[u][i]) /\ toTab[u][i].call \in Sent
      BY <2>1, TabTypes DEF TabOK
    <2> DEFINE m == toTab[u][i]
               n == (toTab[u][i])'
    <2>3. n = m /\ Replies(u, m) /\ m.call \in Sent
      BY <2>1, <2>2
    <2> QED
      BY <2>3 DEF Replies, Promised
  <1> QED
    BY <1>1, <1>2 DEF TabOK

\* A tab that a step does not touch is as it was.
LEMMA UntouchedTab == TypeOK /\ TypeOK' => \A u \in Tabs : TabInv(u) /\ Untouched(u) => TabInv(u)'
  <1> SUFFICES ASSUME TypeOK, TypeOK', NEW u \in Tabs, TabInv(u), Untouched(u) PROVE TabInv(u)'
    OBVIOUS
  <1>1. QueueOK(u) /\ RunsOK(u) /\ TabOK(u) /\ TicketsOK(u)
    BY DEF TabInv
  <1>2. ASSUME NEW m, m.call \in Sent, AsksFor(u, m) PROVE AsksFor(u, m)'
    BY <1>2 DEF AsksFor, Promised, Untouched
  <1>3. ASSUME NEW m, m.call \in Sent, Replies(u, m) PROVE Replies(u, m)'
    BY <1>3 DEF Replies, Promised, Untouched
  <1>4. QueueOK(u)'
    <2>1. CASE toWorker'[u] = <<>>
      BY <2>1 DEF QueueOK
    <2>2. CASE toWorker'[u] = toWorker[u]
      <3>1. \A i \in DOMAIN toWorker'[u] : AsksFor(u, toWorker[u][i])'
        <4> TAKE i \in DOMAIN toWorker'[u]
        <4>1. (toWorker[u][i])' = toWorker[u][i] /\ AsksFor(u, toWorker[u][i]) /\ toWorker[u][i].call \in Sent
          BY <1>1, <2>2, TabTypes DEF QueueOK
        <4> QED
          BY <4>1 DEF AsksFor, Promised, Untouched
      <3>2. running'[u] = running[u]
        BY DEF Untouched
      <3> QED
        BY <1>1, <2>2, <3>1, <3>2 DEF QueueOK
    <2> QED
      BY <2>1, <2>2 DEF Untouched
  <1>5. RunsOK(u)'
    <2>1. \A r \in running[u] : AsksFor(u, r)'
      BY <1>1, <1>2, TabTypes DEF RunsOK
    <2>2. running'[u] = running[u]
      BY DEF Untouched
    <2> QED
      BY <1>1, <2>1, <2>2 DEF RunsOK
  <1>6. TabOK(u)'
    BY <1>1, NotedTab DEF Untouched
  <1>7. TicketsOK(u)'
    <2>1. \A p \in reply[u] : p.id < nextId'[u]
      <3>1. nextId'[u] \in Nat /\ nextId'[u] >= nextId[u]
        BY DEF TypeOK, Untouched
      <3> QED
        BY <1>1, <3>1, TabTypes DEF TicketsOK
    <2> QED
      BY <1>1, <2>1, TabTypes DEF TicketsOK, Untouched
  <1> QED
    BY <1>4, <1>5, <1>6, <1>7 DEF TabInv

\* One message is posted.
LEMMA PostOne ==
  ASSUME TypeOK, NEW t \in Tabs
  PROVE  /\ \A m \in CallMsg :
              /\ \A u \in Tabs : u # t => Post(toWorker, t, <<m>>)[u] = toWorker[u]
              /\ \A i \in DOMAIN Post(toWorker, t, <<m>>)[t] :
                   \/ i \in DOMAIN toWorker[t] /\ Post(toWorker, t, <<m>>)[t][i] = toWorker[t][i]
                   \/ i = Len(toWorker[t]) + 1 /\ Post(toWorker, t, <<m>>)[t][i] = m
         /\ \A m \in TabMsg :
              /\ \A u \in Tabs : u # t => Post(toTab, t, <<m>>)[u] = toTab[u]
              /\ \A i \in DOMAIN Post(toTab, t, <<m>>)[t] :
                   \/ i \in DOMAIN toTab[t] /\ Post(toTab, t, <<m>>)[t][i] = toTab[t][i]
                   \/ i = Len(toTab[t]) + 1 /\ Post(toTab, t, <<m>>)[t][i] = m
  <1>1. toTab \in [Tabs -> Seq(TabMsg)] /\ toWorker \in [Tabs -> Seq(CallMsg)]
    BY DEF TypeOK
  <1>2. \A S : \A m \in S : <<m>> \in Seq(S) /\ DOMAIN <<m>> = {1} /\ <<m>>[1] = m
    OBVIOUS
  <1>3. ASSUME NEW m \in CallMsg
        PROVE  /\ \A u \in Tabs : u # t => Post(toWorker, t, <<m>>)[u] = toWorker[u]
               /\ \A i \in DOMAIN Post(toWorker, t, <<m>>)[t] :
                    \/ i \in DOMAIN toWorker[t] /\ Post(toWorker, t, <<m>>)[t][i] = toWorker[t][i]
                    \/ i = Len(toWorker[t]) + 1 /\ Post(toWorker, t, <<m>>)[t][i] = m
    <2> DEFINE ms == <<m>>
    <2>1. ms \in Seq(CallMsg) /\ DOMAIN ms = {1} /\ ms[1] = m
      BY <1>2
    <2> HIDE DEF ms
    <2>2. Added(toWorker, Post(toWorker, t, ms), t, ms)
      BY <1>1, <2>1, PostFacts
    <2>3. /\ \A u \in Tabs : u # t => Post(toWorker, t, ms)[u] = toWorker[u]
          /\ \A i \in DOMAIN Post(toWorker, t, ms)[t] :
               \/ i \in DOMAIN toWorker[t] /\ Post(toWorker, t, ms)[t][i] = toWorker[t][i]
               \/ i = Len(toWorker[t]) + 1 /\ Post(toWorker, t, ms)[t][i] = m
      BY <2>1, <2>2 DEF Added
    <2> QED
      BY <2>3 DEF ms
  <1>4. ASSUME NEW m \in TabMsg
        PROVE  /\ \A u \in Tabs : u # t => Post(toTab, t, <<m>>)[u] = toTab[u]
               /\ \A i \in DOMAIN Post(toTab, t, <<m>>)[t] :
                    \/ i \in DOMAIN toTab[t] /\ Post(toTab, t, <<m>>)[t][i] = toTab[t][i]
                    \/ i = Len(toTab[t]) + 1 /\ Post(toTab, t, <<m>>)[t][i] = m
    <2> DEFINE ms == <<m>>
    <2>1. ms \in Seq(TabMsg) /\ DOMAIN ms = {1} /\ ms[1] = m
      BY <1>2
    <2> HIDE DEF ms
    <2>2. Added(toTab, Post(toTab, t, ms), t, ms)
      BY <1>1, <2>1, PostFacts
    <2>3. /\ \A u \in Tabs : u # t => Post(toTab, t, ms)[u] = toTab[u]
          /\ \A i \in DOMAIN Post(toTab, t, ms)[t] :
               \/ i \in DOMAIN toTab[t] /\ Post(toTab, t, ms)[t][i] = toTab[t][i]
               \/ i = Len(toTab[t]) + 1 /\ Post(toTab, t, ms)[t][i] = m
      BY <2>1, <2>2 DEF Added
    <2> QED
      BY <2>3 DEF ms
  <1> QED
    BY <1>3, <1>4

\* A message of a call or a notification that is new is sent.
LEMMA SentTab ==
  ASSUME TypeOK, NEW t \in Tabs, TabInv(t), NEW m \in CallMsg, caller[m.call] = None,
         toWorker' = Post(toWorker, t, <<m>>), UNCHANGED <<running, toTab, produced>>,
         caller' = [caller EXCEPT ![m.call] = t], reply[t] \subseteq reply'[t],
         IF m.call \in Calls THEN m.id # 0 /\ Promised(t, m)' /\ produced[m.call] = None ELSE m.id = 0
  PROVE  QueueOK(t)' /\ RunsOK(t)' /\ TabOK(t)'
  <1>1. QueueOK(t) /\ RunsOK(t) /\ TabOK(t) /\ t # None /\ m.call \in Sent
    BY WorkerAssumption, RecordFacts DEF TabInv
  <1>2. \A i \in DOMAIN toWorker'[t] :
          \/ i \in DOMAIN toWorker[t] /\ toWorker'[t][i] = toWorker[t][i]
          \/ i = Len(toWorker[t]) + 1 /\ toWorker'[t][i] = m
    BY PostOne
  <1>3. \A c \in Sent : caller[c] = t => caller'[c] = t /\ c # m.call
    BY <1>1 DEF TypeOK
  <1>4. caller'[m.call] = t
    BY <1>1 DEF TypeOK
  <1>5. \A i \in DOMAIN toWorker[t] : toWorker[t][i].call # m.call /\ toWorker[t][i].call \in Sent
    BY <1>1, <1>3, TabTypes DEF QueueOK, AsksFor
  <1>6. \A r \in running[t] : r.call # m.call /\ r.call \in Sent
    BY <1>1, <1>3, TabTypes DEF RunsOK, AsksFor
  <1>7. \A i \in DOMAIN toWorker'[t] : AsksFor(t, toWorker[t][i])'
    <2> TAKE i \in DOMAIN toWorker'[t]
    <2>1. CASE i \in DOMAIN toWorker[t] /\ toWorker'[t][i] = toWorker[t][i]
      <3>1. AsksFor(t, toWorker[t][i]) /\ toWorker[t][i].call \in Sent
        BY <1>1, <1>5, <2>1 DEF QueueOK
      <3> QED
        BY <1>3, <2>1, <3>1 DEF AsksFor, Promised
    <2>2. CASE toWorker'[t][i] = m
      BY <1>4, <2>2 DEF AsksFor, Promised
    <2> QED
      BY <1>2, <2>1, <2>2
  <1>8. QueueOK(t)'
    <2>1. \A i, j \in DOMAIN toWorker'[t] :
            toWorker'[t][i].call \in Calls /\ toWorker'[t][i].call = toWorker'[t][j].call => i = j
      BY <1>1, <1>2, <1>5 DEF QueueOK
    <2>2. \A i \in DOMAIN toWorker'[t], r \in running[t] :
            toWorker'[t][i].call \in Calls => toWorker'[t][i].call # r.call
      BY <1>1, <1>2, <1>6 DEF QueueOK
    <2> QED
      BY <1>7, <2>1, <2>2 DEF QueueOK
  <1>9. RunsOK(t)'
    <2>1. \A r \in running[t] : AsksFor(t, r)'
      BY <1>1, <1>3, <1>6 DEF RunsOK, AsksFor, Promised
    <2> QED
      BY <1>1, <2>1 DEF RunsOK
  <1>10. TabOK(t)'
    BY <1>1, <1>3, NotedTab DEF NotesOnly
  <1> QED
    BY <1>8, <1>9, <1>10

\* The message that the worker takes from t, and what is left there.
LEMMA TakenFacts ==
  ASSUME TypeOK, NEW t \in Tabs, QueueOK(t), toWorker[t] # <<>>,
         toWorker' = [toWorker EXCEPT ![t] = Tail(@)]
  PROVE  /\ Head(toWorker[t]) \in CallMsg /\ Head(toWorker[t]).call \in Sent
         /\ AsksFor(t, Head(toWorker[t]))
         /\ \A u \in Tabs : u # t => toWorker'[u] = toWorker[u]
         /\ \A i \in DOMAIN toWorker'[t] :
              /\ i \in Nat /\ i + 1 \in DOMAIN toWorker[t] /\ toWorker'[t][i] = toWorker[t][i + 1]
              /\ Head(toWorker[t]).call \in Calls => toWorker[t][i + 1].call # Head(toWorker[t]).call
         /\ \A r \in running[t] : Head(toWorker[t]).call \in Calls => r.call # Head(toWorker[t]).call
  <1>1. toWorker \in [Tabs -> Seq(CallMsg)]
    BY DEF TypeOK
  <1>2. /\ 1 \in DOMAIN toWorker[t] /\ Head(toWorker[t]) = toWorker[t][1] /\ Head(toWorker[t]) \in CallMsg
        /\ \A u \in Tabs : u # t => toWorker'[u] = toWorker[u]
    BY <1>1, TakeFacts
  <1>3. \A i \in DOMAIN toWorker'[t] :
          i \in Nat /\ i + 1 # 1 /\ i + 1 \in DOMAIN toWorker[t] /\ toWorker'[t][i] = toWorker[t][i + 1]
    BY <1>1, TakeFacts
  <1> QED
    BY <1>2, <1>3, RecordFacts DEF QueueOK

\* A handler is started for it.
LEMMA ServedTab ==
  ASSUME TypeOK, NEW t \in Tabs, TabInv(t), toWorker[t] # <<>>,
         toWorker' = [toWorker EXCEPT ![t] = Tail(@)], UNCHANGED <<caller, reply, produced>>,
         NEW r, r.id = Head(toWorker[t]).id, r.call = Head(toWorker[t]).call,
         running'[t] = running[t] \cup {r}
  PROVE  QueueOK(t)' /\ RunsOK(t)'
  <1> DEFINE h == Head(toWorker[t])
  <1>1. QueueOK(t) /\ RunsOK(t)
    BY DEF TabInv
  <1>2. /\ h.call \in Sent /\ AsksFor(t, h)
        /\ \A i \in DOMAIN toWorker'[t] :
             /\ i \in Nat /\ i + 1 \in DOMAIN toWorker[t] /\ toWorker'[t][i] = toWorker[t][i + 1]
             /\ h.call \in Calls => toWorker[t][i + 1].call # h.call
        /\ \A s \in running[t] : h.call \in Calls => s.call # h.call
    BY <1>1, TakenFacts
  <1>3. r.id = h.id /\ r.call = h.call
    OBVIOUS
  <1> HIDE DEF h
  <1>4. AsksFor(t, r)
    BY <1>2, <1>3 DEF AsksFor, Promised
  <1>5. RunsOK(t)'
    <2>1. \A s \in running'[t] : AsksFor(t, s)
      BY <1>1, <1>4 DEF RunsOK
    <2>2. \A s \in running'[t] : AsksFor(t, s)'
      BY <2>1 DEF AsksFor, Promised
    <2>3. \A s, q \in running'[t] : s.call \in Calls /\ s.call = q.call => s = q
      BY <1>1, <1>2, <1>3 DEF RunsOK
    <2> QED
      BY <2>2, <2>3 DEF RunsOK
  <1>6. QueueOK(t)'
    <2>1. \A i \in DOMAIN toWorker'[t] : AsksFor(t, toWorker[t][i])'
      <3> TAKE i \in DOMAIN toWorker'[t]
      <3>1. AsksFor(t, toWorker[t][i + 1]) /\ (toWorker[t][i])' = toWorker[t][i + 1]
        BY <1>1, <1>2 DEF QueueOK
      <3> QED
        BY <3>1 DEF AsksFor, Promised
    <2>2. \A i, j \in DOMAIN toWorker'[t] :
            toWorker'[t][i].call \in Calls /\ toWorker'[t][i].call = toWorker'[t][j].call => i = j
      <3> TAKE i, j \in DOMAIN toWorker'[t]
      <3>1. toWorker'[t][i].call \in Calls /\ toWorker'[t][i].call = toWorker'[t][j].call => i + 1 = j + 1
        BY <1>1, <1>2 DEF QueueOK
      <3>2. i \in Nat /\ j \in Nat
        BY <1>2
      <3> QED
        BY <3>1, <3>2
    <2>3. \A i \in DOMAIN toWorker'[t], s \in running'[t] :
            toWorker'[t][i].call \in Calls => toWorker'[t][i].call # s.call
      BY <1>1, <1>2, <1>3 DEF QueueOK
    <2> QED
      BY <2>1, <2>2, <2>3 DEF QueueOK
  <1> QED
    BY <1>5, <1>6

\* What is on its way for other calls than c stays right when c is answered.
LEMMA AsksStill ==
  ASSUME TypeOK, NEW t, NEW m, m.call \in Sent, AsksFor(t, m), NEW c, NEW o,
         UNCHANGED <<caller, reply>>, produced' = Answered(c, o), m.call \in Calls => m.call # c
  PROVE  AsksFor(t, m)'
  BY DEF AsksFor, Promised, Answered

\* A call, or a notification, is answered: what is posted of it is its reply.
LEMMA AnsweredTab ==
  ASSUME TypeOK, NEW t \in Tabs, TabOK(t), NEW m, m.call \in Sent, AsksFor(t, m),
         NEW o \in Outcomes, UNCHANGED <<caller, reply>>, produced' = Answered(m.call, o), m.id \in Nat,
         toTab' = toTab \/ (o \in DOMAIN Settled /\ toTab' = Post(toTab, t, <<ReplyOf(m, o)>>))
  PROVE  TabOK(t)'
  <1>0. None \notin Outcomes
    BY WorkerAssumption
  <1>1. m.call \in Calls => \A i \in DOMAIN toTab[t] : toTab[t][i].kind = "reply" => toTab[t][i].call # m.call
    BY <1>0, TabTypes DEF TabOK, Replies, AsksFor
  <1>2. \A c \in Calls : produced'[c] = IF c = m.call THEN o ELSE produced[c]
    BY DEF Answered
  <1>3. \A i \in DOMAIN toTab'[t] :
          \/ i \in DOMAIN toTab[t] /\ toTab'[t][i] = toTab[t][i]
          \/ i = Len(toTab[t]) + 1 /\ toTab'[t][i] = ReplyOf(m, o) /\ o \in DOMAIN Settled
    <2>1. CASE toTab' = toTab
      BY <2>1
    <2>2. CASE o \in DOMAIN Settled /\ toTab' = Post(toTab, t, <<ReplyOf(m, o)>>)
      <3>1. ReplyOf(m, o) \in TabMsg
        BY <2>2, ReplyFacts
      <3> DEFINE k == ReplyOf(m, o)
      <3> HIDE DEF k
      <3>2. k \in TabMsg /\ toTab' = Post(toTab, t, <<k>>)
        BY <2>2, <3>1 DEF k
      <3>3. \A i \in DOMAIN toTab'[t] :
              (i \in DOMAIN toTab[t] /\ toTab'[t][i] = toTab[t][i]) \/ (i = Len(toTab[t]) + 1 /\ toTab'[t][i] = k)
        BY <3>2, PostOne
      <3> QED
        BY <2>2, <3>3 DEF k
    <2> QED
      BY <2>1, <2>2
  <1>4. o \in DOMAIN Settled => /\ ReplyOf(m, o).kind = "reply" /\ ReplyOf(m, o).id = m.id
                               /\ ReplyOf(m, o).call = m.call /\ ReplyOf(m, o).outcome = o
    BY DEF ReplyOf
  <1>5. \A i \in DOMAIN toTab'[t] : toTab'[t][i].kind = "reply" => Replies(t, toTab[t][i])'
    <2> TAKE i \in DOMAIN toTab'[t]
    <2> HAVE toTab'[t][i].kind = "reply"
    <2>1. CASE i \in DOMAIN toTab[t] /\ toTab'[t][i] = toTab[t][i]
      <3>1. Replies(t, toTab[t][i]) /\ (toTab[t][i].call \in Calls => toTab[t][i].call # m.call)
        BY <1>1, <2>1 DEF TabOK
      <3> QED
        BY <1>2, <2>1, <3>1 DEF Replies, Promised
    <2>2. CASE toTab'[t][i] = ReplyOf(m, o) /\ o \in DOMAIN Settled
      BY <1>2, <1>4, <2>2 DEF Replies, AsksFor, Promised
    <2> QED
      BY <1>3, <2>1, <2>2
  <1>6. \A i, j \in DOMAIN toTab'[t] :
          (/\ toTab'[t][i].kind = "reply" /\ toTab'[t][j].kind = "reply"
           /\ toTab'[t][i].call \in Calls /\ toTab'[t][i].call = toTab'[t][j].call) => i = j
    BY <1>1, <1>3, <1>4 DEF TabOK
  <1> QED
    BY <1>5, <1>6 DEF TabOK

\* A message is answered at once.
LEMMA RefusedTab ==
  ASSUME TypeOK, NEW t \in Tabs, TabInv(t), toWorker[t] # <<>>,
         toWorker' = [toWorker EXCEPT ![t] = Tail(@)], UNCHANGED <<caller, reply, running>>,
         NEW o, produced' = Answered(Head(toWorker[t]).call, o)
  PROVE  QueueOK(t)' /\ RunsOK(t)'
  <1> DEFINE h == Head(toWorker[t])
  <1>1. QueueOK(t) /\ RunsOK(t)
    BY DEF TabInv
  <1>2. /\ \A i \in DOMAIN toWorker'[t] :
             /\ i \in Nat /\ i + 1 \in DOMAIN toWorker[t] /\ toWorker'[t][i] = toWorker[t][i + 1]
             /\ h.call \in Calls => toWorker[t][i + 1].call # h.call
        /\ \A s \in running[t] : h.call \in Calls => s.call # h.call
    BY <1>1, TakenFacts
  <1>3. produced' = Answered(h.call, o)
    OBVIOUS
  <1> HIDE DEF h
  <1>4. \A s \in running[t] : AsksFor(t, s)'
    <2> TAKE s \in running[t]
    <2>1. AsksFor(t, s) /\ s.call \in Sent /\ (s.call \in Calls => s.call # h.call)
      BY <1>1, <1>2, TabTypes DEF RunsOK
    <2> QED
      BY <1>3, <2>1, AsksStill
  <1>5. RunsOK(t)'
    BY <1>1, <1>4 DEF RunsOK
  <1>6. QueueOK(t)'
    <2>1. \A i \in DOMAIN toWorker'[t] : AsksFor(t, toWorker[t][i])'
      <3> TAKE i \in DOMAIN toWorker'[t]
      <3>1. /\ AsksFor(t, toWorker[t][i + 1]) /\ (toWorker[t][i])' = toWorker[t][i + 1]
            /\ toWorker[t][i + 1].call \in Sent
            /\ toWorker[t][i + 1].call \in Calls => toWorker[t][i + 1].call # h.call
        BY <1>1, <1>2, TabTypes DEF QueueOK
      <3>2. \A c \in Calls : c # h.call => produced'[c] = produced[c]
        BY <1>3 DEF Answered
      <3> QED
        BY <3>1, <3>2 DEF AsksFor, Promised
    <2>2. \A i, j \in DOMAIN toWorker'[t] :
            toWorker'[t][i].call \in Calls /\ toWorker'[t][i].call = toWorker'[t][j].call => i = j
      <3> TAKE i, j \in DOMAIN toWorker'[t]
      <3>1. toWorker'[t][i].call \in Calls /\ toWorker'[t][i].call = toWorker'[t][j].call => i + 1 = j + 1
        BY <1>1, <1>2 DEF QueueOK
      <3>2. i \in Nat /\ j \in Nat
        BY <1>2
      <3> QED
        BY <3>1, <3>2
    <2>3. \A i \in DOMAIN toWorker'[t], s \in running'[t] :
            toWorker'[t][i].call \in Calls => toWorker'[t][i].call # s.call
      BY <1>1, <1>2 DEF QueueOK
    <2> QED
      BY <2>1, <2>2, <2>3 DEF QueueOK
  <1> QED
    BY <1>5, <1>6

\* A handler ends.
LEMMA FinishedTab ==
  ASSUME TypeOK, NEW t \in Tabs, TabInv(t), NEW r \in running[t], NEW o,
         running' = [running EXCEPT ![t] = @ \ {r}], UNCHANGED <<caller, reply, toWorker>>,
         produced' = Answered(r.call, o)
  PROVE  QueueOK(t)' /\ RunsOK(t)'
  <1>1. QueueOK(t) /\ RunsOK(t)
    BY DEF TabInv
  <1>2. running'[t] = running[t] \ {r}
    BY DEF TypeOK
  <1>3. \A s \in running'[t] : AsksFor(t, s)'
    <2> TAKE s \in running'[t]
    <2>1. AsksFor(t, s) /\ s.call \in Sent /\ (s.call \in Calls => s.call # r.call)
      BY <1>1, <1>2, TabTypes DEF RunsOK
    <2> QED
      BY <2>1, AsksStill
  <1>4. RunsOK(t)'
    BY <1>1, <1>2, <1>3 DEF RunsOK
  <1>5. \A i \in DOMAIN toWorker[t] : AsksFor(t, toWorker[t][i])'
    <2> TAKE i \in DOMAIN toWorker[t]
    <2>1. /\ AsksFor(t, toWorker[t][i]) /\ (toWorker[t][i])' = toWorker[t][i] /\ toWorker[t][i].call \in Sent
          /\ (toWorker[t][i].call \in Calls => toWorker[t][i].call # r.call)
      BY <1>1, TabTypes DEF QueueOK
    <2>2. \A c \in Calls : c # r.call => produced'[c] = produced[c]
      BY DEF Answered
    <2> QED
      BY <2>1, <2>2 DEF AsksFor, Promised
  <1>6. QueueOK(t)'
    BY <1>1, <1>2, <1>5 DEF QueueOK
  <1> QED
    BY <1>4, <1>6

\* A message that the tab takes: the promise it is for, if any, and what is left.
LEMMA RecvFacts ==
  ASSUME TypeOK, NEW t \in Tabs, TabInv(t), Recv(t)
  PROVE  /\ \A u \in Tabs : u # t => toTab'[u] = toTab[u]
         /\ \A i \in DOMAIN toTab'[t] :
              i \in Nat /\ i + 1 # 1 /\ i + 1 \in DOMAIN toTab[t] /\ toTab'[t][i] = toTab[t][i + 1]
         /\ 1 \in DOMAIN toTab[t]
         /\ \/ UNCHANGED <<reply, value>>
            \/ \E m, p : /\ m = toTab[t][1] /\ m.kind = "reply" /\ m.call \in Calls /\ m.outcome \in DOMAIN Settled
                         /\ p \in reply[t] /\ p.call = m.call
                         /\ produced[m.call] = m.outcome /\ value[m.call] = None /\ caller[m.call] = t
                         /\ reply' = [reply EXCEPT ![t] = @ \ {p}]
                         /\ value' = [value EXCEPT ![m.call] = Settled[m.outcome]]
  <1>1. QueueOK(t) /\ RunsOK(t) /\ TabOK(t) /\ TicketsOK(t)
    BY DEF TabInv
  <1>2. toTab \in [Tabs -> Seq(TabMsg)] /\ toTab[t] # <<>> /\ toTab' = [toTab EXCEPT ![t] = Tail(@)]
        /\ reply \in [Tabs -> SUBSET Ticket] /\ value \in [Calls -> {"value", "rejected", None}]
    BY DEF TypeOK, Recv
  <1>3. /\ 1 \in DOMAIN toTab[t] /\ Head(toTab[t]) = toTab[t][1]
        /\ \A u \in Tabs : u # t => toTab'[u] = toTab[u]
    BY <1>2, TakeFacts
  <1>4. \A i \in DOMAIN toTab'[t] :
          i \in Nat /\ i + 1 # 1 /\ i + 1 \in DOMAIN toTab[t] /\ toTab'[t][i] = toTab[t][i + 1]
    BY <1>2, TakeFacts
  <1> DEFINE m == toTab[t][1]
             done == IF m.kind = "reply" /\ m.id # 0 /\ kind # "service" THEN Pending(t, m.id) ELSE {}
  <1>5. /\ reply' = [reply EXCEPT ![t] = @ \ done]
        /\ value' = [c \in Calls |-> IF \E p \in done : p.call = c THEN Settled[m.outcome] ELSE value[c]]
    BY <1>3 DEF Recv
  <1>6. m \in TabMsg /\ (m.kind = "reply" => m.call \in Sent /\ m.outcome \in DOMAIN Settled)
    BY <1>3, TabTypes, RecordFacts
  <1>7. CASE m.kind = "reply" /\ m.id # 0 /\ kind # "service"
    <2> DEFINE p == [id |-> m.id, call |-> m.call]
    <2>1. Replies(t, m)
      BY <1>1, <1>3, <1>7 DEF TabOK
    <2>2. m.call \in Calls /\ p \in reply[t] /\ produced[m.call] = m.outcome /\ caller[m.call] = t
      BY <1>7, <2>1 DEF Replies, Promised
    <2>3. p.call = m.call /\ p.id = m.id
      OBVIOUS
    <2> HIDE DEF p, m
    <2>4. value[m.call] = None /\ \A q \in reply[t] : q.id = m.id => q = p
      BY <1>1, <2>2, <2>3 DEF TicketsOK
    <2>5. done = {p}
      BY <1>7, <2>2, <2>3, <2>4 DEF Pending
    <2> HIDE DEF done
    <2>6. reply' = [reply EXCEPT ![t] = @ \ {p}]
      BY <1>5, <2>5
    <2>7. value' = [value EXCEPT ![m.call] = Settled[m.outcome]]
      BY <1>2, <1>5, <2>2, <2>3, <2>5
    <2>8. m = toTab[t][1]
      BY DEF m
    <2> QED
      BY <1>3, <1>4, <1>6, <1>7, <2>2, <2>3, <2>4, <2>6, <2>7, <2>8
  <1>8. CASE ~(m.kind = "reply" /\ m.id # 0 /\ kind # "service")
    <2>1. done = {}
      BY <1>8
    <2> HIDE DEF done, m
    <2>2. reply' = reply /\ value' = value
      BY <1>2, <1>5, <2>1
    <2> QED
      BY <1>3, <1>4, <2>2
  <1> QED
    BY <1>7, <1>8

\* The tab takes a message.
LEMMA RecvTab ==
  ASSUME TypeOK, NEW t \in Tabs, TabInv(t), Recv(t)
  PROVE  TabInv(t)'
  <1>1. QueueOK(t) /\ RunsOK(t) /\ TabOK(t) /\ TicketsOK(t)
    BY DEF TabInv
  <1>2. UNCHANGED <<nextId, toWorker, running, caller, produced>>
    BY DEF Recv
  <1>3. /\ \A i \in DOMAIN toTab'[t] :
             i \in Nat /\ i + 1 # 1 /\ i + 1 \in DOMAIN toTab[t] /\ toTab'[t][i] = toTab[t][i + 1]
        /\ 1 \in DOMAIN toTab[t]
    BY RecvFacts
  \* The numbers of the other calls are as they were.
  <1>4. PICK gone \in SUBSET Calls :
          /\ \A c \in gone : produced[c] # None
          /\ \A i \in DOMAIN toTab'[t] : toTab'[t][i].kind = "reply" => toTab'[t][i].call \notin gone
          /\ \A p \in reply[t] : p \in reply'[t] \/ p.call \in gone
          /\ \A p \in reply'[t] : p \in reply[t] /\ value'[p.call] = value[p.call]
    <2>1. CASE UNCHANGED <<reply, value>>
      <3>1. {} \in SUBSET Calls
        OBVIOUS
      <3>2. /\ \A c \in {} : produced[c] # None
            /\ \A i \in DOMAIN toTab'[t] : toTab'[t][i].kind = "reply" => toTab'[t][i].call \notin {}
            /\ \A q \in reply[t] : q \in reply'[t] \/ q.call \in {}
            /\ \A q \in reply'[t] : q \in reply[t] /\ value'[q.call] = value[q.call]
        BY <2>1
      <3> QED
        BY <3>1, <3>2
    <2>2. CASE \E m, p : /\ m = toTab[t][1] /\ m.kind = "reply" /\ m.call \in Calls /\ m.outcome \in DOMAIN Settled
                         /\ p \in reply[t] /\ p.call = m.call
                         /\ produced[m.call] = m.outcome /\ value[m.call] = None /\ caller[m.call] = t
                         /\ reply' = [reply EXCEPT ![t] = @ \ {p}]
                         /\ value' = [value EXCEPT ![m.call] = Settled[m.outcome]]
      <3>1. PICK m, p : /\ m = toTab[t][1] /\ m.kind = "reply" /\ m.call \in Calls /\ m.outcome \in DOMAIN Settled
                         /\ p \in reply[t] /\ p.call = m.call
                         /\ produced[m.call] = m.outcome /\ value[m.call] = None /\ caller[m.call] = t
                         /\ reply' = [reply EXCEPT ![t] = @ \ {p}]
                         /\ value' = [value EXCEPT ![m.call] = Settled[m.outcome]]
        BY <2>2
      <3>2. produced[m.call] # None
        BY <3>1, RecordFacts, WorkerAssumption
      <3>3. \A i \in DOMAIN toTab'[t] : toTab'[t][i].kind = "reply" => toTab'[t][i].call # m.call
        BY <1>1, <1>3, <3>1 DEF TabOK
      <3>4. reply'[t] = reply[t] \ {p} /\ \A c \in Calls : c # m.call => value'[c] = value[c]
        BY <3>1 DEF TypeOK
      <3>5. \A q \in reply[t] : q # p => q.call \in Calls /\ q.call # m.call
        BY <1>1, <3>1, TabTypes DEF TicketsOK
      <3>6. {m.call} \in SUBSET Calls
        BY <3>1
      <3>7. /\ \A c \in {m.call} : produced[c] # None
            /\ \A i \in DOMAIN toTab'[t] : toTab'[t][i].kind = "reply" => toTab'[t][i].call \notin {m.call}
            /\ \A q \in reply[t] : q \in reply'[t] \/ q.call \in {m.call}
            /\ \A q \in reply'[t] : q \in reply[t] /\ value'[q.call] = value[q.call]
        BY <3>1, <3>2, <3>3, <3>4, <3>5
      <3> QED
        BY <3>6, <3>7
    <2> QED
      BY <2>1, <2>2, RecvFacts
  <1>5. ASSUME NEW m, AsksFor(t, m) PROVE AsksFor(t, m)'
    <2>1. m.call \in Calls => m.call \notin gone
      BY <1>4, <1>5 DEF AsksFor
    <2>2. m.call \in Calls => Promised(t, m)'
      <3>1. [id |-> m.id, call |-> m.call].call = m.call
        OBVIOUS
      <3> QED
        BY <1>4, <1>5, <2>1, <3>1 DEF AsksFor, Promised
    <2> QED
      BY <1>2, <1>5, <2>2 DEF AsksFor
  <1>6. RunsOK(t)'
    BY <1>1, <1>2, <1>5 DEF RunsOK
  <1>7. QueueOK(t)'
    <2>1. \A i \in DOMAIN toWorker'[t] : AsksFor(t, toWorker[t][i])'
      <3> TAKE i \in DOMAIN toWorker'[t]
      <3>1. AsksFor(t, toWorker[t][i]) /\ (toWorker[t][i])' = toWorker[t][i]
        BY <1>1, <1>2 DEF QueueOK
      <3> DEFINE m == toWorker[t][i]
      <3>2. AsksFor(t, m) /\ toWorker'[t][i] = m
        BY <3>1
      <3>3. m.call \in Calls => m.call \notin gone
        BY <1>4, <3>2 DEF AsksFor
      <3>4. m.call \in Calls => [id |-> m.id, call |-> m.call] \in reply'[t]
        <4>1. [id |-> m.id, call |-> m.call].call = m.call
          OBVIOUS
        <4> QED
          BY <1>4, <3>2, <3>3, <4>1 DEF AsksFor, Promised
      <3> QED
        BY <1>2, <3>2, <3>4 DEF AsksFor, Promised
    <2> QED
      BY <1>1, <1>2, <2>1 DEF QueueOK
  <1>8. \A i \in DOMAIN toTab'[t] : toTab'[t][i].kind = "reply" => Replies(t, toTab[t][i])'
    <2> TAKE i \in DOMAIN toTab'[t]
    <2> HAVE toTab'[t][i].kind = "reply"
    <2> DEFINE m == toTab[t][i + 1]
    <2>1. Replies(t, m) /\ toTab'[t][i] = m /\ m.call \notin gone
      BY <1>1, <1>3, <1>4 DEF TabOK
    <2>2. [id |-> m.id, call |-> m.call].call = m.call
      OBVIOUS
    <2> HIDE DEF m
    <2>3. m.call \in Calls => [id |-> m.id, call |-> m.call] \in reply'[t]
      BY <1>4, <2>1, <2>2 DEF Replies, Promised
    <2> QED
      BY <1>2, <2>1, <2>3 DEF Replies, Promised
  <1>9. TabOK(t)'
    <2>1. ASSUME NEW i \in DOMAIN toTab'[t], NEW j \in DOMAIN toTab'[t],
                 toTab'[t][i].kind = "reply", toTab'[t][j].kind = "reply",
                 toTab'[t][i].call \in Calls, toTab'[t][i].call = toTab'[t][j].call
          PROVE  i = j
      <3>1. i + 1 = j + 1 /\ i \in Nat /\ j \in Nat
        BY <1>1, <1>3, <2>1 DEF TabOK
      <3> QED
        BY <3>1
    <2> QED
      BY <1>8, <2>1 DEF TabOK
  <1>10. TicketsOK(t)'
    BY <1>1, <1>2, <1>4 DEF TicketsOK
  <1> QED
    BY <1>6, <1>7, <1>9, <1>10 DEF TabInv

\* Notes that are posted to t leave all tabs with notes only.
LEMMA NotesFacts ==
  ASSUME TypeOK
  PROVE  /\ toTab' = toTab => \A u \in Tabs : NotesOnly(u)
         /\ \A t \in Tabs, n \in TabMsg : n.kind = "note" /\ toTab' = Post(toTab, t, <<n>>) =>
              \A u \in Tabs : NotesOnly(u)
         /\ \A t \in Tabs, ms \in Seq(TabMsg) :
              (\A k \in DOMAIN ms : ms[k].kind = "note") /\ toTab' = Post(toTab, t, ms) =>
                \A u \in Tabs : NotesOnly(u)
  <1>1. toTab' = toTab => \A u \in Tabs : NotesOnly(u)
    BY DEF NotesOnly
  <1>2. ASSUME NEW t \in Tabs, NEW n \in TabMsg, n.kind = "note", toTab' = Post(toTab, t, <<n>>),
               NEW u \in Tabs
        PROVE  NotesOnly(u)
    <2>1. /\ \A v \in Tabs : v # t => toTab'[v] = toTab[v]
          /\ \A i \in DOMAIN toTab'[t] : (i \in DOMAIN toTab[t] /\ toTab'[t][i] = toTab[t][i]) \/ toTab'[t][i] = n
      BY <1>2, PostOne
    <2> QED
      BY <1>2, <2>1 DEF NotesOnly
  <1>3. ASSUME NEW t \in Tabs, NEW ms \in Seq(TabMsg), \A k \in DOMAIN ms : ms[k].kind = "note",
               toTab' = Post(toTab, t, ms), NEW u \in Tabs
        PROVE  NotesOnly(u)
    <2>1. toTab \in [Tabs -> Seq(TabMsg)]
      BY DEF TypeOK
    <2>2. Added(toTab, toTab', t, ms)
      BY <1>3, <2>1, PostFacts
    <2>3. /\ \A v \in Tabs : v # t => toTab'[v] = toTab[v]
          /\ \A i \in DOMAIN toTab'[t] :
               (i \in DOMAIN toTab[t] /\ toTab'[t][i] = toTab[t][i]) \/ toTab'[t][i].kind = "note"
      BY <1>3, <2>2 DEF Added
    <2> QED
      BY <2>3 DEF NotesOnly
  <1> QED
    BY <1>1, <1>2, <1>3

\* Every step keeps what is true of each tab.
LEMMA TabsStep ==
  TypeOK /\ TypeOK' /\ FreshInv /\ (\A u \in Tabs : TabInv(u)) /\ [Next]_vars => \A u \in Tabs : TabInv(u)'
  <1> SUFFICES ASSUME TypeOK, TypeOK', FreshInv, \A u \in Tabs : TabInv(u), [Next]_vars, NEW u \in Tabs
               PROVE  TabInv(u)'
    OBVIOUS
  <1>0. /\ TabInv(u) /\ u # None /\ QueueOK(u) /\ RunsOK(u) /\ TabOK(u) /\ TicketsOK(u)
        /\ Calls \subseteq Sent /\ Notes \subseteq Sent /\ Calls \cap Notes = {} /\ None \notin Tabs
        /\ nextId[u] \in Nat
    BY WorkerAssumption DEF TabInv, Sent, TypeOK
  <1>1. Untouched(u) => TabInv(u)'
    BY <1>0, UntouchedTab
  <1>2. ASSUME NEW t \in Tabs, Connect(t) PROVE TabInv(u)'
    <2>1. PICK hello \in {<<>>, <<Note(t, "context")>>} :
            toTab' = IF kind = "service" THEN toTab
                     ELSE Post(toTab, t, hello \o IF kind = "shared" THEN <<Note(t, "context")>> ELSE <<>>)
      BY <1>2 DEF Connect, ContextPort
    <2> DEFINE ms == hello \o IF kind = "shared" THEN <<Note(t, "context")>> ELSE <<>>
    <2>2. ms \in Seq(TabMsg) /\ \A k \in DOMAIN ms : ms[k] = Note(t, "context")
      BY GreetingFacts
    <2>3. toTab' = toTab \/ toTab' = Post(toTab, t, ms)
      BY <2>1
    <2> HIDE DEF ms
    <2>4. \A k \in DOMAIN ms : ms[k].kind = "note"
      BY <2>2, NoteFacts
    <2>5. NotesOnly(u)
      BY <2>2, <2>3, <2>4, NotesFacts
    <2>6. Untouched(u)
      BY <1>0, <1>2, <2>5 DEF Connect, Untouched
    <2> QED
      BY <1>1, <2>6
  <1>3. ASSUME NEW t \in Tabs, CloseTab(t) PROVE TabInv(u)'
    <2>1. toWorker'[u] \in {toWorker[u], <<>>} /\ toTab'[u] \in {toTab[u], <<>>}
      BY <1>3 DEF CloseTab, TypeOK
    <2>2. NotesOnly(u)
      BY <2>1 DEF NotesOnly
    <2>3. Untouched(u)
      BY <1>0, <1>3, <2>1, <2>2 DEF CloseTab, Untouched
    <2> QED
      BY <1>1, <2>3
  <1>4. ASSUME NEW t \in Tabs, NEW c \in Calls, NEW method \in Called, Rpc(t, c, method) PROVE TabInv(u)'
    <2>0. nextId[t] \in Nat \ {0} /\ method \in Methods /\ caller[c] = None /\ produced[c] = None /\ value[c] = None
      BY <1>4, WorkerAssumption DEF Rpc, TypeOK, FreshInv
    <2>1. PICK m \in CallMsg : m = [id |-> nextId[t], method |-> method, call |-> c]
      BY <1>0, <2>0 DEF CallMsg
    <2>2. m.call = c /\ m.id = nextId[t]
      BY <2>1
    <2>3. PICK p : p = [id |-> m.id, call |-> m.call]
      OBVIOUS
    <2>4. p.id = m.id /\ p.call = c
      BY <2>2, <2>3
    <2>5. toWorker' = Post(toWorker, t, <<m>>)
      BY <1>4, <2>1 DEF Rpc
    <2>6. /\ caller' = [caller EXCEPT ![m.call] = t] /\ UNCHANGED <<running, toTab, produced, value>>
          /\ reply' = [reply EXCEPT ![t] = @ \cup {p}] /\ nextId' = [nextId EXCEPT ![t] = @ + 1]
      BY <1>4, <2>2, <2>3 DEF Rpc
    <2>7. caller'[c] = t /\ \A d \in Sent : d # c => caller'[d] = caller[d]
      BY <1>0, <2>2, <2>6 DEF TypeOK
    <2>8. CASE u # t
      <3>1. toWorker'[u] = toWorker[u]
        BY <2>5, <2>8, PostOne
      <3>2. running'[u] = running[u] /\ reply'[u] = reply[u] /\ nextId'[u] = nextId[u]
        BY <2>6, <2>8 DEF TypeOK
      <3>3. Untouched(u)
        BY <1>0, <2>0, <2>6, <2>7, <3>1, <3>2, NotesFacts DEF Untouched
      <3> QED
        BY <1>1, <3>3
    <2>9. CASE u = t
      <3>1. reply'[t] = reply[t] \cup {p} /\ nextId'[t] = nextId[t] + 1
        BY <2>6 DEF TypeOK
      <3>2. Promised(t, m)'
        BY <2>3, <3>1 DEF Promised
      <3>3. IF m.call \in Calls THEN m.id # 0 /\ Promised(t, m)' /\ produced[m.call] = None ELSE m.id = 0
        BY <2>0, <2>2, <3>2
      <3>4. QueueOK(t)' /\ RunsOK(t)' /\ TabOK(t)'
        <4>1. TabInv(t) /\ caller[m.call] = None /\ reply[t] \subseteq reply'[t]
          BY <2>0, <2>2, <3>1
        <4> QED
          BY <2>5, <2>6, <3>3, <4>1, SentTab
      <3>5. TicketsOK(t)'
        <4>1. \A q \in reply[t] : /\ q.id \in Nat /\ q.id < nextId[t] /\ q.call \in Sent /\ q.call # c
                                  /\ caller[q.call] = t /\ value[q.call] = None
          BY <1>0, <2>0, <2>9, TabTypes DEF TicketsOK
        <4>2. \A q \in reply[t] : /\ q.id # nextId[t] /\ q.id < nextId[t] + 1 /\ nextId[t] < nextId[t] + 1
                                  /\ q.call # c
          BY <2>0, <4>1
        <4>5. nextId[t] < nextId[t] + 1
          BY <2>0
        <4>3. \A q \in reply'[t] : caller'[q.call] = t /\ q.id < nextId'[t] /\ value'[q.call] = None
          BY <2>0, <2>2, <2>4, <2>6, <2>7, <3>1, <4>1, <4>2, <4>5
        <4>4. \A q, s \in reply'[t] : q.id = s.id \/ q.call = s.call => q = s
          BY <1>0, <2>2, <2>4, <2>9, <3>1, <4>2 DEF TicketsOK
        <4> QED
          BY <4>3, <4>4 DEF TicketsOK
      <3> QED
        BY <2>9, <3>4, <3>5 DEF TabInv
    <2> QED
      BY <2>8, <2>9
  <1>5. ASSUME NEW t \in Tabs, NEW c \in Calls, RpcThrows(t, c) PROVE TabInv(u)'
    <2>1. /\ caller[c] = None /\ caller' = [caller EXCEPT ![c] = t] /\ nextId' = [nextId EXCEPT ![t] = @ + 1]
          /\ value' = [value EXCEPT ![c] = "rejected"] /\ UNCHANGED <<running, toTab, toWorker, produced, reply>>
      BY <1>5 DEF RpcThrows
    <2>2. \A d \in Sent : d # c => caller'[d] = caller[d]
      BY <2>1 DEF TypeOK
    <2>3. \A d \in Calls : d # c => value'[d] = value[d]
      BY <2>1 DEF TypeOK
    <2>4. nextId'[u] >= nextId[u]
      BY <1>0, <2>1 DEF TypeOK
    <2>5. Untouched(u)
      BY <1>0, <2>1, <2>2, <2>3, <2>4, NotesFacts DEF Untouched
    <2> QED
      BY <1>1, <2>5
  <1>6. ASSUME NEW t \in Tabs, NEW n \in Notes, NEW method \in Noted, Notify(t, n, method) PROVE TabInv(u)'
    <2>0. method \in Methods /\ n \in Sent /\ n \notin Calls
      BY <1>0, WorkerAssumption
    <2>1. PICK m \in CallMsg : m = [id |-> 0, method |-> method, call |-> n]
      BY <1>0, <2>0 DEF CallMsg
    <2>2. m.call = n /\ m.id = 0
      BY <2>1
    <2>3. toWorker' = Post(toWorker, t, <<m>>) /\ caller[m.call] = None
      BY <1>6, <2>1, <2>2 DEF Notify
    <2>4. /\ caller' = [caller EXCEPT ![m.call] = t]
          /\ UNCHANGED <<running, toTab, produced, value, reply, nextId>>
      BY <1>6, <2>2 DEF Notify
    <2>5. \A d \in Sent : d # n => caller'[d] = caller[d]
      BY <2>2, <2>4 DEF TypeOK
    <2>6. CASE u # t
      <3>1. toWorker'[u] = toWorker[u]
        BY <2>3, <2>6, PostOne
      <3>2. Untouched(u)
        BY <1>0, <2>2, <2>3, <2>4, <2>5, <3>1, NotesFacts DEF Untouched
      <3> QED
        BY <1>1, <3>2
    <2>7. CASE u = t
      <3>1. IF m.call \in Calls THEN m.id # 0 /\ Promised(t, m)' /\ produced[m.call] = None ELSE m.id = 0
        BY <2>0, <2>2
      <3>2. QueueOK(t)' /\ RunsOK(t)' /\ TabOK(t)'
        <4>1. TabInv(t) /\ reply[t] \subseteq reply'[t] /\ UNCHANGED <<running, toTab, produced>>
          BY <2>4
        <4> QED
          BY <2>3, <2>4, <3>1, <4>1, SentTab
      <3>3. TicketsOK(t)'
        <4>1. \A q \in reply[t] : q.call \in Sent /\ q.call # n
          BY <1>0, <2>0, TabTypes
        <4> QED
          BY <1>0, <2>4, <2>5, <2>7, <4>1 DEF TicketsOK
      <3> QED
        BY <2>7, <3>2, <3>3 DEF TabInv
    <2> QED
      BY <2>6, <2>7
  <1>7. ASSUME NEW t \in Tabs, Serve(t) \/ ServeUnknown(t) PROVE TabInv(u)'
    <2>1. /\ toWorker[t] # <<>> /\ toWorker' = [toWorker EXCEPT ![t] = Tail(@)]
          /\ UNCHANGED <<caller, reply, produced, value, nextId>>
      BY <1>7 DEF Serve, ServeUnknown
    <2>2. PICK outs : running' = [running EXCEPT ![t] = @ \cup
                        {[id |-> Head(toWorker[t]).id, call |-> Head(toWorker[t]).call, outs |-> outs]}]
      BY <1>7 DEF Serve, ServeUnknown
    <2>3. PICK r : r = [id |-> Head(toWorker[t]).id, call |-> Head(toWorker[t]).call, outs |-> outs]
      OBVIOUS
    <2>4. r.id = Head(toWorker[t]).id /\ r.call = Head(toWorker[t]).call
      BY <2>3
    <2>5. running'[t] = running[t] \cup {r} /\ (u # t => running'[u] = running[u])
      BY <2>2, <2>3 DEF TypeOK
    <2>6. \/ toTab' = toTab
          \/ toTab' = Post(toTab, t, <<Note(t, "context")>>)
          \/ logPort # None /\ toTab' = Post(toTab, logPort, <<Note(t, "log")>>)
      BY <1>7 DEF Serve, ServeUnknown, ContextPort
    <2>7. NotesOnly(u)
      <3>1. logPort # None => logPort \in Tabs
        BY DEF TypeOK
      <3>2. /\ Note(t, "context") \in TabMsg /\ Note(t, "context").kind = "note"
            /\ Note(t, "log") \in TabMsg /\ Note(t, "log").kind = "note"
        BY NoteFacts
      <3>3. CASE toTab' = toTab
        BY <3>3, NotesFacts
      <3>4. CASE toTab' = Post(toTab, t, <<Note(t, "context")>>)
        BY <3>2, <3>4, NotesFacts
      <3>5. CASE logPort # None /\ toTab' = Post(toTab, logPort, <<Note(t, "log")>>)
        BY <3>1, <3>2, <3>5, NotesFacts
      <3> QED
        BY <2>6, <3>3, <3>4, <3>5
    <2>8. CASE u # t
      <3>1. toWorker'[u] = toWorker[u]
        BY <2>1, <2>8 DEF TypeOK
      <3>2. Untouched(u)
        BY <1>0, <2>1, <2>5, <2>7, <2>8, <3>1 DEF Untouched
      <3> QED
        BY <1>1, <3>2
    <2>9. CASE u = t
      <3>1. QueueOK(t)' /\ RunsOK(t)'
        BY <2>1, <2>4, <2>5, ServedTab
      <3>2. TabOK(t)'
        BY <1>0, <2>1, <2>7, <2>9, NotedTab
      <3>3. TicketsOK(t)'
        BY <1>0, <2>1, <2>9 DEF TicketsOK
      <3> QED
        BY <2>9, <3>1, <3>2, <3>3 DEF TabInv
    <2> QED
      BY <2>8, <2>9
  <1>8. ASSUME NEW t \in Tabs, Refuse(t) PROVE TabInv(u)'
    <2>1. /\ toWorker[t] # <<>> /\ toWorker' = [toWorker EXCEPT ![t] = Tail(@)]
          /\ UNCHANGED <<caller, reply, value, nextId, running>>
          /\ produced' = Answered(Head(toWorker[t]).call, "error")
          /\ toTab' = Post(toTab, t, <<ReplyOf(Head(toWorker[t]), "error")>>)
      BY <1>8 DEF Refuse
    <2>2. QueueOK(t) /\ TabOK(t) /\ TicketsOK(t)
      BY DEF TabInv
    <2>3. PICK h \in CallMsg : h = Head(toWorker[t]) /\ h.call \in Sent /\ AsksFor(t, h)
      BY <2>1, <2>2, TakenFacts
    <2>4. h.id \in Nat /\ "error" \in DOMAIN Settled /\ "error" \in Outcomes
      BY RecordFacts
    <2>5. caller[h.call] = t /\ \A c \in Calls : c # h.call => produced'[c] = produced[c]
      BY <2>1, <2>3 DEF AsksFor, Answered
    <2>6. CASE u # t
      <3>1. toWorker'[u] = toWorker[u]
        BY <2>1, <2>6 DEF TypeOK
      <3>2. PICK k \in TabMsg : toTab' = Post(toTab, t, <<k>>)
        BY <2>1, <2>3, <2>4, ReplyFacts
      <3>3. toTab'[u] = toTab[u]
        BY <2>6, <3>2, PostOne
      <3>4. NotesOnly(u)
        BY <3>3 DEF NotesOnly
      <3>5. Untouched(u)
        BY <1>0, <2>1, <2>5, <2>6, <3>1, <3>4 DEF Untouched
      <3> QED
        BY <1>1, <3>5
    <2>7. CASE u = t
      <3>1. QueueOK(t)' /\ RunsOK(t)'
        BY <2>1, RefusedTab
      <3>2. TabOK(t)'
        BY <2>1, <2>2, <2>3, <2>4, AnsweredTab
      <3>3. TicketsOK(t)'
        BY <2>1, <2>2 DEF TicketsOK
      <3> QED
        BY <2>7, <3>1, <3>2, <3>3 DEF TabInv
    <2> QED
      BY <2>6, <2>7
  <1>9. ASSUME NEW t \in Tabs, NEW r \in running[t], NEW o \in r.outs, Finish(t, r, o) PROVE TabInv(u)'
    <2>1. /\ running' = [running EXCEPT ![t] = @ \ {r}] /\ UNCHANGED <<caller, reply, value, nextId, toWorker>>
          /\ produced' = Answered(r.call, o)
          /\ toTab' = toTab \/ (o # "mute" /\ toTab' = Post(toTab, t, <<ReplyOf(r, o)>>))
      BY <1>9 DEF Finish
    <2>2. RunsOK(t) /\ TabOK(t) /\ TicketsOK(t)
      BY DEF TabInv
    <2>3. AsksFor(t, r) /\ r \in Run /\ r.call \in Sent
      BY <2>2, TabTypes DEF RunsOK
    <2>4. r.id \in Nat /\ o \in Outcomes /\ (o # "mute" => o \in DOMAIN Settled)
      BY <2>3, RecordFacts
    <2>5. caller[r.call] = t /\ \A c \in Calls : c # r.call => produced'[c] = produced[c]
      BY <2>1, <2>3 DEF AsksFor, Answered
    <2>6. CASE u # t
      <3>1. running'[u] = running[u]
        BY <2>1, <2>6 DEF TypeOK
      <3>2. toTab' = toTab \/ \E k \in TabMsg : toTab' = Post(toTab, t, <<k>>)
        BY <2>1, <2>3, <2>4, ReplyFacts
      <3>3. toTab'[u] = toTab[u]
        <4>1. CASE toTab' = toTab
          BY <4>1
        <4>2. CASE \E k \in TabMsg : toTab' = Post(toTab, t, <<k>>)
          <5>1. PICK k \in TabMsg : toTab' = Post(toTab, t, <<k>>)
            BY <4>2
          <5> QED
            BY <2>6, <5>1, PostOne
        <4> QED
          BY <3>2, <4>1, <4>2
      <3>4. NotesOnly(u)
        BY <3>3 DEF NotesOnly
      <3>5. Untouched(u)
        BY <1>0, <2>1, <2>5, <2>6, <3>1, <3>4 DEF Untouched
      <3> QED
        BY <1>1, <3>5
    <2>7. CASE u = t
      <3>1. QueueOK(t)' /\ RunsOK(t)'
        BY <2>1, FinishedTab
      <3>2. TabOK(t)'
        BY <2>1, <2>2, <2>3, <2>4, AnsweredTab
      <3>3. TicketsOK(t)'
        BY <2>1, <2>2 DEF TicketsOK
      <3> QED
        BY <2>7, <3>1, <3>2, <3>3 DEF TabInv
    <2> QED
      BY <2>6, <2>7
  <1>10. ASSUME NEW t \in Tabs, Recv(t) PROVE TabInv(u)'
    <2>1. CASE u = t
      BY <1>10, <2>1, RecvTab
    <2>2. CASE u # t
      <3>5. UNCHANGED <<caller, nextId, toWorker, running, produced>>
        BY <1>10 DEF Recv
      <3>6. \A v \in Tabs : v # t => toTab'[v] = toTab[v]
        BY <1>10, RecvFacts
      <3>1. toTab'[u] = toTab[u] /\ UNCHANGED <<caller, nextId, toWorker, running, produced>>
        BY <2>2, <3>5, <3>6
      <3>2. reply'[u] = reply[u] /\ \A c \in Calls : caller[c] = u => value'[c] = value[c]
        <4>1. CASE UNCHANGED <<reply, value>>
          BY <4>1
        <4>2. CASE \E m, p : /\ m = toTab[t][1] /\ m.kind = "reply" /\ m.call \in Calls /\ m.outcome \in DOMAIN Settled
                            /\ p \in reply[t] /\ p.call = m.call
                            /\ produced[m.call] = m.outcome /\ value[m.call] = None /\ caller[m.call] = t
                            /\ reply' = [reply EXCEPT ![t] = @ \ {p}]
                            /\ value' = [value EXCEPT ![m.call] = Settled[m.outcome]]
          BY <2>2, <4>2 DEF TypeOK
        <4> QED
          BY <1>10, <4>1, <4>2, RecvFacts
      <3>3. NotesOnly(u)
        BY <3>1 DEF NotesOnly
      <3>4. Untouched(u)
        BY <1>0, <3>1, <3>2, <3>3 DEF Untouched
      <3> QED
        BY <1>1, <3>4
    <2> QED
      BY <2>1, <2>2
  <1>11. CASE UNCHANGED vars
    <2>1. Untouched(u)
      BY <1>0, <1>11, NotesFacts DEF Untouched, vars
    <2> QED
      BY <1>1, <2>1
  <1> QED
    BY <1>2, <1>3, <1>4, <1>5, <1>6, <1>7, <1>8, <1>9, <1>10, <1>11 DEF Next, Deliver, FinishCall
----------------------------------------------------------------------------
(* Calls and logs.                                                          *)

\* What may happen to the calls: one is made, one is answered, one settled.
Made(c, t) ==
  /\ caller[c] = None /\ caller' = [caller EXCEPT ![c] = t] /\ produced' = produced
  /\ value' \in {value, [value EXCEPT ![c] = "rejected"]}

AnsweredNow(c, t, o) ==
  /\ caller[c] = t /\ UNCHANGED <<caller, value>> /\ produced' = Answered(c, o)
  /\ c \in Calls => produced[c] = None /\ value[c] = None

SettledNow(c, t) ==
  /\ caller[c] = t /\ UNCHANGED <<caller, produced>>
  /\ produced[c] \in DOMAIN Settled /\ value[c] = None
  /\ value' = [value EXCEPT ![c] = Settled[produced[c]]]

CallsKept == UNCHANGED <<caller, produced, value>>

\* Every step does one of these, or nothing, to the calls.
LEMMA CallsStep ==
  ASSUME TypeOK, FreshInv, \A t \in Tabs : TabInv(t), [Next]_vars
  PROVE  \/ CallsKept
         \/ \E t \in Tabs, c \in Sent : Made(c, t) /\ (c \in Calls \/ value' = value)
         \/ \E t \in Tabs, c \in Sent, o \in Outcomes : AnsweredNow(c, t, o)
         \/ \E t \in Tabs, c \in Calls : SettledNow(c, t)
  <1>0. Calls \subseteq Sent /\ Notes \subseteq Sent /\ "error" \in Outcomes
    BY DEF Sent, Outcomes
  <1>1. ASSUME NEW t \in Tabs, Connect(t) \/ CloseTab(t) \/ Serve(t) \/ ServeUnknown(t) PROVE CallsKept
    BY <1>1 DEF Connect, CloseTab, Serve, ServeUnknown, CallsKept
  <1>2. ASSUME NEW t \in Tabs, NEW c \in Calls, RpcThrows(t, c) \/ \E method \in Called : Rpc(t, c, method)
        PROVE  c \in Sent /\ Made(c, t)
    BY <1>0, <1>2 DEF Rpc, RpcThrows, Made
  <1>3. ASSUME NEW t \in Tabs, NEW n \in Notes, NEW method \in Noted, Notify(t, n, method)
        PROVE  n \in Sent /\ Made(n, t) /\ value' = value
    BY <1>0, <1>3 DEF Notify, Made
  <1>4. ASSUME NEW t \in Tabs, NEW m, m.call \in Sent, AsksFor(t, m), NEW o,
               produced' = Answered(m.call, o), UNCHANGED <<caller, value>>
        PROVE  AnsweredNow(m.call, t, o)
    <2>1. TicketsOK(t)
      BY DEF TabInv
    <2>2. [id |-> m.id, call |-> m.call].call = m.call
      OBVIOUS
    <2>3. m.call \in Calls => produced[m.call] = None /\ value[m.call] = None
      BY <1>4, <2>1, <2>2 DEF AsksFor, Promised, TicketsOK
    <2>4. caller[m.call] = t
      BY <1>4 DEF AsksFor
    <2> QED
      BY <1>4, <2>3, <2>4 DEF AnsweredNow
  <1>5. ASSUME NEW t \in Tabs, Refuse(t)
        PROVE  \E c \in Sent, o \in Outcomes : AnsweredNow(c, t, o)
    <2>1. QueueOK(t) /\ toWorker[t] # <<>> /\ toWorker' = [toWorker EXCEPT ![t] = Tail(@)]
      BY <1>5 DEF TabInv, Refuse
    <2>2. PICK h \in CallMsg : h = Head(toWorker[t]) /\ h.call \in Sent /\ AsksFor(t, h)
      BY <2>1, TakenFacts
    <2>3. AnsweredNow(h.call, t, "error")
      BY <1>4, <1>5, <2>2 DEF Refuse
    <2> QED
      BY <1>0, <2>2, <2>3
  <1>6. ASSUME NEW t \in Tabs, NEW r \in running[t], NEW o \in r.outs, Finish(t, r, o)
        PROVE  \E c \in Sent, q \in Outcomes : AnsweredNow(c, t, q)
    <2>1. AsksFor(t, r) /\ r.call \in Sent /\ r \in Run
      BY TabTypes DEF TabInv, RunsOK
    <2>2. o \in Outcomes
      BY <2>1, RecordFacts
    <2>3. AnsweredNow(r.call, t, o)
      BY <1>4, <1>6, <2>1 DEF Finish
    <2> QED
      BY <2>1, <2>2, <2>3
  <1>7. ASSUME NEW t \in Tabs, Recv(t)
        PROVE  CallsKept \/ \E c \in Calls : SettledNow(c, t)
    <2>1. UNCHANGED <<caller, produced>>
      BY <1>7 DEF Recv
    <2>2. CASE UNCHANGED <<reply, value>>
      BY <2>1, <2>2 DEF CallsKept
    <2>3. CASE \E m, p : /\ m = toTab[t][1] /\ m.kind = "reply" /\ m.call \in Calls /\ m.outcome \in DOMAIN Settled
                        /\ p \in reply[t] /\ p.call = m.call
                        /\ produced[m.call] = m.outcome /\ value[m.call] = None /\ caller[m.call] = t
                        /\ reply' = [reply EXCEPT ![t] = @ \ {p}]
                        /\ value' = [value EXCEPT ![m.call] = Settled[m.outcome]]
      <3>1. PICK m : /\ m.call \in Calls /\ m.outcome \in DOMAIN Settled
                     /\ produced[m.call] = m.outcome /\ value[m.call] = None /\ caller[m.call] = t
                     /\ value' = [value EXCEPT ![m.call] = Settled[m.outcome]]
        BY <2>3
      <3>2. SettledNow(m.call, t)
        BY <2>1, <3>1 DEF SettledNow
      <3> QED
        BY <3>1, <3>2
    <2> QED
      BY <1>7, <2>2, <2>3, RecvFacts
  <1>8. CASE UNCHANGED vars
    BY <1>8 DEF vars, CallsKept
  <1> QED
    BY <1>1, <1>2, <1>3, <1>5, <1>6, <1>7, <1>8 DEF Next, Deliver, FinishCall

\* A call that was not made has come to nothing yet.
LEMMA FreshStep ==
  ASSUME TypeOK, FreshInv, \A t \in Tabs : TabInv(t), [Next]_vars
  PROVE  FreshInv'
  <1> SUFFICES ASSUME NEW d \in Calls, caller'[d] = None PROVE produced'[d] = None /\ value'[d] = None
    BY DEF FreshInv
  <1>0. /\ None \notin Tabs /\ d \in Sent /\ caller \in [Sent -> Tabs \cup {None}]
        /\ value \in [Calls -> {"value", "rejected", None}]
    BY WorkerAssumption DEF TypeOK, Sent
  <1>1. CASE CallsKept
    BY <1>1 DEF CallsKept, FreshInv
  <1>2. CASE \E t \in Tabs, c \in Sent : Made(c, t) /\ (c \in Calls \/ value' = value)
    <2>1. PICK t \in Tabs, c \in Sent : Made(c, t) /\ (c \in Calls \/ value' = value)
      BY <1>2
    <2>2. d # c
      BY <1>0, <2>1 DEF Made
    <2> QED
      BY <1>0, <2>1, <2>2 DEF Made, FreshInv
  <1>3. CASE \E t \in Tabs, c \in Sent, o \in Outcomes : AnsweredNow(c, t, o)
    BY <1>0, <1>3 DEF AnsweredNow, Answered, FreshInv
  <1>4. CASE \E t \in Tabs, c \in Calls : SettledNow(c, t)
    BY <1>0, <1>4 DEF SettledNow, FreshInv
  <1> QED
    BY <1>1, <1>2, <1>3, <1>4, CallsStep

\* New notes reach who they should, and the first port keeps the default log.
LEMMA LogStep ==
  ASSUME TypeOK, LogInv, [Next]_vars
  PROVE  LogInv'
  <1>0. None \notin Tabs /\ toTab \in [Tabs -> Seq(TabMsg)]
    BY WorkerAssumption DEF TypeOK
  \* Enough: what is new on a wire is a reply, or reaches who it should.
  <1>1. ASSUME logPort' = logPort \/ logPort = None,
               \A u \in Tabs : \A i \in DOMAIN toTab'[u] :
                 \/ \E j \in DOMAIN toTab[u] : toTab'[u][i] = toTab[u][j]
                 \/ toTab'[u][i].kind = "reply"
                 \/ toTab'[u][i].of = u
                 \/ toTab'[u][i].via = "log" /\ u = logPort'
        PROVE  LogsReachTheirTab'
    BY <1>0, <1>1 DEF LogInv, LogsReachTheirTab
  <1>2. ASSUME NEW t \in Tabs, NEW m \in TabMsg, toTab' = Post(toTab, t, <<m>>)
        PROVE  \A u \in Tabs : \A i \in DOMAIN toTab'[u] :
                 (\E j \in DOMAIN toTab[u] : toTab'[u][i] = toTab[u][j]) \/ (u = t /\ toTab'[u][i] = m)
    <2>1. /\ \A u \in Tabs : u # t => toTab'[u] = toTab[u]
          /\ \A i \in DOMAIN toTab'[t] : (i \in DOMAIN toTab[t] /\ toTab'[t][i] = toTab[t][i]) \/ toTab'[t][i] = m
      BY <1>2, PostOne
    <2> QED
      BY <2>1
  <1>3. ASSUME UNCHANGED <<api, logPort, toTab>> PROVE LogInv'
    BY <1>3 DEF LogInv, LogsReachTheirTab
  <1>4. ASSUME NEW t \in Tabs, Connect(t) PROVE LogInv'
    <2>1. PICK hello \in {<<>>, <<Note(t, "context")>>} :
            toTab' = IF kind = "service" THEN toTab
                     ELSE Post(toTab, t, hello \o IF kind = "shared" THEN <<Note(t, "context")>> ELSE <<>>)
      BY <1>4 DEF Connect, ContextPort
    <2> DEFINE ms == hello \o IF kind = "shared" THEN <<Note(t, "context")>> ELSE <<>>
    <2>2. ms \in Seq(TabMsg) /\ \A k \in DOMAIN ms : ms[k] = Note(t, "context")
      BY GreetingFacts
    <2>3. toTab' = toTab \/ toTab' = Post(toTab, t, ms)
      BY <2>1
    <2> HIDE DEF ms
    <2>4. \A u \in Tabs : \A i \in DOMAIN toTab'[u] :
            (\E j \in DOMAIN toTab[u] : toTab'[u][i] = toTab[u][j]) \/ toTab'[u][i].of = u
      <3>1. CASE toTab' = toTab
        BY <3>1
      <3>2. CASE toTab' = Post(toTab, t, ms)
        <4>1. Added(toTab, toTab', t, ms)
          BY <1>0, <2>2, <3>2, PostFacts
        <4>2. \A k \in DOMAIN ms : ms[k].of = t
          BY <2>2, NoteFacts
        <4> QED
          BY <4>1, <4>2 DEF Added
      <3> QED
        BY <2>3, <3>1, <3>2
    <2>5. (logPort' = logPort /\ api' = api) \/ (logPort = None /\ "log" \in api')
      BY <1>4 DEF Connect, LogInv
    <2>6. LogsReachTheirTab'
      BY <1>1, <2>4, <2>5
    <2> QED
      BY <2>5, <2>6 DEF LogInv
  <1>5. ASSUME NEW t \in Tabs, CloseTab(t) \/ Recv(t) PROVE LogInv'
    <2>1. UNCHANGED <<api, logPort>>
      BY <1>5 DEF CloseTab, Recv
    <2>2. \A u \in Tabs : \A i \in DOMAIN toTab'[u] : \E j \in DOMAIN toTab[u] : toTab'[u][i] = toTab[u][j]
      <3>1. CASE CloseTab(t)
        <4>1. \A u \in Tabs : toTab'[u] = toTab[u] \/ toTab'[u] = <<>>
          BY <1>0, <3>1 DEF CloseTab
        <4> QED
          BY <4>1
      <3>2. CASE Recv(t)
        <4>1. toTab[t] # <<>> /\ toTab' = [toTab EXCEPT ![t] = Tail(@)]
          BY <3>2 DEF Recv
        <4>2. /\ \A u \in Tabs : u # t => toTab'[u] = toTab[u]
              /\ \A i \in DOMAIN toTab'[t] : i + 1 \in DOMAIN toTab[t] /\ toTab'[t][i] = toTab[t][i + 1]
          BY <1>0, <4>1, TakeFacts
        <4> QED
          BY <4>2
      <3> QED
        BY <1>5, <3>1, <3>2
    <2>3. LogsReachTheirTab'
      BY <1>1, <2>1, <2>2
    <2> QED
      BY <2>1, <2>3 DEF LogInv
  <1>6. ASSUME NEW t \in Tabs, Serve(t) \/ ServeUnknown(t) PROVE LogInv'
    <2>1. /\ UNCHANGED <<api, logPort>>
          /\ \/ toTab' = toTab
             \/ toTab' = Post(toTab, t, <<Note(t, "context")>>)
             \/ logPort # None /\ toTab' = Post(toTab, logPort, <<Note(t, "log")>>)
      BY <1>6 DEF Serve, ServeUnknown, ContextPort
    <2>2. logPort # None => logPort \in Tabs
      BY DEF TypeOK
    <2>3. CASE toTab' = toTab
      BY <1>3, <2>1, <2>3
    <2>4. CASE toTab' = Post(toTab, t, <<Note(t, "context")>>)
      <3>1. LogsReachTheirTab'
        BY <1>1, <1>2, <2>1, <2>4, NoteFacts
      <3> QED
        BY <2>1, <3>1 DEF LogInv
    <2>5. CASE logPort # None /\ toTab' = Post(toTab, logPort, <<Note(t, "log")>>)
      <3>1. LogsReachTheirTab'
        BY <1>1, <1>2, <2>1, <2>2, <2>5, NoteFacts
      <3> QED
        BY <2>1, <3>1 DEF LogInv
    <2> QED
      BY <2>1, <2>3, <2>4, <2>5
  <1>7. ASSUME NEW t \in Tabs, UNCHANGED <<api, logPort>>,
               NEW m, m.id \in Nat, m.call \in Sent, NEW o \in DOMAIN Settled,
               toTab' = Post(toTab, t, <<ReplyOf(m, o)>>)
        PROVE  LogInv'
    <2>1. PICK k \in TabMsg : k.kind = "reply" /\ toTab' = Post(toTab, t, <<k>>)
      BY <1>7, ReplyFacts
    <2>2. LogsReachTheirTab'
      BY <1>1, <1>2, <1>7, <2>1
    <2> QED
      BY <1>7, <2>2 DEF LogInv
  <1>8. ASSUME NEW t \in Tabs, Refuse(t) PROVE LogInv'
    <2>1. toWorker[t] # <<>> /\ toWorker \in [Tabs -> Seq(CallMsg)] /\ "error" \in DOMAIN Settled
      BY <1>8, RecordFacts DEF Refuse, TypeOK
    <2>2. Head(toWorker[t]) \in CallMsg
      BY <2>1, TakeFacts
    <2> QED
      BY <1>7, <1>8, <2>1, <2>2, RecordFacts DEF Refuse
  <1>9. ASSUME NEW t \in Tabs, NEW r \in running[t], NEW o \in r.outs, Finish(t, r, o) PROVE LogInv'
    <2>1. r \in Run /\ r.id \in Nat /\ r.call \in Sent /\ o \in Outcomes
      BY TabTypes, RecordFacts
    <2>2. UNCHANGED <<api, logPort>> /\ (toTab' = toTab \/ (o # "mute" /\ toTab' = Post(toTab, t, <<ReplyOf(r, o)>>)))
      BY <1>9 DEF Finish
    <2>3. o # "mute" => o \in DOMAIN Settled
      BY <2>1, RecordFacts
    <2> QED
      BY <1>3, <1>7, <2>1, <2>2, <2>3
  <1>10. ASSUME NEW t \in Tabs, NEW c \in Calls, RpcThrows(t, c) \/ \E method \in Called : Rpc(t, c, method)
         PROVE  LogInv'
    BY <1>3, <1>10 DEF RpcThrows, Rpc
  <1>11. ASSUME NEW t \in Tabs, NEW n \in Notes, NEW method \in Noted, Notify(t, n, method) PROVE LogInv'
    BY <1>3, <1>11 DEF Notify
  <1>12. CASE UNCHANGED vars
    BY <1>3, <1>12 DEF vars
  <1> QED
    BY <1>4, <1>5, <1>6, <1>8, <1>9, <1>10, <1>11, <1>12 DEF Next, Deliver, FinishCall
----------------------------------------------------------------------------
\* The inductive invariant holds at the start.
LEMMA WorkerInitial == Init => WorkerInv
  <1> SUFFICES ASSUME Init PROVE WorkerInv
    OBVIOUS
  <1>1. TypeOK
    BY WorkerAssumption DEF Init, TypeOK
  <1>2. FreshInv /\ LogInv
    BY DEF Init, FreshInv, LogInv, LogsReachTheirTab
  <1>3. \A t \in Tabs : toWorker[t] = <<>> /\ toTab[t] = <<>> /\ running[t] = {} /\ reply[t] = {}
    BY DEF Init
  <1>4. \A t \in Tabs : TabInv(t)
    BY <1>3 DEF TabInv, QueueOK, RunsOK, TabOK, TicketsOK
  <1> QED
    BY <1>1, <1>2, <1>4 DEF WorkerInv

\* ... and every step keeps it.
LEMMA WorkerStep == WorkerInv /\ [Next]_vars => WorkerInv'
  <1> SUFFICES ASSUME WorkerInv, [Next]_vars PROVE WorkerInv'
    OBVIOUS
  <1>1. TypeOK /\ FreshInv /\ LogInv /\ \A t \in Tabs : TabInv(t)
    BY DEF WorkerInv
  <1>2. TypeOK'
    BY <1>1, TypeStep
  <1>3. FreshInv'
    BY <1>1, FreshStep
  <1>4. LogInv'
    BY <1>1, LogStep
  <1>5. \A t \in Tabs : TabInv(t)'
    BY <1>1, <1>2, TabsStep
  <1> QED
    BY <1>2, <1>3, <1>4, <1>5 DEF WorkerInv

LEMMA WorkerInvariant == Spec => []WorkerInv
  BY WorkerInitial, WorkerStep, PTL DEF Spec

\* The variables keep their types, whatever the api and the kind of worker.
THEOREM TypeCorrect == Spec => []TypeOK
  <1>1. WorkerInv => TypeOK
    BY DEF WorkerInv
  <1> QED
    BY <1>1, WorkerInvariant, PTL

\* For any tabs and calls: a numbered reply is on the port of the tab that made
\* the call, and one promise is registered there under its number, that call's.
THEOREM Correlation == Spec => []RepliesFindTheirCall
  <1>1. WorkerInv => RepliesFindTheirCall
    <2> SUFFICES ASSUME WorkerInv, NEW t \in Tabs, NEW i \in DOMAIN toTab[t],
                        toTab[t][i].kind = "reply", toTab[t][i].id # 0
                 PROVE  /\ caller[toTab[t][i].call] = t
                        /\ Pending(t, toTab[t][i].id) = {[id |-> toTab[t][i].id, call |-> toTab[t][i].call]}
      BY DEF RepliesFindTheirCall
    <2> DEFINE m == toTab[t][i]
    <2>1. Replies(t, m) /\ TicketsOK(t)
      BY DEF WorkerInv, TabInv, TabOK
    <2>2. m.id # 0
      OBVIOUS
    <2> HIDE DEF m
    <2>3. caller[m.call] = t /\ [id |-> m.id, call |-> m.call] \in reply[t]
      BY <2>1, <2>2 DEF Replies, Promised
    <2>4. Pending(t, m.id) = {[id |-> m.id, call |-> m.call]}
      BY <2>1, <2>3 DEF Pending, TicketsOK
    <2> QED
      BY <2>3, <2>4 DEF m
  <1> QED
    BY <1>1, WorkerInvariant, PTL

\* For any tabs: what the worker tells of a tab's messages reaches that tab, but
\* for the default log, which has the port of the tab that connected first.
THEOREM Logs == Spec => []LogsReachTheirTab
  <1>1. WorkerInv => LogsReachTheirTab
    BY DEF WorkerInv, LogInv
  <1> QED
    BY <1>1, WorkerInvariant, PTL
----------------------------------------------------------------------------
(* The refinement.                                                          *)

\* Every step is a step of RpcCalls or changes nothing there.
LEMMA PromiseStep == WorkerInv /\ [Next]_vars => [Promises!CallsNext]_(Promises!callVars)
  <1> SUFFICES ASSUME WorkerInv, [Next]_vars
               PROVE  Promises!CallsNext \/ UNCHANGED Promises!callVars
    OBVIOUS
  <1>0. /\ TypeOK /\ FreshInv /\ \A t \in Tabs : TabInv(t)
        /\ None \notin Tabs
        /\ caller \in [Sent -> Tabs \cup {None}] /\ Calls \subseteq Sent
        /\ produced \in [Calls -> Outcomes \cup {None}]
    BY WorkerAssumption DEF WorkerInv, TypeOK, Sent
  <1>1. CASE CallsKept
    BY <1>1 DEF CallsKept, Promises!callVars
  <1>2. CASE \E t \in Tabs, c \in Sent : Made(c, t) /\ (c \in Calls \/ value' = value)
    <2>1. PICK t \in Tabs, c \in Sent : Made(c, t) /\ (c \in Calls \/ value' = value)
      BY <1>2
    <2>2. CASE c \in Calls
      <3>1. {d \in Calls : caller'[d] # None} = {d \in Calls : caller[d] # None} \cup {c}
        BY <1>0, <2>1, <2>2 DEF Made
      <3>2. Promises!Ask(c)
        BY <2>1, <3>1 DEF Made, Promises!Ask
      <3> QED
        BY <2>2, <3>2 DEF Promises!CallsNext
    <2>3. CASE c \notin Calls
      <3>1. {d \in Calls : caller'[d] # None} = {d \in Calls : caller[d] # None}
        BY <1>0, <2>1, <2>3 DEF Made
      <3> QED
        BY <2>1, <2>3, <3>1 DEF Made, Promises!callVars
    <2> QED
      BY <2>2, <2>3
  <1>3. CASE \E t \in Tabs, c \in Sent, o \in Outcomes : AnsweredNow(c, t, o)
    <2>1. PICK t \in Tabs, c \in Sent, o \in Outcomes : AnsweredNow(c, t, o)
      BY <1>3
    <2>2. CASE c \in Calls
      <3>1. produced' = [produced EXCEPT ![c] = o]
        BY <1>0, <2>1 DEF AnsweredNow, Answered
      <3>2. Promises!Answer(c, o)
        BY <1>0, <2>1, <2>2, <3>1 DEF AnsweredNow, Promises!Answer
      <3> QED
        BY <2>1, <2>2, <3>2 DEF Promises!CallsNext
    <2>3. CASE c \notin Calls
      <3>1. produced' = produced
        BY <1>0, <2>1, <2>3 DEF AnsweredNow, Answered
      <3> QED
        BY <2>1, <3>1 DEF AnsweredNow, Promises!callVars
    <2> QED
      BY <2>2, <2>3
  <1>4. CASE \E t \in Tabs, c \in Calls : SettledNow(c, t)
    <2>1. PICK t \in Tabs, c \in Calls : SettledNow(c, t)
      BY <1>4
    <2>2. Promises!Settle(c)
      BY <2>1 DEF SettledNow, Promises!Settle
    <2> QED
      BY <2>1, <2>2 DEF Promises!CallsNext
  <1> QED
    BY <1>0, <1>1, <1>2, <1>3, <1>4, CallsStep

\* SendToWorker and the listeners keep the promises of RpcCalls, with any number
\* of tabs: no call is served twice, and none is settled with what another made.
THEOREM Refinement == Spec => ImplementsRpcCalls
  <1>1. Init => Promises!CallsInit
    BY DEF Init, Promises!CallsInit, Sent
  <1> QED
    BY <1>1, PromiseStep, WorkerInvariant, PTL DEF Spec, ImplementsRpcCalls, Promises!CallsSpec
============================================================================
