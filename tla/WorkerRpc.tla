----------------------------- MODULE WorkerRpc -----------------------------
(***************************************************************************)
(* Browser tabs that call a worker: SendToWorker of                        *)
(* packages/ui/src/abc/worker/useworker.ts in each tab, and in the worker  *)
(* createSharedListener (shared_listen.ts, one port per tab) or            *)
(* createListener (listen.ts, one tab); or the Peer of abc/rpc.ts in each  *)
(* tab, and the createSharedListener of abc/shared.ts: a service.  The     *)
(* port hands a Peer the event and not the message in it, so that a tab of *)
(* a service reads no reply.                                               *)
(*                                                                         *)
(* The ports of a shared worker have one api object between them, which    *)
(* onconnect completes with a log function of the port that came first.    *)
(* Handlers run side by side.  A message without a number, or with number  *)
(* zero, is a notification; the listener answers it all the same.          *)
(*                                                                         *)
(* A message says which call, or which tab's doing, it belongs to.  The    *)
(* code does not look at it: only the properties do.                       *)
(***************************************************************************)
EXTENDS Integers, Sequences, FiniteSets

CONSTANTS
  Tabs,
  Calls,     \* calls of rpc, of any tab
  Methods,   \* names an api may have; "connect", "log" and "unknown" are special
  Called,    \* methods the tabs call
  Noted,     \* methods of their notifications
  Apis,      \* sets of methods the worker's api may have
  Notes,     \* notifications the tabs send
  None

Kinds == {"shared", "dedicated", "service"}

\* How a handler ends: with a value, with one that counts as false (nothing,
\* zero, an empty text), with an error or a result that cannot be posted, or
\* with an error that cannot be posted either.
Outcomes == {"value", "falsy", "error", "mute"}

\* "if (data.result)" in SendToWorker: a result that counts as false rejects the
\* promise.
Settled == [value |-> "value", falsy |-> "rejected", error |-> "rejected"]

ASSUME WorkerAssumption ==
  /\ "log" \in Methods
  /\ Called \cup Noted \subseteq Methods
  /\ Apis \subseteq SUBSET Methods
  /\ Calls \cap Notes = {}
  /\ None \notin Outcomes \cup {"rejected"} \cup Tabs

VARIABLES
  kind,      \* which listener the worker runs
  api,       \* the methods of the worker's api
  logPort,   \* the tab whose port the default log function has, None if none
  port,      \* tab -> "new" before onconnect, "open", "gone"
  nextId,    \* tab -> number of its next call
  reply,     \* tab -> numbers that have a promise, with the call
  toWorker,  \* tab -> messages on their way to the worker
  toTab,     \* tab -> messages on their way to the tab
  running,   \* tab -> handlers that run for its messages
  caller,    \* call or notification -> the tab that made it
  produced,  \* history: what the handler of a call produced
  value      \* how the promise of a call ended

vars == <<kind, api, logPort, port, nextId, reply, toWorker, toTab, running,
          caller, produced, value>>

Sent    == Calls \cup Notes
Ticket  == [id : Nat, call : Calls]
CallMsg == [id : Nat, method : Methods, call : Sent]
Run     == [id : Nat, call : Sent, outs : SUBSET Outcomes]
TabMsg  == [kind : {"reply"}, id : Nat, outcome : DOMAIN Settled, call : Sent]
             \cup [kind : {"note"}, of : Tabs, via : {"context", "log"}]
----------------------------------------------------------------------------
Init ==
  /\ kind \in Kinds
  /\ api \in Apis
  /\ logPort = None
  /\ port = [t \in Tabs |-> "new"]
  /\ nextId = [t \in Tabs |-> 1]
  /\ reply = [t \in Tabs |-> {}]
  /\ toWorker = [t \in Tabs |-> <<>>]
  /\ toTab = [t \in Tabs |-> <<>>]
  /\ running = [t \in Tabs |-> {}]
  /\ caller = [c \in Sent |-> None]
  /\ produced = [c \in Calls |-> None]
  /\ value = [c \in Calls |-> None]

\* postMessage on a port, of several messages; a tab that is gone gets none.
Post(wires, t, ms) == IF port[t] = "gone" THEN wires ELSE [wires EXCEPT ![t] = @ \o ms]

Note(t, via)     == [kind |-> "note", of |-> t, via |-> via]
ReplyOf(r, o)    == [kind |-> "reply", id |-> r.id, outcome |-> o, call |-> r.call]
Pending(t, id)   == {p \in reply[t] : p.id = id}
Answered(c, o)   == [d \in Calls |-> IF d = c THEN o ELSE produced[d]]

\* Mutant: the context of the listener is made once, for the first port.
ContextOfFirst(t) == IF logPort = None THEN t ELSE logPort

\* The port the context of tab t posts to.
ContextPort(t) == t
----------------------------------------------------------------------------
\* onconnect of a shared worker or a service, or the start of a dedicated one,
\* which has one tab.  The api of a shared worker gets its log function, and it
\* greets the tab; "connect" of the api may notify it, except of a service.
Connect(t) ==
  /\ port[t] = "new"
  /\ kind = "dedicated" => \A u \in Tabs : port[u] = "new"
  /\ port' = [port EXCEPT ![t] = "open"]
  /\ IF kind = "shared" /\ "log" \notin api
     THEN api' = api \cup {"log"} /\ logPort' = t
     ELSE UNCHANGED <<api, logPort>>
  /\ \E hello \in {<<>>} \cup IF "connect" \in api THEN {<<Note(t, "context")>>} ELSE {} :
       toTab' = IF kind = "service" THEN toTab
                ELSE Post(toTab, ContextPort(t), hello \o IF kind = "shared" THEN <<Note(t, "context")>> ELSE <<>>)
  /\ UNCHANGED <<kind, nextId, reply, toWorker, running, caller, produced, value>>

\* A tab is closed; what is on its port is lost, what runs for it goes on.
CloseTab(t) ==
  /\ port[t] = "open"
  /\ port' = [port EXCEPT ![t] = "gone"]
  /\ toWorker' = [toWorker EXCEPT ![t] = <<>>]
  /\ toTab' = [toTab EXCEPT ![t] = <<>>]
  /\ UNCHANGED <<kind, api, logPort, nextId, reply, running, caller, produced, value>>

\* Mutant: the number is not taken.
RpcSameId(t, c, method) ==
  /\ caller[c] = None /\ port[t] # "gone"
  /\ caller' = [caller EXCEPT ![c] = t]
  /\ toWorker' = Post(toWorker, t, <<[id |-> nextId[t], method |-> method, call |-> c]>>)
  /\ reply' = [reply EXCEPT ![t] = @ \cup {[id |-> nextId[t], call |-> c]}]
  /\ UNCHANGED <<kind, api, logPort, port, nextId, toTab, running, produced, value>>

\* rpc: the message is posted, then the promise registered.  A port that is not
\* connected yet keeps it.
Rpc(t, c, method) ==
  /\ caller[c] = None /\ port[t] # "gone"
  /\ caller' = [caller EXCEPT ![c] = t]
  /\ nextId' = [nextId EXCEPT ![t] = @ + 1]
  /\ toWorker' = Post(toWorker, t, <<[id |-> nextId[t], method |-> method, call |-> c]>>)
  /\ reply' = [reply EXCEPT ![t] = @ \cup {[id |-> nextId[t], call |-> c]}]
  /\ UNCHANGED <<kind, api, logPort, port, toTab, running, produced, value>>

\* rpc with parameters that structuredClone refuses: rejected, never registered.
RpcThrows(t, c) ==
  /\ caller[c] = None /\ port[t] # "gone"
  /\ caller' = [caller EXCEPT ![c] = t]
  /\ nextId' = [nextId EXCEPT ![t] = @ + 1]
  /\ value' = [value EXCEPT ![c] = "rejected"]
  /\ UNCHANGED <<kind, api, logPort, port, reply, toWorker, toTab, running, produced>>

\* log and notify of the context a tab gives its own handlers: number zero.
Notify(t, n, method) ==
  /\ caller[n] = None /\ port[t] # "gone" /\ kind # "service"
  /\ caller' = [caller EXCEPT ![n] = t]
  /\ toWorker' = Post(toWorker, t, <<[id |-> 0, method |-> method, call |-> n]>>)
  /\ UNCHANGED <<kind, api, logPort, port, nextId, reply, toTab, running, produced, value>>

\* The worker takes a message whose method the api has.  The default log function
\* posts to the port it was made for, and then ends with nothing.
Serve(t) ==
  LET m  == Head(toWorker[t])
      by == m.method = "log" /\ logPort # None
  IN
  /\ port[t] = "open" /\ toWorker[t] # <<>> /\ m.method \in api
  /\ toWorker' = [toWorker EXCEPT ![t] = Tail(@)]
  /\ running' = [running EXCEPT ![t] = @ \cup
       {[id |-> m.id, call |-> m.call, outs |-> IF by THEN {"falsy"} ELSE Outcomes]}]
  /\ toTab' = IF by THEN Post(toTab, logPort, <<Note(t, "log")>>) ELSE toTab
  /\ UNCHANGED <<kind, api, logPort, port, nextId, reply, caller, produced, value>>

\* Mutant: a method that the api does not have is dropped.
RefuseDrops(t) ==
  LET m == Head(toWorker[t]) IN
  /\ kind # "shared"
  /\ port[t] = "open" /\ toWorker[t] # <<>> /\ m.method \notin api
  /\ toWorker' = [toWorker EXCEPT ![t] = Tail(@)]
  /\ UNCHANGED <<kind, api, logPort, port, nextId, reply, toTab, running, caller, produced, value>>

\* A method the api of a dedicated worker or a service does not have: an error
\* is posted at once.
Refuse(t) ==
  LET m == Head(toWorker[t]) IN
  /\ kind # "shared"
  /\ port[t] = "open" /\ toWorker[t] # <<>> /\ m.method \notin api
  /\ toWorker' = [toWorker EXCEPT ![t] = Tail(@)]
  /\ toTab' = Post(toTab, t, <<ReplyOf(m, "error")>>)
  /\ produced' = Answered(m.call, "error")
  /\ UNCHANGED <<kind, api, logPort, port, nextId, reply, running, caller, value>>

\* A method the api does not have, shared: its "unknown" serves it; the default
\* one logs to the tab and ends with nothing.
ServeUnknown(t) ==
  LET m == Head(toWorker[t]) IN
  /\ kind = "shared"
  /\ port[t] = "open" /\ toWorker[t] # <<>> /\ m.method \notin api
  /\ toWorker' = [toWorker EXCEPT ![t] = Tail(@)]
  /\ running' = [running EXCEPT ![t] = @ \cup
       {[id |-> m.id, call |-> m.call,
         outs |-> IF "unknown" \in api THEN Outcomes ELSE {"falsy"}]}]
  /\ toTab' = IF "unknown" \in api THEN toTab ELSE Post(toTab, ContextPort(t), <<Note(t, "context")>>)
  /\ UNCHANGED <<kind, api, logPort, port, nextId, reply, caller, produced, value>>

\* Mutant: the message is kept outside of the handler, so the reply has the
\* number of any message that is being served on the port.
FinishLatest(t, r, o) ==
  /\ r \in running[t] /\ o \in r.outs
  /\ running' = [running EXCEPT ![t] = @ \ {r}]
  /\ produced' = Answered(r.call, o)
  /\ \E s \in running[t] :
       toTab' = IF o = "mute" THEN toTab ELSE Post(toTab, t, <<[ReplyOf(r, o) EXCEPT !.id = s.id]>>)
  /\ UNCHANGED <<kind, api, logPort, port, nextId, reply, toWorker, caller, value>>

\* Mutant: the last catch posts whatever it was given.
FinishPosts(t, r, o) ==
  /\ r \in running[t] /\ o \in r.outs
  /\ running' = [running EXCEPT ![t] = @ \ {r}]
  /\ produced' = Answered(r.call, o)
  /\ toTab' = Post(toTab, t, <<ReplyOf(r, o)>>)
  /\ UNCHANGED <<kind, api, logPort, port, nextId, reply, toWorker, caller, value>>

\* A handler ends: its result is posted, or its error, also to a notification.
\* An error that cannot be posted throws in the last catch, and none is.
Finish(t, r, o) ==
  /\ r \in running[t] /\ o \in r.outs
  /\ running' = [running EXCEPT ![t] = @ \ {r}]
  /\ produced' = Answered(r.call, o)
  /\ toTab' = IF o = "mute" THEN toTab ELSE Post(toTab, t, <<ReplyOf(r, o)>>)
  /\ UNCHANGED <<kind, api, logPort, port, nextId, reply, toWorker, caller, value>>

\* Mutant: whatever comes without a number settles the oldest promise.
RecvAny(t) ==
  LET m    == Head(toTab[t])
      done == IF m.kind # "reply" \/ kind = "service" THEN {}
              ELSE IF m.id # 0 THEN Pending(t, m.id)
              ELSE {p \in reply[t] : \A q \in reply[t] : p.id <= q.id}
  IN
  /\ port[t] = "open" /\ toTab[t] # <<>>
  /\ toTab' = [toTab EXCEPT ![t] = Tail(@)]
  /\ reply' = [reply EXCEPT ![t] = @ \ done]
  /\ value' = [c \in Calls |-> IF \E p \in done : p.call = c THEN Settled[m.outcome] ELSE value[c]]
  /\ UNCHANGED <<kind, api, logPort, port, nextId, toWorker, running, caller, produced>>

\* recv of the tab: a number is looked up in reply, and its promise settled and
\* forgotten.  What has no number goes to the tab's api or to its unknown,
\* neither of which touches the calls: the answer to a notification too.  The
\* Peer of a service gets an event, which has neither.
Recv(t) ==
  LET m    == Head(toTab[t])
      done == IF m.kind = "reply" /\ m.id # 0 /\ kind # "service" THEN Pending(t, m.id) ELSE {}
  IN
  /\ port[t] = "open" /\ toTab[t] # <<>>
  /\ toTab' = [toTab EXCEPT ![t] = Tail(@)]
  /\ reply' = [reply EXCEPT ![t] = @ \ done]
  /\ value' = [c \in Calls |-> IF \E p \in done : p.call = c THEN Settled[m.outcome] ELSE value[c]]
  /\ UNCHANGED <<kind, api, logPort, port, nextId, toWorker, running, caller, produced>>
----------------------------------------------------------------------------
FinishCall(t, c) == \E r \in running[t] : r.call = c /\ \E o \in r.outs : Finish(t, r, o)
Deliver(t)       == Serve(t) \/ Refuse(t) \/ ServeUnknown(t)

Next ==
  \E t \in Tabs :
    \/ Connect(t) \/ CloseTab(t)
    \/ \E c \in Calls : RpcThrows(t, c) \/ \E method \in Called : Rpc(t, c, method)
    \/ \E n \in Notes, method \in Noted : Notify(t, n, method)
    \/ Deliver(t) \/ Recv(t)
    \/ \E c \in Sent : FinishCall(t, c)

Spec == Init /\ [][Next]_vars

(* Ports connect and deliver, and every handler ends.                       *)
Fairness ==
  \A t \in Tabs : /\ WF_vars(Connect(t)) /\ WF_vars(Deliver(t)) /\ WF_vars(Recv(t))
                  /\ \A c \in Calls : WF_vars(FinishCall(t, c))

FairSpec == Spec /\ Fairness
----------------------------------------------------------------------------
\* The types of the variables.
TypeOK ==
  /\ kind \in Kinds
  /\ api \in SUBSET Methods
  /\ logPort \in Tabs \cup {None}
  /\ port \in [Tabs -> {"new", "open", "gone"}]
  /\ nextId \in [Tabs -> Nat \ {0}]
  /\ reply \in [Tabs -> SUBSET Ticket]
  /\ toWorker \in [Tabs -> Seq(CallMsg)]
  /\ toTab \in [Tabs -> Seq(TabMsg)]
  /\ running \in [Tabs -> SUBSET Run]
  /\ caller \in [Sent -> Tabs \cup {None}]
  /\ produced \in [Calls -> Outcomes \cup {None}]
  /\ value \in [Calls -> {"value", "rejected", None}]

\* Every tab counts its calls from one, the worker serves them side by side and
\* answers notifications too; still a reply with a number is on the port of the
\* tab that made the call, and the promise of its number there is that call's.
RepliesFindTheirCall ==
  \A t \in Tabs : \A i \in DOMAIN toTab[t] :
    LET m == toTab[t][i] IN
    m.kind = "reply" /\ m.id # 0 =>
      caller[m.call] = t /\ Pending(t, m.id) = {[id |-> m.id, call |-> m.call]}

\* What the worker tells about a tab's messages reaches that tab, except by the
\* log of an api that had none: that reaches the tab that connected first.
LogsReachTheirTab ==
  \A t \in Tabs : \A i \in DOMAIN toTab[t] :
    LET m == toTab[t][i] IN
    m.kind = "note" => m.of = t \/ (m.via = "log" /\ t = logPort)

\* A call by SendToWorker of a tab that stays open is settled, also when the
\* worker does not have the method, unless its handler threw what cannot be
\* posted or a dedicated worker has another tab.
CallsSettle ==
  \A t \in Tabs, c \in Calls :
    kind # "service" /\ caller[c] = t ~> value[c] # None \/ port[t] # "open" \/ produced[c] = "mute"
----------------------------------------------------------------------------
Promises == INSTANCE RpcCalls WITH
  Rejected <- "rejected",
  asked    <- {c \in Calls : caller[c] # None},
  answer   <- produced

\* A call is served at most once, and its promise is settled at most once, with
\* what its own handler produced.
ImplementsRpcCalls == Promises!CallsSpec
============================================================================
