------------------------------ MODULE RpcPeer ------------------------------
(***************************************************************************)
(* Two programs that call each other over one channel: the class Peer of   *)
(* packages/ui/src/abc/rpc.ts, in the browser, and what is at the other    *)
(* end of its Channel.                                                     *)
(*                                                                         *)
(* A Peer numbers its calls and keeps the two functions that settle the    *)
(* promise of each under its number.  Its recv takes every message: a call *)
(* runs a handler and posts the result when the handler is done, while     *)
(* other messages are taken; a reply settles the promise of its number.    *)
(* The channel keeps the order of the messages and may close.              *)
(*                                                                         *)
(* Over a websocket the other end is WsHandler of dgdb/cluster.go, which   *)
(* never calls, and serves one message at a time.  Over every other        *)
(* channel it is a Peer, and both ends use the same numbers.  But only a   *)
(* websocket hands recv the message: listen of WorkerChannel hands it the  *)
(* event with the message in it, and the data channel of Wrtc never opens. *)
(*                                                                         *)
(* A message says which call it belongs to.  The code does not look at it: *)
(* it only names the promise the properties compare with.                  *)
(***************************************************************************)
EXTENDS Integers, Sequences, FiniteSets

CONSTANTS
  Calls,    \* calls of rpc, at either end
  Methods,
  Apis,     \* sets of methods that apiListen may be given
  MaxApis,  \* bound: api sets at an end
  None

\* The channels of rpc.ts - WsChannel, WorkerChannel, Wrtc - and a Channel that
\* an application brings, of which the interface asks no more than a listen
\* that hands on what was posted.
Kinds == {"websocket", "port", "rtc", "own"}

Ends == {"browser", "server"}
Other(e) == IF e = "browser" THEN "server" ELSE "browser"

\* How a handler ends.  A blank error is one whose text is empty.  Mute is one
\* that no reply can tell of: of a Peer, a thrown value without a toString; of
\* WsHandler, a result that json.Marshal refuses.
Outcomes == {"value", "void", "error", "blank", "mute"}

\* "if (data.error)": an empty text counts as no error.
Settled == [value |-> "value", void |-> "void", error |-> "rejected", blank |-> "void"]

ASSUME RpcAssumption ==
  /\ Apis \subseteq SUBSET Methods
  /\ MaxApis \in Nat
  /\ None \notin Outcomes \cup {"rejected"} \cup Ends

VARIABLES
  channel,   \* its kind
  open,      \* the channel
  api,       \* end -> its api sets, in the order given
  nextId,    \* end -> number of its next call
  reply_,    \* end -> numbers that have a promise, with the call
  wire,      \* end -> messages on their way to it
  serving,   \* end -> calls whose handlers run
  caller,    \* call -> the end that made it
  produced,  \* history: what the handler of a call produced
  value      \* how the promise of a call ended

vars == <<channel, open, api, nextId, reply_, wire, serving, caller, produced, value>>

Ticket    == [id : Nat, call : Calls]
CallMsg   == [kind : {"call"}, id : Nat, method : Methods, call : Calls]
ReplyMsg  == [kind : {"reply"}, id : Nat, outcome : DOMAIN Settled, call : Calls]
Message   == CallMsg \cup ReplyMsg
----------------------------------------------------------------------------
\* WsHandler is at end e, with its one table of methods, filled before it serves.
WsHandler(e) == channel = "websocket" /\ e = "server"

\* recv finds the method and the number of a message: WsChannel parses what it
\* gets, but WorkerChannel makes recv the onmessage of its port.
Legible == channel # "port"

\* The data channel of a Wrtc is made by a connection that the constructor keeps
\* to itself and never negotiates: it is not open, and send throws.  (On an open
\* one send would make a text of the object, and recv would get that text.)
Sends == channel # "rtc"

Init ==
  /\ channel \in Kinds
  /\ open = (channel # "rtc")
  /\ \E table \in Apis : api = [e \in Ends |-> IF WsHandler(e) THEN <<table>> ELSE <<>>]
  /\ nextId = [e \in Ends |-> 1]
  /\ reply_ = [e \in Ends |-> {}]
  /\ wire = [e \in Ends |-> <<>>]
  /\ serving = [e \in Ends |-> {}]
  /\ caller = [c \in Calls |-> None]
  /\ produced = [c \in Calls |-> None]
  /\ value = [c \in Calls |-> None]

\* postMessage to end e; a closed channel drops what is posted.
Post(w, e, m) == IF open THEN [w EXCEPT ![e] = Append(@, m)] ELSE w

\* Some api set of end e has the method.
Known(e, method) == \E i \in DOMAIN api[e] : method \in api[e][i]

\* Mutant: the oldest promise is settled, whatever the number.
PendingOldest(e, id) == {t \in reply_[e] : \A u \in reply_[e] : t.id <= u.id}

\* The promises registered under a number.
Pending(e, id) == {t \in reply_[e] : t.id = id}
----------------------------------------------------------------------------
\* apiListen, of a Peer.
Listen(e, methods) ==
  /\ ~WsHandler(e)
  /\ Len(api[e]) < MaxApis
  /\ api' = [api EXCEPT ![e] = Append(@, methods)]
  /\ UNCHANGED <<channel, open, nextId, reply_, wire, serving, caller, produced, value>>

\* Mutant: the number is not taken.
RpcSameId(e, c, method) ==
  /\ caller[c] = None
  /\ ~WsHandler(e) /\ Sends
  /\ caller' = [caller EXCEPT ![c] = e]
  /\ wire' = Post(wire, Other(e), [kind |-> "call", id |-> nextId[e], method |-> method, call |-> c])
  /\ reply_' = [reply_ EXCEPT ![e] = @ \cup {[id |-> nextId[e], call |-> c]}]
  /\ UNCHANGED <<channel, open, api, nextId, serving, produced, value>>

\* rpc: the message is posted, and then the promise registered.
Rpc(e, c, method) ==
  /\ caller[c] = None
  /\ ~WsHandler(e) /\ Sends
  /\ caller' = [caller EXCEPT ![c] = e]
  /\ nextId' = [nextId EXCEPT ![e] = @ + 1]
  /\ wire' = Post(wire, Other(e), [kind |-> "call", id |-> nextId[e], method |-> method, call |-> c])
  /\ reply_' = [reply_ EXCEPT ![e] = @ \cup {[id |-> nextId[e], call |-> c]}]
  /\ UNCHANGED <<channel, open, api, serving, produced, value>>

\* rpc with parameters that cannot be posted, or of a Wrtc: rejected before it is
\* registered.
RpcThrows(e, c) ==
  /\ caller[c] = None
  /\ ~WsHandler(e)
  /\ caller' = [caller EXCEPT ![c] = e]
  /\ nextId' = [nextId EXCEPT ![e] = @ + 1]
  /\ value' = [value EXCEPT ![c] = "rejected"]
  /\ UNCHANGED <<channel, open, api, reply_, wire, serving, produced>>

\* recv of a call: the first api set that has the method serves it; when none
\* has it the message is dropped and nothing is posted.
RecvCall(e) ==
  /\ Legible
  /\ wire[e] # <<>>
  /\ Head(wire[e]).kind = "call"
  /\ WsHandler(e) => serving[e] = {}
  /\ serving' = IF Known(e, Head(wire[e]).method)
                THEN [serving EXCEPT ![e] = @ \cup {Head(wire[e])}] ELSE serving
  /\ wire' = [wire EXCEPT ![e] = Tail(@)]
  /\ UNCHANGED <<channel, open, api, nextId, reply_, caller, produced, value>>

\* recv of an event: it has neither a method nor an id, "unknown message".
RecvUnknown(e) ==
  /\ ~Legible
  /\ wire[e] # <<>>
  /\ wire' = [wire EXCEPT ![e] = Tail(@)]
  /\ UNCHANGED <<channel, open, api, nextId, reply_, serving, caller, produced, value>>

\* Mutant: nothing is posted for a handler that returns nothing.
ReplyToValues(e, m, o) ==
  /\ m \in serving[e]
  /\ serving' = [serving EXCEPT ![e] = @ \ {m}]
  /\ produced' = [produced EXCEPT ![m.call] = o]
  /\ wire' = IF o = "void" THEN wire
             ELSE Post(wire, Other(e), [kind |-> "reply", id |-> m.id, outcome |-> o, call |-> m.call])
  /\ UNCHANGED <<channel, open, api, nextId, reply_, caller, value>>

\* A handler is done, in any order with the others, and its result is posted.
Reply(e, m, o) ==
  /\ m \in serving[e]
  /\ serving' = [serving EXCEPT ![e] = @ \ {m}]
  /\ produced' = [produced EXCEPT ![m.call] = o]
  /\ wire' = Post(wire, Other(e), [kind |-> "reply", id |-> m.id, outcome |-> o, call |-> m.call])
  /\ UNCHANGED <<channel, open, api, nextId, reply_, caller, value>>

\* Mutant: the text of the error is posted although there is none.
MutePosts(e, m) ==
  /\ m \in serving[e]
  /\ serving' = [serving EXCEPT ![e] = @ \ {m}]
  /\ produced' = [produced EXCEPT ![m.call] = "mute"]
  /\ wire' = Post(wire, Other(e), [kind |-> "reply", id |-> m.id, outcome |-> "mute", call |-> m.call])
  /\ UNCHANGED <<channel, open, api, nextId, reply_, caller, value>>

\* A handler of a Peer throws null or undefined: so does recv, without a post.
\* WsHandler ignores the error of Marshal and writes an empty message, which the
\* JSON.parse of WsChannel refuses before recv is called.
Mute(e, m) ==
  /\ m \in serving[e]
  /\ serving' = [serving EXCEPT ![e] = @ \ {m}]
  /\ produced' = [produced EXCEPT ![m.call] = "mute"]
  /\ UNCHANGED <<channel, open, api, nextId, reply_, wire, caller, value>>

\* recv of a reply: the promise of its number is settled and forgotten.
RecvReply(e) ==
  LET m    == Head(wire[e])
      done == Pending(e, m.id)
  IN
  /\ Legible
  /\ wire[e] # <<>>
  /\ m.kind = "reply"
  /\ reply_' = [reply_ EXCEPT ![e] = @ \ done]
  /\ value' = [c \in Calls |-> IF \E t \in done : t.call = c THEN Settled[m.outcome] ELSE value[c]]
  /\ wire' = [wire EXCEPT ![e] = Tail(@)]
  /\ UNCHANGED <<channel, open, api, nextId, serving, caller, produced>>

\* The channel closes, and what is on its way is lost.  Nothing is told to
\* the promises: the only handler of onclose prints the status.
Close ==
  /\ open
  /\ open' = FALSE
  /\ wire' = [e \in Ends |-> <<>>]
  /\ UNCHANGED <<channel, api, nextId, reply_, serving, caller, produced, value>>
----------------------------------------------------------------------------
Finish(e, c) ==
  \E m \in serving[e] : m.call = c /\ (Mute(e, m) \/ \E o \in DOMAIN Settled : Reply(e, m, o))

Next ==
  \/ \E e \in Ends : \/ \E methods \in Apis : Listen(e, methods)
                     \/ \E c \in Calls, method \in Methods : Rpc(e, c, method)
                     \/ \E c \in Calls : RpcThrows(e, c) \/ Finish(e, c)
                     \/ RecvCall(e) \/ RecvReply(e) \/ RecvUnknown(e)
  \/ Close

Spec == Init /\ [][Next]_vars

(* Messages are delivered, and every handler ends.                          *)
Fairness ==
  /\ \A e \in Ends : WF_vars(RecvCall(e) \/ RecvReply(e) \/ RecvUnknown(e))
  /\ \A e \in Ends, c \in Calls : WF_vars(Finish(e, c))

FairSpec == Spec /\ Fairness
----------------------------------------------------------------------------
\* The types of the variables.
TypeOK ==
  /\ channel \in Kinds
  /\ open \in BOOLEAN
  /\ api \in [Ends -> Seq(SUBSET Methods)]
  /\ nextId \in [Ends -> Nat \ {0}]
  /\ reply_ \in [Ends -> SUBSET Ticket]
  /\ wire \in [Ends -> Seq(Message)]
  /\ serving \in [Ends -> SUBSET CallMsg]
  /\ caller \in [Calls -> Ends \cup {None}]
  /\ produced \in [Calls -> Outcomes \cup {None}]
  /\ value \in [Calls -> {"value", "void", "rejected", None}]

\* No reply is a stranger: when it arrives, the promise of its number is there,
\* once, and it is the promise of the call the handler was run for, although
\* both ends count from one and replies come in any order.
RepliesFindTheirCall ==
  \A e \in Ends : \A i \in DOMAIN wire[e] :
    wire[e][i].kind = "reply" =>
      Pending(e, wire[e][i].id) = {[id |-> wire[e][i].id, call |-> wire[e][i].call]}

\* Of the pair that works, a Peer and WsHandler: a call on its way to a handler
\* that knows its method is settled, behind the calls before it and whatever they
\* end with, if the websocket stays open and the call itself does not end with
\* what Marshal refuses.
CallsSettle ==
  \A e \in Ends, c \in Calls :
    (/\ WsHandler(e)
     /\ \E i \in DOMAIN wire[e] : /\ wire[e][i].kind = "call"
                                 /\ wire[e][i].call = c
                                 /\ Known(e, wire[e][i].method))
      ~> value[c] # None \/ ~open \/ produced[c] = "mute"
----------------------------------------------------------------------------
Promises == INSTANCE RpcCalls WITH
  Rejected <- "rejected",
  asked    <- {c \in Calls : caller[c] # None},
  answer   <- produced

\* A call is served at most once, and its promise is settled at most once, with
\* what its own handler produced.
ImplementsRpcCalls == Promises!CallsSpec
============================================================================
