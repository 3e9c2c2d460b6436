--------------------------- MODULE RpcPeerProofs ---------------------------
(***************************************************************************)
(* Theorems about RpcPeer, for any number of calls, methods and api sets.  *)
(*                                                                         *)
(* A call leaves one trace at a time: its message on the wire, its running *)
(* handler, or its reply on the wire; and as long as there is a trace its  *)
(* promise is registered under its number, alone.                          *)
(***************************************************************************)
EXTENDS RpcPeer, SequenceTheorems, TLAPS

\* The entry of reply_ that a message is about.
Tk(m) == [id |-> m.id, call |-> m.call]

\* Numbers and calls of the registered promises of an end are unique.
TicketInv ==
  \A e \in Ends : \A t \in reply_[e] :
    /\ t.id < nextId[e]
    /\ caller[t.call] = e
    /\ value[t.call] = None
    /\ \A u \in reply_[e] : t.id = u.id \/ t.call = u.call => t = u

\* What a message says of its call.
MsgOK(e, m) ==
  \/ /\ m.kind = "call"
     /\ Tk(m) \in reply_[Other(e)]
     /\ produced[m.call] = None
     /\ \A n \in serving[e] : n.call # m.call
  \/ /\ m.kind = "reply"
     /\ Tk(m) \in reply_[e]
     /\ produced[m.call] = m.outcome

WireInv == \A e \in Ends : \A i \in DOMAIN wire[e] : MsgOK(e, wire[e][i])

OnceInv ==
  \A e \in Ends : \A i, j \in DOMAIN wire[e] : wire[e][i].call = wire[e][j].call => i = j

ServeInv ==
  \A e \in Ends : \A m \in serving[e] :
    /\ Tk(m) \in reply_[Other(e)]
    /\ produced[m.call] = None
    /\ \A n \in serving[e] : n.call = m.call => n = m

\* Nothing is known of a call before it is made.
FreshInv == \A c \in Calls : caller[c] = None => produced[c] = None /\ value[c] = None

RpcInv == TypeOK /\ TicketInv /\ WireInv /\ OnceInv /\ ServeInv /\ FreshInv
----------------------------------------------------------------------------
(* Ends, messages and wires.                                                *)

\* The other end is the other one.
LEMMA EndFacts ==
  \A e \in Ends : Other(e) \in Ends /\ Other(e) # e /\ Other(Other(e)) = e
  BY DEF Ends, Other

\* The fields of a message.
LEMMA MsgFacts ==
  ASSUME NEW m \in Message
  PROVE  /\ m.id \in Nat /\ m.call \in Calls
         /\ \/ m.kind = "call" /\ m \in CallMsg
            \/ m.kind = "reply" /\ m \in ReplyMsg
  BY DEF Message, CallMsg, ReplyMsg

\* The wire u holds what w holds and, at most, the message m at the end of f.
Posted(w, f, m, u) ==
  \A e \in Ends : \A i \in DOMAIN u[e] :
    \/ i \in DOMAIN w[e] /\ u[e][i] = w[e][i]
    \/ e = f /\ i = Len(w[f]) + 1 /\ i \notin DOMAIN w[f] /\ u[e][i] = m

\* Posting keeps the messages of the wire and may add one at its end.
LEMMA PostWire ==
  \A w \in [Ends -> Seq(Message)], f \in Ends, m \in Message :
    Post(w, f, m) \in [Ends -> Seq(Message)] /\ Posted(w, f, m, Post(w, f, m))
  <1> TAKE w \in [Ends -> Seq(Message)], f \in Ends, m \in Message
  <1>1. CASE ~open
    BY <1>1 DEF Post, Posted
  <1>2. CASE open
    <2> DEFINE s == Append(w[f], m)
    <2>1. s \in Seq(Message) /\ Len(s) = Len(w[f]) + 1 /\ w[f] \in Seq(Message)
          /\ (\A i \in 1..Len(w[f]) : s[i] = w[f][i]) /\ s[Len(w[f]) + 1] = m
      BY AppendProperties
    <2>2. DOMAIN s = 1..Len(w[f]) + 1 /\ DOMAIN w[f] = 1..Len(w[f]) /\ Len(w[f]) \in Nat
      BY <2>1
    <2>3. Post(w, f, m) = [w EXCEPT ![f] = s]
      BY <1>2 DEF Post
    <2> HIDE DEF s
    <2>4. Post(w, f, m) \in [Ends -> Seq(Message)]
      BY <2>1, <2>3
    <2>5. ASSUME NEW i \in DOMAIN s
          PROVE  \/ i \in DOMAIN w[f] /\ s[i] = w[f][i]
                 \/ i = Len(w[f]) + 1 /\ i \notin DOMAIN w[f] /\ s[i] = m
      <3>1. i \in 1..Len(w[f]) \/ i = Len(w[f]) + 1
        BY <2>2
      <3>2. Len(w[f]) + 1 \notin 1..Len(w[f])
        BY <2>2
      <3> QED
        BY <2>1, <2>2, <3>1, <3>2
    <2>6. \A e \in Ends : Post(w, f, m)[e] = IF e = f THEN s ELSE w[e]
      BY <2>3
    <2>7. Posted(w, f, m, Post(w, f, m))
      BY <2>5, <2>6 DEF Posted
    <2> QED
      BY <2>4, <2>7
  <1> QED
    BY <1>1, <1>2

\* Taking the head of a wire moves the others one place.
LEMMA TakeWire ==
  ASSUME NEW w \in [Ends -> Seq(Message)], NEW f \in Ends, w[f] # <<>>
  PROVE  LET v == [w EXCEPT ![f] = Tail(@)] IN
         /\ v \in [Ends -> Seq(Message)]
         /\ Head(w[f]) \in Message /\ 1 \in DOMAIN w[f] /\ Head(w[f]) = w[f][1]
         /\ \A e \in Ends : e # f => v[e] = w[e]
         /\ \A i \in DOMAIN v[f] : i \in Nat \ {0} /\ i + 1 \in DOMAIN w[f] /\ v[f][i] = w[f][i + 1]
  <1> DEFINE s == Tail(w[f])
             v == [w EXCEPT ![f] = s]
  <1>1. /\ s \in Seq(Message) /\ Len(s) = Len(w[f]) - 1 /\ Head(w[f]) \in Message
        /\ w[f] \in Seq(Message) /\ Len(w[f]) \in Nat /\ Len(w[f]) > 0
        /\ \A i \in 1..Len(s) : s[i] = w[f][i + 1]
    BY HeadTailProperties
  <1>2. DOMAIN s = 1..Len(w[f]) - 1 /\ DOMAIN w[f] = 1..Len(w[f])
    BY <1>1
  <1>3. Head(w[f]) = w[f][1] /\ 1 \in DOMAIN w[f]
    BY <1>1, <1>2
  <1>4. \A i \in DOMAIN s : i \in Nat \ {0} /\ i + 1 \in DOMAIN w[f] /\ s[i] = w[f][i + 1]
    BY <1>1, <1>2
  <1> HIDE DEF s
  <1>5. v \in [Ends -> Seq(Message)] /\ v[f] = s /\ \A e \in Ends : e # f => v[e] = w[e]
    BY <1>1
  <1>6. v = [w EXCEPT ![f] = Tail(@)]
    BY DEF s
  <1> HIDE DEF v
  <1> QED
    BY <1>1, <1>3, <1>4, <1>5, <1>6
----------------------------------------------------------------------------
\* Every step keeps the types.
LEMMA TypeStep == TypeOK /\ [Next]_vars => TypeOK'
  <1> SUFFICES ASSUME TypeOK, [Next]_vars PROVE TypeOK'
    OBVIOUS
  <1>0. /\ wire \in [Ends -> Seq(Message)] /\ api \in [Ends -> Seq(SUBSET Methods)]
        /\ nextId \in [Ends -> Nat \ {0}] /\ reply_ \in [Ends -> SUBSET Ticket]
        /\ serving \in [Ends -> SUBSET CallMsg]
    BY DEF TypeOK
  <1> USE EndFacts
  <1>1. ASSUME NEW e \in Ends, NEW methods \in Apis, Listen(e, methods) PROVE TypeOK'
    <2>1. Append(api[e], methods) \in Seq(SUBSET Methods)
      BY <1>0, RpcAssumption, AppendProperties
    <2>2. api' \in [Ends -> Seq(SUBSET Methods)]
      BY <1>0, <1>1, <2>1 DEF Listen
    <2> QED
      BY <1>1, <2>2 DEF Listen, TypeOK
  <1>2. ASSUME NEW e \in Ends, NEW c \in Calls, NEW method \in Methods, Rpc(e, c, method)
        PROVE  TypeOK'
    <2> DEFINE m == [kind |-> "call", id |-> nextId[e], method |-> method, call |-> c]
               t == [id |-> nextId[e], call |-> c]
    <2>1. m \in Message /\ t \in Ticket
      BY <1>0 DEF Message, CallMsg, Ticket
    <2>2. wire' = Post(wire, Other(e), m) /\ reply_' = [reply_ EXCEPT ![e] = @ \cup {t}]
      BY <1>2 DEF Rpc
    <2> HIDE DEF m, t
    <2>3. wire' \in [Ends -> Seq(Message)]
      BY <1>0, <2>1, <2>2, PostWire
    <2>4. reply_' \in [Ends -> SUBSET Ticket]
      BY <1>0, <2>1, <2>2
    <2>5. nextId' \in [Ends -> Nat \ {0}] /\ caller' \in [Calls -> Ends \cup {None}]
      BY <1>2 DEF Rpc, TypeOK
    <2> QED
      BY <1>2, <2>3, <2>4, <2>5 DEF Rpc, TypeOK
  <1>3. ASSUME NEW e \in Ends, NEW c \in Calls, RpcThrows(e, c) PROVE TypeOK'
    BY <1>3 DEF RpcThrows, TypeOK
  <1>4. ASSUME NEW e \in Ends, NEW m \in serving[e], Mute(e, m) PROVE TypeOK'
    <2>1. m \in CallMsg /\ m.call \in Calls
      BY <1>0 DEF CallMsg
    <2>2. produced' \in [Calls -> Outcomes \cup {None}] /\ serving' \in [Ends -> SUBSET CallMsg]
      BY <1>0, <1>4, <2>1 DEF Mute, TypeOK, Outcomes
    <2> QED
      BY <1>4, <2>2 DEF Mute, TypeOK
  <1>5. ASSUME NEW e \in Ends, NEW m \in serving[e], NEW o \in DOMAIN Settled, Reply(e, m, o)
        PROVE  TypeOK'
    <2> DEFINE r == [kind |-> "reply", id |-> m.id, outcome |-> o, call |-> m.call]
    <2>1. m.call \in Calls /\ m.id \in Nat
      BY <1>0 DEF CallMsg
    <2>2. r \in Message
      BY <2>1 DEF Message, ReplyMsg
    <2>3. wire' = Post(wire, Other(e), r)
      BY <1>5 DEF Reply
    <2> HIDE DEF r
    <2>4. wire' \in [Ends -> Seq(Message)]
      BY <1>0, <2>2, <2>3, PostWire
    <2>5. o \in Outcomes
      BY DEF Outcomes, Settled
    <2>6. produced' \in [Calls -> Outcomes \cup {None}] /\ serving' \in [Ends -> SUBSET CallMsg]
      BY <1>0, <1>5, <2>1, <2>5 DEF Reply, TypeOK
    <2> QED
      BY <1>5, <2>4, <2>6 DEF Reply, TypeOK
  <1>6. ASSUME NEW e \in Ends, RecvCall(e) PROVE TypeOK'
    <2>1. wire' = [wire EXCEPT ![e] = Tail(@)] /\ wire[e] # <<>> /\ Head(wire[e]).kind = "call"
      BY <1>6 DEF RecvCall
    <2>2. wire' \in [Ends -> Seq(Message)] /\ Head(wire[e]) \in Message
      BY <1>0, <2>1, TakeWire
    <2>3. Head(wire[e]) \in CallMsg
      BY <2>1, <2>2 DEF Message, CallMsg, ReplyMsg
    <2>4. serving' \in [Ends -> SUBSET CallMsg]
      BY <1>0, <1>6, <2>3 DEF RecvCall
    <2> QED
      BY <1>6, <2>2, <2>4 DEF RecvCall, TypeOK
  <1>7. ASSUME NEW e \in Ends, RecvReply(e) PROVE TypeOK'
    <2>1. wire' = [wire EXCEPT ![e] = Tail(@)] /\ wire[e] # <<>> /\ Head(wire[e]).kind = "reply"
      BY <1>7 DEF RecvReply
    <2>2. wire' \in [Ends -> Seq(Message)] /\ Head(wire[e]) \in Message
      BY <1>0, <2>1, TakeWire
    <2>3. Head(wire[e]).outcome \in DOMAIN Settled
      BY <2>1, <2>2 DEF Message, CallMsg, ReplyMsg
    <2>4. Settled[Head(wire[e]).outcome] \in {"value", "void", "rejected"}
      BY <2>3 DEF Settled
    <2>5. value' \in [Calls -> {"value", "void", "rejected", None}]
      BY <1>7, <2>4 DEF RecvReply, TypeOK
    <2>6. reply_' \in [Ends -> SUBSET Ticket]
      BY <1>0, <1>7 DEF RecvReply
    <2> QED
      BY <1>7, <2>2, <2>5, <2>6 DEF RecvReply, TypeOK
  <1>u. ASSUME NEW e \in Ends, RecvUnknown(e) PROVE TypeOK'
    <2>1. wire' = [wire EXCEPT ![e] = Tail(@)] /\ wire[e] # <<>>
      BY <1>u DEF RecvUnknown
    <2>2. wire' \in [Ends -> Seq(Message)]
      BY <1>0, <2>1, TakeWire
    <2> QED
      BY <1>u, <2>2 DEF RecvUnknown, TypeOK
  <1>8. CASE Close
    <2>1. <<>> \in Seq(Message)
      OBVIOUS
    <2>2. wire' \in [Ends -> Seq(Message)] /\ open' \in BOOLEAN
      BY <1>8, <2>1 DEF Close
    <2> QED
      BY <1>8, <2>2 DEF Close, TypeOK
  <1>9. CASE UNCHANGED vars
    BY <1>9 DEF vars, TypeOK
  <1> QED
    BY <1>1, <1>2, <1>3, <1>4, <1>5, <1>6, <1>7, <1>8, <1>9, <1>u DEF Next, Finish
----------------------------------------------------------------------------
\* The entry of a message in reply_.
LEMMA TkFacts == \A m : Tk(m).id = m.id /\ Tk(m).call = m.call
  BY DEF Tk

\* All that is on the wire or served belongs to a registered promise.
LEMMA Traces ==
  ASSUME RpcInv
  PROVE  /\ \A e \in Ends : \A i \in DOMAIN wire[e] :
              /\ wire[e][i] \in Message
              /\ value[wire[e][i].call] = None
              /\ wire[e][i].kind = "call" => /\ caller[wire[e][i].call] = Other(e)
                                            /\ produced[wire[e][i].call] = None
              /\ wire[e][i].kind = "reply" => /\ caller[wire[e][i].call] = e
                                             /\ produced[wire[e][i].call] \in DOMAIN Settled
         /\ \A e \in Ends : \A m \in serving[e] :
              /\ m \in CallMsg
              /\ caller[m.call] = Other(e) /\ produced[m.call] = None /\ value[m.call] = None
  <1> USE EndFacts, TkFacts
  <1>0. /\ wire \in [Ends -> Seq(Message)] /\ serving \in [Ends -> SUBSET CallMsg]
        /\ TicketInv /\ WireInv /\ ServeInv
    BY DEF RpcInv, TypeOK
  <1>1. ASSUME NEW e \in Ends, NEW i \in DOMAIN wire[e]
        PROVE  /\ wire[e][i] \in Message
               /\ value[wire[e][i].call] = None
               /\ wire[e][i].kind = "call" => /\ caller[wire[e][i].call] = Other(e)
                                             /\ produced[wire[e][i].call] = None
               /\ wire[e][i].kind = "reply" => /\ caller[wire[e][i].call] = e
                                              /\ produced[wire[e][i].call] \in DOMAIN Settled
    <2>1. wire[e][i] \in Message
      BY <1>0
    <2>2. PICK m \in Message : m = wire[e][i]
      BY <2>1
    <2>3. MsgOK(e, m)
      BY <1>0, <2>2 DEF WireInv
    <2>4. CASE m.kind = "call"
      <3>1. Tk(m) \in reply_[Other(e)] /\ produced[m.call] = None
        BY <2>3, <2>4 DEF MsgOK
      <3>2. caller[Tk(m).call] = Other(e) /\ value[Tk(m).call] = None
        BY <1>0, <3>1 DEF TicketInv
      <3> QED
        BY <2>2, <2>4, <3>1, <3>2
    <2>5. CASE m.kind = "reply"
      <3>1. Tk(m) \in reply_[e] /\ produced[m.call] = m.outcome
        BY <2>3, <2>5 DEF MsgOK
      <3>2. m.outcome \in DOMAIN Settled
        BY <2>5 DEF Message, CallMsg, ReplyMsg
      <3> QED
        BY <1>0, <2>2, <2>5, <3>1, <3>2 DEF TicketInv
    <2> QED
      BY <2>3, <2>4, <2>5 DEF MsgOK
  <1>2. ASSUME NEW e \in Ends, NEW m \in serving[e]
        PROVE  /\ m \in CallMsg
               /\ caller[m.call] = Other(e) /\ produced[m.call] = None /\ value[m.call] = None
    BY <1>0 DEF ServeInv, TicketInv
  <1> QED
    BY <1>1, <1>2

\* Steps that touch none of this keep what is known of it.
LEMMA Calm ==
  ASSUME RpcInv, UNCHANGED <<nextId, reply_, wire, serving, caller, produced, value>>
  PROVE  TicketInv' /\ WireInv' /\ OnceInv' /\ ServeInv' /\ FreshInv'
  BY DEF RpcInv, TicketInv, WireInv, MsgOK, OnceInv, ServeInv, FreshInv

\* A call that was not made before leaves its first trace.
LEMMA RpcKeeps ==
  ASSUME RpcInv, TypeOK', NEW e \in Ends, NEW c \in Calls, NEW method \in Methods, Rpc(e, c, method)
  PROVE  TicketInv' /\ WireInv' /\ OnceInv' /\ ServeInv' /\ FreshInv'
  <1>e. Other(e) \in Ends /\ Other(e) # e /\ Other(Other(e)) = e
    BY EndFacts
  <1>0. /\ wire \in [Ends -> Seq(Message)] /\ nextId \in [Ends -> Nat \ {0}]
        /\ reply_ \in [Ends -> SUBSET Ticket] /\ serving \in [Ends -> SUBSET CallMsg]
        /\ caller \in [Calls -> Ends \cup {None}]
        /\ TicketInv /\ WireInv /\ OnceInv /\ ServeInv /\ FreshInv
    BY DEF RpcInv, TypeOK
  <1>1. PICK m, t :
          /\ m \in Message /\ m.kind = "call" /\ m.call = c /\ Tk(m) = t
          /\ t \in Ticket /\ t.id = nextId[e] /\ t.call = c
          /\ wire' = Post(wire, Other(e), m)
          /\ reply_' = [reply_ EXCEPT ![e] = @ \cup {t}]
    <2> DEFINE m == [kind |-> "call", id |-> nextId[e], method |-> method, call |-> c]
               t == [id |-> nextId[e], call |-> c]
    <2>1. m \in Message /\ t \in Ticket /\ Tk(m) = t
      BY <1>0 DEF Message, CallMsg, Ticket, Tk
    <2>2. wire' = Post(wire, Other(e), m) /\ reply_' = [reply_ EXCEPT ![e] = @ \cup {t}]
      BY DEF Rpc
    <2>3. m.kind = "call" /\ m.call = c /\ t.id = nextId[e] /\ t.call = c
      OBVIOUS
    <2> HIDE DEF m, t
    <2> QED
      BY <2>1, <2>2, <2>3
  <1>2. /\ caller[c] = None /\ caller' = [caller EXCEPT ![c] = e]
        /\ nextId' = [nextId EXCEPT ![e] = @ + 1] /\ UNCHANGED <<serving, produced, value>>
    BY DEF Rpc
  <1>3. \A f \in Ends : \A u \in reply_[f] : u.call # c /\ caller'[u.call] = f
    BY <1>0, <1>2, RpcAssumption DEF TicketInv, Ticket
  <1>4. /\ \A f \in Ends : \A i \in DOMAIN wire[f] : wire[f][i].call # c
        /\ \A f \in Ends : \A n \in serving[f] : n.call # c
    <2>1. None \notin Ends
      BY RpcAssumption
    <2>2. ASSUME NEW f \in Ends, NEW i \in DOMAIN wire[f] PROVE wire[f][i].call # c
      <3>1. caller[wire[f][i].call] = f \/ caller[wire[f][i].call] = Other(f)
        BY Traces, MsgFacts
      <3> QED
        BY <1>2, <2>1, <3>1, EndFacts
    <2>3. ASSUME NEW f \in Ends, NEW n \in serving[f] PROVE n.call # c
      <3>1. caller[n.call] = Other(f)
        BY Traces
      <3> QED
        BY <1>2, <2>1, <3>1, EndFacts
    <2> QED
      BY <2>2, <2>3
  <1>5. \A f \in Ends : \A i \in DOMAIN wire'[f] :
          \/ i \in DOMAIN wire[f] /\ wire'[f][i] = wire[f][i]
          \/ f = Other(e) /\ i = Len(wire[f]) + 1 /\ wire'[f][i] = m
    <2>1. wire' = Post(wire, Other(e), m) /\ m \in Message /\ wire \in [Ends -> Seq(Message)]
      BY <1>0, <1>1
    <2>2. Posted(wire, Other(e), m, wire')
      BY <1>e, <2>1, PostWire
    <2> QED
      BY <2>2 DEF Posted
  <1>6. TicketInv'
    <2> SUFFICES ASSUME NEW f \in Ends, NEW u \in reply_'[f]
                 PROVE  /\ u.id < nextId'[f] /\ caller'[u.call] = f /\ value'[u.call] = None
                        /\ \A x \in reply_'[f] : u.id = x.id \/ u.call = x.call => u = x
      BY DEF TicketInv
    <2>1. \A x \in reply_'[f] : x \in reply_[f] \/ (f = e /\ x = t)
      <3>1. reply_' = [reply_ EXCEPT ![e] = @ \cup {t}] /\ reply_ \in [Ends -> SUBSET Ticket]
        BY <1>0, <1>1
      <3> QED
        BY <3>1
    <2>2. \A x \in reply_[f] : /\ x.id \in Nat /\ x.id < nextId[f] /\ value[x.call] = None
                              /\ \A y \in reply_[f] : x.id = y.id \/ x.call = y.call => x = y
      BY <1>0 DEF TicketInv, Ticket
    <2>3. nextId[f] \in Nat /\ nextId'[f] \in Nat /\ nextId'[f] >= nextId[f]
          /\ (f = e => nextId'[f] = nextId[f] + 1)
      BY <1>0, <1>2
    <2>4. value'[c] = None /\ caller'[c] = e
      BY <1>0, <1>2 DEF FreshInv
    <2>5. u.id < nextId'[f] /\ caller'[u.call] = f /\ value'[u.call] = None
      BY <1>1, <1>2, <1>3, <2>1, <2>2, <2>3, <2>4
    <2>6. ASSUME NEW x \in reply_'[f], u.id = x.id \/ u.call = x.call PROVE u = x
      BY <1>1, <1>3, <2>1, <2>2, <2>3, <2>6
    <2> QED
      BY <2>5, <2>6
  <1>7. \A f \in Ends : reply_[f] \subseteq reply_'[f]
    BY <1>0, <1>1
  <1>8. WireInv'
    <2> SUFFICES ASSUME NEW f \in Ends, NEW i \in DOMAIN wire'[f] PROVE MsgOK(f, wire[f][i])'
      BY DEF WireInv
    <2>1. CASE i \in DOMAIN wire[f] /\ wire'[f][i] = wire[f][i]
      <3>1. MsgOK(f, wire[f][i])
        BY <1>0, <2>1 DEF WireInv
      <3>2. Other(f) \in Ends
        BY EndFacts
      <3>3. PICK x : x = wire[f][i]
        OBVIOUS
      <3>4. MsgOK(f, x)'
        BY <1>2, <1>7, <3>1, <3>2, <3>3 DEF MsgOK
      <3> QED
        BY <2>1, <3>3, <3>4
    <2>2. CASE f = Other(e) /\ wire'[f][i] = m
      <3>1. Tk(m) \in reply_'[Other(f)]
        BY <1>0, <1>1, <1>e, <2>2
      <3>2. produced'[m.call] = None
        BY <1>0, <1>1, <1>2 DEF FreshInv
      <3> QED
        BY <1>1, <1>2, <1>4, <2>2, <3>1, <3>2 DEF MsgOK
    <2> QED
      BY <1>5, <2>1, <2>2
  <1>9. OnceInv'
    <2> SUFFICES ASSUME NEW f \in Ends, NEW i \in DOMAIN wire'[f], NEW j \in DOMAIN wire'[f],
                        wire'[f][i].call = wire'[f][j].call
                 PROVE  i = j
      BY DEF OnceInv
    <2>1. \A k \in DOMAIN wire[f] : wire[f][k].call # c
      BY <1>4
    <2>2. \A k \in {i, j} : \/ k \in DOMAIN wire[f] /\ wire'[f][k] = wire[f][k]
                            \/ k = Len(wire[f]) + 1 /\ wire'[f][k].call = c
      BY <1>1, <1>5
    <2>3. CASE i \in DOMAIN wire[f] /\ j \in DOMAIN wire[f] /\ wire'[f][i] = wire[f][i]
               /\ wire'[f][j] = wire[f][j]
      BY <1>0, <2>3 DEF OnceInv
    <2> QED
      BY <2>1, <2>2, <2>3
  <1>10. ServeInv'
    <2> SUFFICES ASSUME NEW f \in Ends, NEW x \in serving'[f]
                 PROVE  /\ Tk(x) \in reply_'[Other(f)] /\ produced'[x.call] = None
                        /\ \A n \in serving'[f] : n.call = x.call => n = x
      BY DEF ServeInv, Tk
    <2>1. Other(f) \in Ends
      BY EndFacts
    <2> QED
      BY <1>0, <1>2, <1>7, <2>1 DEF ServeInv
  <1>11. FreshInv'
    BY <1>0, <1>2, RpcAssumption DEF FreshInv
  <1> QED
    BY <1>6, <1>8, <1>9, <1>10, <1>11

\* A call that is served leaves no other trace.
LEMMA ServedOnly ==
  ASSUME RpcInv, NEW e \in Ends, NEW m \in serving[e]
  PROVE  /\ \A f \in Ends : \A i \in DOMAIN wire[f] : wire[f][i].call # m.call
         /\ \A f \in Ends : \A n \in serving[f] : n.call = m.call => f = e /\ n = m
  <1>0. WireInv /\ ServeInv
    BY DEF RpcInv
  <1>1. /\ caller[m.call] = Other(e) /\ produced[m.call] = None /\ m.call \in Calls
        /\ None \notin DOMAIN Settled
    BY Traces, RpcAssumption DEF CallMsg, Outcomes, Settled
  <1>2. \A f \in Ends : Other(f) = Other(e) => f = e
    BY DEF Ends, Other
  <1>3. ASSUME NEW f \in Ends, NEW i \in DOMAIN wire[f], wire[f][i].call = m.call PROVE FALSE
    <2>1. PICK x : x = wire[f][i]
      OBVIOUS
    <2>2. /\ x \in Message
          /\ x.kind = "call" => caller[x.call] = Other(f) /\ produced[x.call] = None
          /\ x.kind = "reply" => caller[x.call] = f /\ produced[x.call] \in DOMAIN Settled
      BY <2>1, Traces
    <2>3. x.kind = "call"
      BY <1>1, <1>3, <2>1, <2>2, MsgFacts
    <2>4. f = e
      BY <1>1, <1>2, <1>3, <2>1, <2>2, <2>3
    <2>5. MsgOK(e, x)
      BY <1>0, <2>1, <2>4 DEF WireInv
    <2> QED
      BY <1>3, <2>1, <2>3, <2>5 DEF MsgOK
  <1>4. ASSUME NEW f \in Ends, NEW n \in serving[f], n.call = m.call PROVE f = e /\ n = m
    <2>1. caller[n.call] = Other(f)
      BY Traces
    <2>2. f = e
      BY <1>1, <1>2, <1>4, <2>1
    <2> QED
      BY <1>0, <1>4, <2>2 DEF ServeInv
  <1> QED
    BY <1>3, <1>4

\* A handler that ends, with or without a reply, ends the trace it was.
LEMMA FinishKeeps ==
  ASSUME RpcInv, TypeOK', NEW e \in Ends, NEW m \in serving[e],
         \/ Mute(e, m)
         \/ \E o \in DOMAIN Settled : Reply(e, m, o)
  PROVE  TicketInv' /\ WireInv' /\ OnceInv' /\ ServeInv' /\ FreshInv'
  <1>0. /\ wire \in [Ends -> Seq(Message)] /\ serving \in [Ends -> SUBSET CallMsg]
        /\ produced \in [Calls -> Outcomes \cup {None}]
        /\ TicketInv /\ WireInv /\ OnceInv /\ ServeInv /\ FreshInv
    BY DEF RpcInv, TypeOK
  <1>e. Other(e) \in Ends /\ Other(e) # e /\ Other(Other(e)) = e
    BY EndFacts
  <1>1. /\ m \in CallMsg /\ m.call \in Calls /\ m.id \in Nat
        /\ caller[m.call] = Other(e) /\ Tk(m) \in reply_[Other(e)]
    BY <1>0, Traces DEF CallMsg, ServeInv
  <1>2. /\ serving' = [serving EXCEPT ![e] = @ \ {m}]
        /\ UNCHANGED <<nextId, reply_, caller, value>>
        /\ \E o \in Outcomes : produced' = [produced EXCEPT ![m.call] = o]
    BY DEF Mute, Reply, Outcomes, Settled
  <1>3. PICK r :
          /\ r \in Message /\ r.kind = "reply" /\ r.call = m.call /\ Tk(r) = Tk(m)
          /\ \/ wire' = wire
             \/ wire' = Post(wire, Other(e), r) /\ produced' = [produced EXCEPT ![m.call] = r.outcome]
    <2>1. CASE Mute(e, m)
      <3> DEFINE r == [kind |-> "reply", id |-> m.id, outcome |-> "void", call |-> m.call]
      <3>1. r \in Message /\ r.kind = "reply" /\ r.call = m.call /\ Tk(r) = Tk(m)
        BY <1>1 DEF Message, ReplyMsg, Settled, Tk
      <3>2. wire' = wire
        BY <2>1 DEF Mute
      <3> QED
        BY <3>1, <3>2
    <2>2. CASE \E o \in DOMAIN Settled : Reply(e, m, o)
      <3>1. PICK o \in DOMAIN Settled : Reply(e, m, o)
        BY <2>2
      <3> DEFINE r == [kind |-> "reply", id |-> m.id, outcome |-> o, call |-> m.call]
      <3>2. r \in Message /\ r.kind = "reply" /\ r.call = m.call /\ Tk(r) = Tk(m) /\ r.outcome = o
        BY <1>1, <3>1 DEF Message, ReplyMsg, Tk
      <3>3. wire' = Post(wire, Other(e), r) /\ produced' = [produced EXCEPT ![m.call] = o]
        BY <3>1 DEF Reply
      <3> HIDE DEF r
      <3> QED
        BY <3>2, <3>3
    <2> QED
      BY <2>1, <2>2
  <1>4. \A f \in Ends : \A i \in DOMAIN wire'[f] :
          \/ i \in DOMAIN wire[f] /\ wire'[f][i] = wire[f][i]
          \/ /\ f = Other(e) /\ i = Len(wire[f]) + 1 /\ wire'[f][i] = r
             /\ produced' = [produced EXCEPT ![m.call] = r.outcome]
    <2>1. CASE wire' = wire
      BY <2>1
    <2>2. CASE wire' = Post(wire, Other(e), r) /\ produced' = [produced EXCEPT ![m.call] = r.outcome]
      <3>1. /\ wire \in [Ends -> Seq(Message)] /\ r \in Message /\ Other(e) \in Ends
            /\ wire' = Post(wire, Other(e), r)
        BY <1>0, <1>e, <1>3, <2>2
      <3>2. \A f \in Ends : \A i \in DOMAIN wire'[f] :
              \/ i \in DOMAIN wire[f] /\ wire'[f][i] = wire[f][i]
              \/ f = Other(e) /\ i = Len(wire[Other(e)]) + 1 /\ wire'[f][i] = r
        <4>1. Posted(wire, Other(e), r, wire')
          BY <3>1, PostWire
        <4> QED
          BY <4>1 DEF Posted
      <3> QED
        BY <2>2, <3>2
    <2> QED
      BY <1>3, <2>1, <2>2
  <1>5. \A c \in Calls : c # m.call => produced'[c] = produced[c]
    BY <1>0, <1>2
  <1>6. \A f \in Ends : \A n \in serving'[f] : n \in serving[f] /\ n.call # m.call
    BY <1>0, <1>2, ServedOnly
  <1>7. TicketInv'
    BY <1>0, <1>2 DEF TicketInv
  <1>8. WireInv'
    <2> SUFFICES ASSUME NEW f \in Ends, NEW i \in DOMAIN wire'[f] PROVE MsgOK(f, wire[f][i])'
      BY DEF WireInv
    <2>1. CASE i \in DOMAIN wire[f] /\ wire'[f][i] = wire[f][i]
      <3>1. PICK x : x = wire[f][i]
        OBVIOUS
      <3>2. MsgOK(f, x) /\ x.call # m.call /\ x \in Message
        BY <1>0, <2>1, <3>1, ServedOnly DEF WireInv
      <3>3. produced'[x.call] = produced[x.call]
        BY <1>5, <3>2, MsgFacts
      <3>4. MsgOK(f, x)'
        BY <1>2, <1>6, <3>2, <3>3 DEF MsgOK
      <3> QED
        BY <2>1, <3>1, <3>4
    <2>2. CASE f = Other(e) /\ wire'[f][i] = r /\ produced' = [produced EXCEPT ![m.call] = r.outcome]
      <3>1. produced'[r.call] = r.outcome
        BY <1>0, <1>1, <1>3, <2>2
      <3>2. Tk(r) \in reply_'[f]
        BY <1>1, <1>2, <1>3, <2>2
      <3> QED
        BY <1>3, <2>2, <3>1, <3>2 DEF MsgOK
    <2> QED
      BY <1>4, <2>1, <2>2
  <1>9. OnceInv'
    <2> SUFFICES ASSUME NEW f \in Ends, NEW i \in DOMAIN wire'[f], NEW j \in DOMAIN wire'[f],
                        wire'[f][i].call = wire'[f][j].call
                 PROVE  i = j
      BY DEF OnceInv
    <2>1. \A k \in DOMAIN wire[f] : wire[f][k].call # m.call
      BY ServedOnly
    <2>2. \A k \in {i, j} : \/ k \in DOMAIN wire[f] /\ wire'[f][k] = wire[f][k]
                            \/ k = Len(wire[f]) + 1 /\ wire'[f][k].call = m.call
      BY <1>3, <1>4
    <2>3. CASE i \in DOMAIN wire[f] /\ j \in DOMAIN wire[f] /\ wire'[f][i] = wire[f][i]
               /\ wire'[f][j] = wire[f][j]
      BY <1>0, <2>3 DEF OnceInv
    <2> QED
      BY <2>1, <2>2, <2>3
  <1>10. ServeInv'
    <2> SUFFICES ASSUME NEW f \in Ends, NEW x \in serving'[f]
                 PROVE  /\ Tk(x) \in reply_'[Other(f)] /\ produced'[x.call] = None
                        /\ \A n \in serving'[f] : n.call = x.call => n = x
      BY DEF ServeInv, Tk
    <2>1. Other(f) \in Ends /\ x \in serving[f] /\ x.call \in Calls
      BY <1>0, <1>6, EndFacts DEF CallMsg
    <2>2. /\ Tk(x) \in reply_[Other(f)] /\ produced[x.call] = None
          /\ \A n \in serving[f] : n.call = x.call => n = x
      BY <1>0, <2>1 DEF ServeInv
    <2> QED
      BY <1>2, <1>5, <1>6, <2>1, <2>2
  <1>11. FreshInv'
    <2>1. caller[m.call] # None
      BY <1>1, <1>e, RpcAssumption
    <2> QED
      BY <1>0, <1>2, <1>5, <2>1 DEF FreshInv
  <1> QED
    BY <1>7, <1>8, <1>9, <1>10, <1>11
\* A call that could not be posted has no trace.
LEMMA ThrowKeeps ==
  ASSUME RpcInv, NEW e \in Ends, NEW c \in Calls, RpcThrows(e, c)
  PROVE  TicketInv' /\ WireInv' /\ OnceInv' /\ ServeInv' /\ FreshInv'
  <1>0. /\ nextId \in [Ends -> Nat \ {0}] /\ reply_ \in [Ends -> SUBSET Ticket]
        /\ caller \in [Calls -> Ends \cup {None}] /\ value \in [Calls -> {"value", "void", "rejected", None}]
        /\ TicketInv /\ WireInv /\ OnceInv /\ ServeInv /\ FreshInv
    BY DEF RpcInv, TypeOK
  <1>1. /\ caller[c] = None /\ caller' = [caller EXCEPT ![c] = e]
        /\ nextId' = [nextId EXCEPT ![e] = @ + 1] /\ value' = [value EXCEPT ![c] = "rejected"]
        /\ UNCHANGED <<reply_, wire, serving, produced>>
    BY DEF RpcThrows
  <1>2. TicketInv'
    <2> SUFFICES ASSUME NEW f \in Ends, NEW t \in reply_[f]
                 PROVE  /\ t.id < nextId'[f] /\ caller'[t.call] = f /\ value'[t.call] = None
                        /\ \A u \in reply_[f] : t.id = u.id \/ t.call = u.call => t = u
      BY <1>1 DEF TicketInv
    <2>1. /\ t.id \in Nat /\ t.call \in Calls /\ t.id < nextId[f] /\ caller[t.call] = f
          /\ value[t.call] = None
          /\ \A u \in reply_[f] : t.id = u.id \/ t.call = u.call => t = u
      BY <1>0 DEF TicketInv, Ticket
    <2>2. t.call # c
      BY <1>1, <2>1, RpcAssumption
    <2>3. nextId'[f] >= nextId[f] /\ nextId[f] \in Nat /\ nextId'[f] \in Nat
      BY <1>0, <1>1
    <2> QED
      BY <1>0, <1>1, <2>1, <2>2, <2>3
  <1>3. WireInv' /\ OnceInv' /\ ServeInv'
    BY <1>0, <1>1 DEF WireInv, MsgOK, OnceInv, ServeInv
  <1>4. FreshInv'
    BY <1>0, <1>1, RpcAssumption DEF FreshInv
  <1> QED
    BY <1>2, <1>3, <1>4

\* The message of a call becomes its running handler, or nothing.
LEMMA RecvCallKeeps ==
  ASSUME RpcInv, NEW e \in Ends, RecvCall(e)
  PROVE  TicketInv' /\ WireInv' /\ OnceInv' /\ ServeInv' /\ FreshInv'
  <1>0. /\ wire \in [Ends -> Seq(Message)] /\ serving \in [Ends -> SUBSET CallMsg]
        /\ TicketInv /\ WireInv /\ OnceInv /\ ServeInv /\ FreshInv
    BY DEF RpcInv, TypeOK
  <1>e. Other(e) \in Ends /\ Other(e) # e /\ Other(Other(e)) = e
    BY EndFacts
  <1>1. PICK m \in Message :
          /\ m = wire[e][1] /\ 1 \in DOMAIN wire[e] /\ m.kind = "call"
          /\ serving' \in {serving, [serving EXCEPT ![e] = @ \cup {m}]}
          /\ \A f \in Ends : f # e => wire'[f] = wire[f]
          /\ \A i \in DOMAIN wire'[e] :
               i \in Nat \ {0} /\ i + 1 \in DOMAIN wire[e] /\ wire'[e][i] = wire[e][i + 1]
    <2>1. /\ wire \in [Ends -> Seq(Message)] /\ wire[e] # <<>>
          /\ wire' = [wire EXCEPT ![e] = Tail(@)]
      BY <1>0 DEF RecvCall
    <2>2. Head(wire[e]).kind = "call"
          /\ serving' \in {serving, [serving EXCEPT ![e] = @ \cup {Head(wire[e])}]}
      BY DEF RecvCall
    <2>3. /\ Head(wire[e]) \in Message /\ 1 \in DOMAIN wire[e] /\ Head(wire[e]) = wire[e][1]
          /\ \A f \in Ends : f # e => wire'[f] = wire[f]
          /\ \A i \in DOMAIN wire'[e] :
               i \in Nat \ {0} /\ i + 1 \in DOMAIN wire[e] /\ wire'[e][i] = wire[e][i + 1]
      BY <2>1, TakeWire
    <2> QED
      BY <2>2, <2>3
  <1>2. /\ Tk(m) \in reply_[Other(e)] /\ produced[m.call] = None
        /\ \A n \in serving[e] : n.call # m.call
    <2>1. MsgOK(e, m)
      BY <1>0, <1>1 DEF WireInv
    <2> QED
      BY <1>1, <2>1 DEF MsgOK
  <1>3. UNCHANGED <<nextId, reply_, caller, produced, value>>
    BY DEF RecvCall
  <1>4. TicketInv' /\ FreshInv'
    BY <1>0, <1>3 DEF TicketInv, FreshInv
  <1>5. \A i \in DOMAIN wire'[e] : wire'[e][i].call # m.call
    <2> SUFFICES ASSUME NEW i \in DOMAIN wire'[e], wire[e][i + 1].call = wire[e][1].call PROVE FALSE
      BY <1>1
    <2>1. i + 1 = 1 /\ i \in Nat \ {0}
      BY <1>0, <1>1 DEF OnceInv
    <2> QED
      BY <2>1
  <1>6. \A f \in Ends : \A n \in serving'[f] : n \in serving[f] \/ (f = e /\ n = m)
    BY <1>0, <1>1
  <1>7. WireInv'
    <2> SUFFICES ASSUME NEW f \in Ends, NEW i \in DOMAIN wire'[f] PROVE MsgOK(f, wire[f][i])'
      BY DEF WireInv
    <2>1. PICK x : x = wire'[f][i]
      OBVIOUS
    <2>2. \E k \in DOMAIN wire[f] : x = wire[f][k]
      BY <1>1, <2>1
    <2>3. MsgOK(f, x)
      BY <1>0, <2>2 DEF WireInv
    <2>4. f = e => x.call # m.call
      BY <1>5, <2>1
    <2>5. \A n \in serving'[f] : n \in serving[f] \/ (f = e /\ n = m)
      BY <1>6
    <2>6. MsgOK(f, x)'
      BY <1>3, <2>3, <2>4, <2>5 DEF MsgOK
    <2> QED
      BY <2>1, <2>6
  <1>8. OnceInv'
    <2> SUFFICES ASSUME NEW f \in Ends, NEW i \in DOMAIN wire'[f], NEW j \in DOMAIN wire'[f],
                        wire'[f][i].call = wire'[f][j].call
                 PROVE  i = j
      BY DEF OnceInv
    <2>1. CASE f # e
      BY <1>0, <1>1, <2>1 DEF OnceInv
    <2>2. CASE f = e
      <3>1. /\ i \in Nat /\ i + 1 \in DOMAIN wire[e] /\ wire[e][i + 1] = wire'[f][i]
            /\ j \in Nat /\ j + 1 \in DOMAIN wire[e] /\ wire[e][j + 1] = wire'[f][j]
        BY <1>1, <2>2
      <3>2. i + 1 = j + 1
        BY <1>0, <3>1 DEF OnceInv
      <3> QED
        BY <3>1, <3>2
    <2> QED
      BY <2>1, <2>2
  <1>9. ServeInv'
    <2> SUFFICES ASSUME NEW f \in Ends, NEW x \in serving'[f]
                 PROVE  /\ Tk(x) \in reply_[Other(f)] /\ produced[x.call] = None
                        /\ \A n \in serving'[f] : n.call = x.call => n = x
      BY <1>3 DEF ServeInv, Tk
    <2>1. Tk(x) \in reply_[Other(f)] /\ produced[x.call] = None
      BY <1>0, <1>2, <1>6 DEF ServeInv
    <2>2. ASSUME NEW n \in serving'[f], n.call = x.call PROVE n = x
      <3>1. CASE n \in serving[f] /\ x \in serving[f]
        BY <1>0, <2>2, <3>1 DEF ServeInv
      <3> QED
        BY <1>2, <1>6, <2>2, <3>1
    <2> QED
      BY <2>1, <2>2
  <1> QED
    BY <1>4, <1>7, <1>8, <1>9

\* A message that recv cannot read is gone, and nothing else.
LEMMA RecvUnknownKeeps ==
  ASSUME RpcInv, NEW e \in Ends, RecvUnknown(e)
  PROVE  TicketInv' /\ WireInv' /\ OnceInv' /\ ServeInv' /\ FreshInv'
  <1>0. /\ wire \in [Ends -> Seq(Message)]
        /\ TicketInv /\ WireInv /\ OnceInv /\ ServeInv /\ FreshInv
    BY DEF RpcInv, TypeOK
  <1>1. /\ \A f \in Ends : f # e => wire'[f] = wire[f]
        /\ \A i \in DOMAIN wire'[e] :
             i \in Nat \ {0} /\ i + 1 \in DOMAIN wire[e] /\ wire'[e][i] = wire[e][i + 1]
    BY <1>0, TakeWire DEF RecvUnknown
  <1>2. UNCHANGED <<nextId, reply_, serving, caller, produced, value>>
    BY DEF RecvUnknown
  <1>3. TicketInv' /\ ServeInv' /\ FreshInv'
    BY <1>0, <1>2 DEF TicketInv, ServeInv, FreshInv
  <1>4. WireInv'
    <2> SUFFICES ASSUME NEW f \in Ends, NEW i \in DOMAIN wire'[f] PROVE MsgOK(f, wire[f][i])'
      BY DEF WireInv
    <2>1. PICK x : x = wire'[f][i]
      OBVIOUS
    <2>2. \E k \in DOMAIN wire[f] : x = wire[f][k]
      BY <1>1, <2>1
    <2>3. MsgOK(f, x)
      BY <1>0, <2>2 DEF WireInv
    <2>4. MsgOK(f, x)'
      BY <1>2, <2>3 DEF MsgOK
    <2> QED
      BY <2>1, <2>4
  <1>5. OnceInv'
    <2> SUFFICES ASSUME NEW f \in Ends, NEW i \in DOMAIN wire'[f], NEW j \in DOMAIN wire'[f],
                        wire'[f][i].call = wire'[f][j].call
                 PROVE  i = j
      BY DEF OnceInv
    <2>1. CASE f # e
      BY <1>0, <1>1, <2>1 DEF OnceInv
    <2>2. CASE f = e
      <3>1. /\ i \in Nat /\ i + 1 \in DOMAIN wire[e] /\ wire[e][i + 1] = wire'[f][i]
            /\ j \in Nat /\ j + 1 \in DOMAIN wire[e] /\ wire[e][j + 1] = wire'[f][j]
        BY <1>1, <2>2
      <3>2. i + 1 = j + 1
        BY <1>0, <3>1 DEF OnceInv
      <3> QED
        BY <3>1, <3>2
    <2> QED
      BY <2>1, <2>2
  <1> QED
    BY <1>3, <1>4, <1>5

\* What a reply finds: the promise of its call and no other.
LEMMA ReplyFinds ==
  ASSUME RpcInv, NEW e \in Ends, NEW i \in DOMAIN wire[e], wire[e][i].kind = "reply"
  PROVE  Pending(e, wire[e][i].id) = {Tk(wire[e][i])}
  <1>1. PICK m : m = wire[e][i]
    OBVIOUS
  <1>2. MsgOK(e, m) /\ m.kind = "reply" /\ TicketInv
    BY <1>1 DEF RpcInv, WireInv
  <1>3. Tk(m) \in reply_[e] /\ Tk(m).id = m.id
    BY <1>2, TkFacts DEF MsgOK
  <1>4. \A t \in reply_[e] : t.id = m.id => t = Tk(m)
    BY <1>2, <1>3 DEF TicketInv
  <1> QED
    BY <1>1, <1>3, <1>4 DEF Pending

\* A reply takes the promise of its call with it.
LEMMA RecvReplyKeeps ==
  ASSUME RpcInv, NEW e \in Ends, RecvReply(e)
  PROVE  TicketInv' /\ WireInv' /\ OnceInv' /\ ServeInv' /\ FreshInv'
  <1>0. /\ wire \in [Ends -> Seq(Message)] /\ reply_ \in [Ends -> SUBSET Ticket]
        /\ TicketInv /\ WireInv /\ OnceInv /\ ServeInv /\ FreshInv
    BY DEF RpcInv, TypeOK
  <1>e. \A f \in Ends : Other(f) \in Ends /\ (f # e => Other(f) = e)
    BY DEF Ends, Other
  <1>1. PICK m \in Message :
          /\ m = wire[e][1] /\ 1 \in DOMAIN wire[e] /\ m.kind = "reply"
          /\ reply_' = [reply_ EXCEPT ![e] = @ \ Pending(e, m.id)]
          /\ \A c \in Calls : (\A t \in Pending(e, m.id) : t.call # c) => value'[c] = value[c]
          /\ \A f \in Ends : f # e => wire'[f] = wire[f]
          /\ \A i \in DOMAIN wire'[e] :
               i \in Nat \ {0} /\ i + 1 \in DOMAIN wire[e] /\ wire'[e][i] = wire[e][i + 1]
    <2>1. /\ wire \in [Ends -> Seq(Message)] /\ wire[e] # <<>>
          /\ wire' = [wire EXCEPT ![e] = Tail(@)]
      BY <1>0 DEF RecvReply
    <2>2. /\ Head(wire[e]).kind = "reply"
          /\ reply_' = [reply_ EXCEPT ![e] = @ \ Pending(e, Head(wire[e]).id)]
          /\ \A c \in Calls : (\A t \in Pending(e, Head(wire[e]).id) : t.call # c) => value'[c] = value[c]
      BY DEF RecvReply
    <2>3. /\ Head(wire[e]) \in Message /\ 1 \in DOMAIN wire[e] /\ Head(wire[e]) = wire[e][1]
          /\ \A f \in Ends : f # e => wire'[f] = wire[f]
          /\ \A i \in DOMAIN wire'[e] :
               i \in Nat \ {0} /\ i + 1 \in DOMAIN wire[e] /\ wire'[e][i] = wire[e][i + 1]
      BY <2>1, TakeWire
    <2> QED
      BY <2>2, <2>3
  <1>2. Pending(e, m.id) = {Tk(m)}
    BY <1>1, ReplyFinds
  <1>3. Tk(m) \in reply_[e] /\ produced[m.call] = m.outcome /\ m.call \in Calls
        /\ caller[m.call] = e /\ produced[m.call] # None
    <2>1. MsgOK(e, m) /\ m.call \in Calls
      BY <1>0, <1>1, MsgFacts DEF WireInv
    <2>2. Tk(m) \in reply_[e] /\ produced[m.call] = m.outcome
      BY <1>1, <2>1 DEF MsgOK
    <2>3. m.outcome \in DOMAIN Settled /\ None \notin DOMAIN Settled
      BY <1>1, RpcAssumption DEF Message, CallMsg, ReplyMsg, Outcomes, Settled
    <2> QED
      BY <1>0, <2>1, <2>2, <2>3, TkFacts DEF TicketInv
  <1>4. /\ UNCHANGED <<nextId, serving, caller, produced>>
        /\ \A c \in Calls : c # m.call => value'[c] = value[c]
    <2>1. UNCHANGED <<nextId, serving, caller, produced>>
      BY DEF RecvReply
    <2>2. \A t \in Pending(e, m.id) : t.call = m.call
      BY <1>2, TkFacts
    <2> QED
      BY <1>1, <2>1, <2>2
  <1>5. \A f \in Ends : \A t \in reply_'[f] : t \in reply_[f] /\ t.call # m.call /\ t.call \in Calls
    <2> SUFFICES ASSUME NEW f \in Ends, NEW t \in reply_'[f]
                 PROVE  t \in reply_[f] /\ t.call # m.call /\ t.call \in Calls
      OBVIOUS
    <2>1. t \in reply_[f] /\ t.call \in Calls /\ (f = e => t # Tk(m))
      BY <1>0, <1>1, <1>2 DEF Ticket
    <2>2. CASE f = e
      BY <1>0, <1>3, <2>1, <2>2, TkFacts DEF TicketInv
    <2>3. CASE f # e
      <3>1. caller[t.call] = f
        BY <1>0, <2>1 DEF TicketInv
      <3> QED
        BY <1>3, <2>1, <2>3, <3>1
    <2> QED
      BY <2>2, <2>3
  <1>6. \A f \in Ends : \A x : Tk(x) \in reply_[f] /\ x.call # m.call => Tk(x) \in reply_'[f]
    <2> SUFFICES ASSUME NEW f \in Ends, NEW x, Tk(x) \in reply_[f], x.call # m.call
                 PROVE  Tk(x) \in reply_'[f]
      OBVIOUS
    <2>1. Tk(x) # Tk(m)
      BY DEF Tk
    <2> QED
      BY <1>0, <1>1, <1>2, <2>1
  <1>7. TicketInv'
    BY <1>0, <1>4, <1>5 DEF TicketInv
  <1>8. WireInv'
    <2> SUFFICES ASSUME NEW f \in Ends, NEW i \in DOMAIN wire'[f] PROVE MsgOK(f, wire[f][i])'
      BY DEF WireInv
    <2>1. PICK x : x = wire'[f][i]
      OBVIOUS
    <2>2. PICK k \in DOMAIN wire[f] : x = wire[f][k] /\ (f = e => k # 1)
      <3>1. CASE f = e
        <4>1. i \in Nat \ {0} /\ i + 1 \in DOMAIN wire[f] /\ x = wire[f][i + 1]
          BY <1>1, <2>1, <3>1
        <4>2. i + 1 # 1
          BY <4>1
        <4> QED
          BY <4>1, <4>2
      <3>2. CASE f # e
        BY <1>1, <2>1, <3>2
      <3> QED
        BY <3>1, <3>2
    <2>3. MsgOK(f, x)
      BY <1>0, <2>2 DEF WireInv
    <2>4. x.call # m.call
      <3>1. CASE f = e
        BY <1>0, <1>1, <2>2, <3>1 DEF OnceInv
      <3>2. CASE f # e
        <4>1. x.kind = "reply" => caller[x.call] = f
          BY <2>2, Traces
        <4>2. x.kind = "call" => produced[x.call] = None
          BY <2>3 DEF MsgOK
        <4>3. x.kind = "reply" \/ x.kind = "call"
          BY <2>3 DEF MsgOK
        <4> QED
          BY <1>3, <3>2, <4>1, <4>2, <4>3
      <3> QED
        BY <3>1, <3>2
    <2>5. MsgOK(f, x)'
      BY <1>4, <1>6, <1>e, <2>3, <2>4 DEF MsgOK
    <2> QED
      BY <2>1, <2>5
  <1>9. OnceInv'
    <2> SUFFICES ASSUME NEW f \in Ends, NEW i \in DOMAIN wire'[f], NEW j \in DOMAIN wire'[f],
                        wire'[f][i].call = wire'[f][j].call
                 PROVE  i = j
      BY DEF OnceInv
    <2>1. CASE f # e
      BY <1>0, <1>1, <2>1 DEF OnceInv
    <2>2. CASE f = e
      <3>1. /\ i \in Nat /\ i + 1 \in DOMAIN wire[e] /\ wire[e][i + 1] = wire'[f][i]
            /\ j \in Nat /\ j + 1 \in DOMAIN wire[e] /\ wire[e][j + 1] = wire'[f][j]
        BY <1>1, <2>2
      <3>2. i + 1 = j + 1
        BY <1>0, <3>1 DEF OnceInv
      <3> QED
        BY <3>1, <3>2
    <2> QED
      BY <2>1, <2>2
  <1>10. ServeInv'
    <2> SUFFICES ASSUME NEW f \in Ends, NEW x \in serving[f]
                 PROVE  /\ Tk(x) \in reply_'[Other(f)] /\ produced[x.call] = None
                        /\ \A n \in serving[f] : n.call = x.call => n = x
      BY <1>4 DEF ServeInv, Tk
    <2>1. /\ Tk(x) \in reply_[Other(f)] /\ produced[x.call] = None
          /\ \A n \in serving[f] : n.call = x.call => n = x
      BY <1>0 DEF ServeInv
    <2> QED
      BY <1>3, <1>6, <1>e, <2>1
  <1>11. FreshInv'
    <2>1. caller[m.call] # None
      BY <1>3, RpcAssumption
    <2> QED
      BY <1>0, <1>4, <2>1 DEF FreshInv
  <1> QED
    BY <1>7, <1>8, <1>9, <1>10, <1>11

\* With the channel all that was on its way is gone.
LEMMA CloseKeeps ==
  ASSUME RpcInv, Close
  PROVE  TicketInv' /\ WireInv' /\ OnceInv' /\ ServeInv' /\ FreshInv'
  <1>1. TicketInv /\ ServeInv /\ FreshInv
    BY DEF RpcInv
  <1>2. UNCHANGED <<nextId, reply_, serving, caller, produced, value>>
    BY DEF Close
  <1>3. \A e \in Ends : DOMAIN wire'[e] = {}
    BY DEF Close
  <1> QED
    BY <1>1, <1>2, <1>3 DEF TicketInv, ServeInv, FreshInv, WireInv, OnceInv

\* The invariant holds at the start and every step keeps it.
LEMMA RpcInitial == Init => RpcInv
  <1> SUFFICES ASSUME Init PROVE RpcInv
    OBVIOUS
  <1>1. \A table \in Apis : <<>> \in Seq(SUBSET Methods) /\ <<table>> \in Seq(SUBSET Methods)
    BY RpcAssumption
  <1>2. PICK table \in Apis : api = [e \in Ends |-> IF WsHandler(e) THEN <<table>> ELSE <<>>]
    BY DEF Init
  <1>3. api \in [Ends -> Seq(SUBSET Methods)]
    BY <1>1, <1>2
  <1>4. open \in BOOLEAN /\ channel \in Kinds
    BY DEF Init
  <1>5. TypeOK
    BY <1>3, <1>4 DEF Init, TypeOK
  <1> QED
    BY <1>5, RpcAssumption DEF Init, RpcInv, TicketInv, WireInv, OnceInv, ServeInv, FreshInv, Ends

\* One step of either end, or of the channel.
LEMMA RpcStep == RpcInv /\ [Next]_vars => RpcInv'
  <1> SUFFICES ASSUME RpcInv, [Next]_vars
               PROVE  TicketInv' /\ WireInv' /\ OnceInv' /\ ServeInv' /\ FreshInv'
    BY TypeStep DEF RpcInv
  <1>0. TypeOK'
    BY TypeStep DEF RpcInv
  <1>1. ASSUME NEW e \in Ends, NEW methods \in Apis, Listen(e, methods)
        PROVE  TicketInv' /\ WireInv' /\ OnceInv' /\ ServeInv' /\ FreshInv'
    BY <1>1, Calm DEF Listen
  <1>2. ASSUME NEW e \in Ends, NEW c \in Calls, Finish(e, c)
        PROVE  TicketInv' /\ WireInv' /\ OnceInv' /\ ServeInv' /\ FreshInv'
    BY <1>0, <1>2, FinishKeeps DEF Finish
  <1>3. CASE UNCHANGED vars
    BY <1>3, Calm DEF vars
  <1> QED
    BY <1>0, <1>1, <1>2, <1>3, RpcKeeps, ThrowKeeps, RecvCallKeeps, RecvUnknownKeeps, RecvReplyKeeps, CloseKeeps DEF Next

\* In every state of every behaviour the five parts hold.
THEOREM Invariance == Spec => []RpcInv
  BY RpcInitial, RpcStep, PTL DEF Spec

\* The variables of both ends keep their types (Peer, rpc.ts:178-255).
THEOREM TypeCorrect == Spec => []TypeOK
  <1>1. RpcInv => TypeOK
    BY DEF RpcInv
  <1> QED
    BY <1>1, Invariance, PTL

\* A reply finds the promise of its own call, alone under its number, however
\* many calls the two ends have open and in whatever order they are answered
\* (recv, rpc.ts:239-254).
THEOREM Correlation == Spec => []RepliesFindTheirCall
  <1>1. RpcInv => RepliesFindTheirCall
    BY ReplyFinds DEF RepliesFindTheirCall, Tk
  <1> QED
    BY <1>1, Invariance, PTL
----------------------------------------------------------------------------
(* The refinement.                                                          *)

\* Every step is a step of RpcCalls or changes nothing there.
LEMMA CallStep == RpcInv /\ [Next]_vars => [Promises!CallsNext]_(Promises!callVars)
  <1> SUFFICES ASSUME RpcInv, [Next]_vars
               PROVE  Promises!CallsNext \/ UNCHANGED Promises!callVars
    OBVIOUS
  <1> DEFINE Same == UNCHANGED <<caller, produced, value>>
  <1>0. /\ wire \in [Ends -> Seq(Message)] /\ serving \in [Ends -> SUBSET CallMsg]
        /\ value \in [Calls -> {"value", "void", "rejected", None}]
        /\ produced \in [Calls -> Outcomes \cup {None}]
        /\ caller \in [Calls -> Ends \cup {None}]
        /\ None \notin Ends
    BY RpcAssumption DEF RpcInv, TypeOK
  <1>s. ASSUME Same PROVE UNCHANGED Promises!callVars
    BY <1>s DEF Promises!callVars
  <1>1. ASSUME NEW e \in Ends, NEW c \in Calls,
               caller[c] = None, caller' = [caller EXCEPT ![c] = e], produced' = produced,
               value' \in {value, [value EXCEPT ![c] = "rejected"]}
        PROVE  Promises!CallsNext
    <2>1. {d \in Calls : caller'[d] # None} = {d \in Calls : caller[d] # None} \cup {c}
      BY <1>0, <1>1
    <2>2. Promises!Ask(c)
      BY <1>1, <2>1 DEF Promises!Ask
    <2> QED
      BY <2>2 DEF Promises!CallsNext
  <1>2. ASSUME NEW e \in Ends, NEW methods \in Apis, Listen(e, methods) PROVE Same
    BY <1>2 DEF Listen
  <1>3. ASSUME NEW e \in Ends, NEW c \in Calls, NEW method \in Methods, Rpc(e, c, method)
        PROVE  Promises!CallsNext
    BY <1>1, <1>3 DEF Rpc
  <1>4. ASSUME NEW e \in Ends, NEW c \in Calls, RpcThrows(e, c) PROVE Promises!CallsNext
    BY <1>1, <1>4 DEF RpcThrows
  <1>5. ASSUME NEW e \in Ends, NEW c \in Calls, Finish(e, c) PROVE Promises!CallsNext
    <2>1. PICK m \in serving[e] :
            m.call = c /\ (Mute(e, m) \/ \E o \in DOMAIN Settled : Reply(e, m, o))
      BY <1>5 DEF Finish
    <2>2. PICK o \in Outcomes : produced' = [produced EXCEPT ![c] = o] /\ UNCHANGED <<caller, value>>
      BY <2>1 DEF Mute, Reply, Outcomes, Settled
    <2>3. caller[c] = Other(e) /\ produced[c] = None /\ value[c] = None /\ Other(e) \in Ends
      BY <2>1, Traces, EndFacts
    <2>4. Promises!Answer(c, o)
      BY <1>0, <2>2, <2>3 DEF Promises!Answer
    <2> QED
      BY <2>4 DEF Promises!CallsNext
  <1>6. ASSUME NEW e \in Ends, RecvCall(e) PROVE Same
    BY <1>6 DEF RecvCall
  <1>7. ASSUME NEW e \in Ends, RecvReply(e) PROVE Promises!CallsNext
    <2>1. PICK m : m = Head(wire[e])
      OBVIOUS
    <2>2. /\ wire[e] # <<>> /\ m.kind = "reply" /\ UNCHANGED <<caller, produced>>
          /\ value' = [c \in Calls |-> IF \E t \in Pending(e, m.id) : t.call = c
                                       THEN Settled[m.outcome] ELSE value[c]]
      BY <1>7, <2>1 DEF RecvReply
    <2>3. 1 \in DOMAIN wire[e] /\ m = wire[e][1] /\ m \in Message
      BY <1>0, <2>1, <2>2, TakeWire
    <2>4. Pending(e, m.id) = {Tk(m)} /\ value[m.call] = None /\ m.call \in Calls
          /\ produced[m.call] = m.outcome /\ m.outcome \in DOMAIN Settled
      <3>1. MsgOK(e, m) /\ m.call \in Calls /\ m.outcome \in DOMAIN Settled
        BY <2>2, <2>3, MsgFacts DEF RpcInv, WireInv, ReplyMsg
      <3>2. value[m.call] = None
        BY <2>3, Traces
      <3>3. Pending(e, m.id) = {Tk(m)}
        BY <2>2, <2>3, ReplyFinds
      <3> QED
        BY <2>2, <3>1, <3>2, <3>3 DEF MsgOK
    <2>5. value' = [value EXCEPT ![m.call] = Settled[produced[m.call]]]
      <3>1. \A c \in Calls : (\E t \in Pending(e, m.id) : t.call = c) <=> c = m.call
        BY <2>4, TkFacts
      <3>2. value' = [c \in Calls |-> IF c = m.call THEN Settled[m.outcome] ELSE value[c]]
        BY <2>2, <3>1
      <3> QED
        BY <1>0, <2>4, <3>2
    <2>6. Promises!Settle(m.call)
      BY <2>2, <2>4, <2>5 DEF Promises!Settle
    <2> QED
      BY <2>4, <2>6 DEF Promises!CallsNext
  <1>u. ASSUME NEW e \in Ends, RecvUnknown(e) PROVE Same
    BY <1>u DEF RecvUnknown
  <1>8. CASE Close
    BY <1>8, <1>s DEF Close
  <1>9. CASE UNCHANGED vars
    BY <1>9, <1>s DEF vars
  <1> HIDE DEF Same
  <1> QED
    BY <1>s, <1>2, <1>3, <1>4, <1>5, <1>6, <1>7, <1>8, <1>9, <1>u DEF Next

\* Peer keeps the promises of RpcCalls: a call is served at most once, and its
\* promise is settled at most once, with what its own handler produced.
THEOREM Refinement == Spec => ImplementsRpcCalls
  <1>1. Init => Promises!CallsInit
    BY DEF Init, Promises!CallsInit
  <1> QED
    BY <1>1, CallStep, Invariance, PTL DEF Spec, ImplementsRpcCalls, Promises!CallsSpec

============================================================================
