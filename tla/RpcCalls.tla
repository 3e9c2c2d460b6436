------------------------------ MODULE RpcCalls ------------------------------
(***************************************************************************)
(* What an rpc promises to the two programs at its ends: a call is served  *)
(* at most once, its promise is settled at most once, and with what its    *)
(* own handler produced.  RpcPeer and WorkerRpc implement it.              *)
(***************************************************************************)
CONSTANTS
  Calls,
  Outcomes,  \* what a handler may produce for the caller
  Settled,   \* outcome -> how the promise ends
  Rejected,  \* how the promise ends when the message could not be posted
  None

VARIABLES
  asked,   \* calls made
  answer,  \* what the handler of a call produced, None before
  value    \* how its promise ended, None before

callVars == <<asked, answer, value>>

CallsInit ==
  /\ asked = {}
  /\ answer = [c \in Calls |-> None]
  /\ value = [c \in Calls |-> None]

\* A call is made, and fails at once when it cannot be sent.
Ask(c) ==
  /\ c \notin asked
  /\ asked' = asked \cup {c}
  /\ value' \in {value, [value EXCEPT ![c] = Rejected]}
  /\ UNCHANGED answer

Answer(c, o) ==
  /\ c \in asked
  /\ answer[c] = None
  /\ value[c] = None
  /\ answer' = [answer EXCEPT ![c] = o]
  /\ UNCHANGED <<asked, value>>

Settle(c) ==
  /\ answer[c] \in DOMAIN Settled
  /\ value[c] = None
  /\ value' = [value EXCEPT ![c] = Settled[answer[c]]]
  /\ UNCHANGED <<asked, answer>>

CallsNext ==
  \E c \in Calls : Ask(c) \/ Settle(c) \/ \E o \in Outcomes : Answer(c, o)

CallsSpec == CallsInit /\ [][CallsNext]_callVars
=============================================================================
