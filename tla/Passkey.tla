------------------------------ MODULE Passkey ------------------------------
(***************************************************************************)
(* Signing in with a passkey: PasskeyState of                              *)
(* packages/ui/src/login/passkey.ts in the page, one connection, and the   *)
(* handlers of dgdb/webauthn.go that share the session of that connection. *)
(*                                                                         *)
(* A watch (initPasskey) waits in the background for the user to pick a    *)
(* passkey; a login (webauthnLogin) asks for one at once, with a challenge *)
(* its caller got before; a registration takes a challenge as well.  The   *)
(* server keeps one challenge, that of the last one that asked.            *)
(***************************************************************************)
EXTENDS Integers, Sequences, FiniteSets

CONSTANTS
  Watches,     \* calls of initPasskey
  Logins,      \* calls of webauthnLogin
  Registers,   \* calls of register
  None

Attempts == Watches \cup Logins \cup Registers

\* What is assumed of the constants.
PasskeyAssumption ==
  /\ Watches \cap (Logins \cup Registers) = {} /\ Logins \cap Registers = {}
  /\ None \notin Attempts \cup Nat /\ None # "signed"

VARIABLES
  ctl,         \* this.abort: the number of the current controller
  aborted,     \* the controllers that were aborted
  step,       \* attempt -> where it is
  sig,         \* attempt -> the controller its wait listens to, None if none
  result,      \* attempt -> what it came to
  toServer,    \* requests on their way, and answers
  toPage,
  stored,      \* Session.Data["webauthn"]: the attempt whose challenge is kept
  cancelled,   \* history: watches that an abort met before the user picked
  failed       \* history: attempts that got no challenge

pkVars == <<ctl, aborted, step, sig, result, toServer, toPage, stored, cancelled, failed>>

Steps  == {"idle", "probing", "asking", "offered", "waiting", "checking", "done"}
Request == [op : {"ask", "check"}, of : Attempts]
Answer  == [op : {"ask", "check"}, of : Attempts, ok : BOOLEAN]
----------------------------------------------------------------------------
Init ==
  /\ ctl = 0 /\ aborted = {}
  /\ step = [a \in Attempts |-> "idle"]
  /\ sig = [a \in Attempts |-> None]
  /\ result = [a \in Attempts |-> None]
  /\ toServer = <<>> /\ toPage = <<>>
  /\ stored = None
  /\ cancelled = {} /\ failed = {}

\* The requests the browser has open.
Open == {a \in Attempts : step[a] = "waiting"}

\* What abort of the current controller ends, and what it comes too early for.
Ended == {a \in Open : sig[a] = ctl}
Met   == {a \in Watches : step[a] = "asking" \/ a \in Ended}

Ask(a)    == [op |-> "ask", of |-> a]
Check(a)  == [op |-> "check", of |-> a]

\* The attempts of gone end with nothing, a goes on to s.
Move(gone, a, s) ==
  /\ step' = [b \in Attempts |-> IF b = a THEN s ELSE IF b \in gone THEN "done" ELSE step[b]]
  /\ result' = [b \in Attempts |->
       IF b \in gone \/ (b = a /\ s = "done")
       THEN IF b \in Watches THEN "null" ELSE "rejected" ELSE result[b]]
----------------------------------------------------------------------------
(* The page.                                                                *)

\* initPasskey asks the browser whether it can wait in the background.
Probe(a) ==
  /\ a \in Watches /\ step[a] = "idle"
  /\ step' = [step EXCEPT ![a] = "probing"]
  /\ UNCHANGED <<ctl, aborted, sig, result, toServer, toPage, stored, cancelled, failed>>

CannotWait(a) ==
  /\ a \in Watches /\ step[a] = "probing"
  /\ Move({}, a, "done")
  /\ UNCHANGED <<ctl, aborted, sig, toServer, toPage, stored, cancelled, failed>>

\* Mutant: the controller is replaced and the old one is not aborted.
BeginReplaces(a) ==
  /\ a \in Watches /\ step[a] = "probing"
  /\ ctl' = ctl + 1
  /\ step' = [step EXCEPT ![a] = "asking"]
  /\ toServer' = Append(toServer, Ask(a))
  /\ UNCHANGED <<aborted, sig, result, toPage, stored, cancelled, failed>>

\* It can: the current controller is aborted and replaced, and a challenge asked.
Begin(a) ==
  /\ a \in Watches /\ step[a] = "probing"
  /\ aborted' = aborted \cup {ctl}
  /\ ctl' = ctl + 1
  /\ cancelled' = cancelled \cup Met
  /\ Move(Ended, a, "asking")
  /\ toServer' = Append(toServer, Ask(a))
  /\ UNCHANGED <<sig, toPage, stored, failed>>

\* destroy.
Destroy ==
  /\ aborted' = aborted \cup {ctl}
  /\ cancelled' = cancelled \cup Met
  /\ Move(Ended, None, "done")
  /\ UNCHANGED <<ctl, sig, toServer, toPage, stored, failed>>

\* The caller of webauthnLogin gets a challenge for it, that of register one too.
AskFirst(a) ==
  /\ a \notin Watches /\ step[a] = "idle"
  /\ step' = [step EXCEPT ![a] = "asking"]
  /\ toServer' = Append(toServer, Ask(a))
  /\ UNCHANGED <<ctl, aborted, sig, result, toPage, stored, cancelled, failed>>

\* webauthnLogin: the wait in the background is aborted, and the browser asked.
\* A request that is open already is in the way of it, or makes room for it.
WebauthnLogin(a) ==
  /\ a \in Logins /\ step[a] = "offered"
  /\ aborted' = aborted \cup {ctl}
  /\ cancelled' = cancelled \cup Met
  /\ \/ Move(Open, a, "waiting")
     \/ Open # Ended /\ Move(Ended, a, "done")
  /\ UNCHANGED <<ctl, sig, toServer, toPage, stored, failed>>

\* A challenge is there.  A watch asks the browser with the signal of the
\* controller that is current by then; the browser refuses an aborted one.
RecvChallenge(a) ==
  /\ toPage # <<>> /\ Head(toPage) = [op |-> "ask", of |-> a, ok |-> TRUE]
  /\ toPage' = Tail(toPage)
  /\ \/ a \notin Watches /\ Move({}, a, "offered") /\ UNCHANGED sig
     \/ /\ a \in Watches /\ ctl \notin aborted
        /\ sig' = [sig EXCEPT ![a] = ctl]
        /\ Move(Open, a, "waiting") \/ (Open # {} /\ Move({}, a, "done"))
     \/ /\ a \in Watches /\ ctl \in aborted
        /\ sig' = [sig EXCEPT ![a] = ctl]
        /\ Move({}, a, "done")
  /\ UNCHANGED <<ctl, aborted, toServer, stored, cancelled, failed>>

\* There is none: apiCall made null of the error, and null does not parse.
RecvNoChallenge(a) ==
  /\ toPage # <<>> /\ Head(toPage) = [op |-> "ask", of |-> a, ok |-> FALSE]
  /\ toPage' = Tail(toPage)
  /\ Move({}, a, "done")
  /\ failed' = failed \cup {a}
  /\ UNCHANGED <<ctl, aborted, sig, toServer, stored, cancelled>>

\* The user picks a passkey; a watch looks at the current controller again.
Pick(a) ==
  /\ step[a] = "waiting"
  /\ IF a \in Watches /\ ctl \in aborted
     THEN Move({}, a, "done") /\ UNCHANGED toServer
     ELSE Move({}, a, "checking") /\ toServer' = Append(toServer, Check(a))
  /\ UNCHANGED <<ctl, aborted, sig, toPage, stored, cancelled, failed>>

\* The user makes a passkey for a registration.
Create(a) ==
  /\ a \in Registers /\ step[a] = "offered"
  /\ Move({}, a, "checking")
  /\ toServer' = Append(toServer, Check(a))
  /\ UNCHANGED <<ctl, aborted, sig, toPage, stored, cancelled, failed>>

\* The user gives up.
Dismiss(a) ==
  /\ step[a] = "waiting" \/ (a \in Registers /\ step[a] = "offered")
  /\ Move({}, a, "done")
  /\ UNCHANGED <<ctl, aborted, sig, toServer, toPage, stored, cancelled, failed>>

\* login2 or registerb is answered, an error with null.
RecvCheck(a) ==
  /\ toPage # <<>> /\ Head(toPage).op = "check" /\ Head(toPage).of = a
  /\ toPage' = Tail(toPage)
  /\ step' = [step EXCEPT ![a] = "done"]
  /\ result' = [result EXCEPT ![a] = IF Head(toPage).ok THEN "signed" ELSE "null"]
  /\ UNCHANGED <<ctl, aborted, sig, toServer, stored, cancelled, failed>>
----------------------------------------------------------------------------
(* The server.                                                              *)

\* Mutant: a session that has a challenge keeps it.
IssueOnce ==
  /\ toServer # <<>> /\ Head(toServer).op = "ask"
  /\ toServer' = Tail(toServer)
  /\ stored' = IF stored = None THEN Head(toServer).of ELSE stored
  /\ toPage' = Append(toPage, [op |-> "ask", of |-> Head(toServer).of, ok |-> TRUE])
  /\ UNCHANGED <<ctl, aborted, step, sig, result, cancelled, failed>>

\* login and register make a challenge and store it, over one that is there.
Issue ==
  /\ toServer # <<>> /\ Head(toServer).op = "ask"
  /\ toServer' = Tail(toServer)
  /\ stored' = Head(toServer).of
  /\ toPage' = Append(toPage, [op |-> "ask", of |-> Head(toServer).of, ok |-> TRUE])
  /\ UNCHANGED <<ctl, aborted, step, sig, result, cancelled, failed>>

\* They may fail, before anything is stored.
IssueFails ==
  /\ toServer # <<>> /\ Head(toServer).op = "ask"
  /\ toServer' = Tail(toServer)
  /\ toPage' = Append(toPage, [op |-> "ask", of |-> Head(toServer).of, ok |-> FALSE])
  /\ UNCHANGED <<ctl, aborted, step, sig, result, stored, cancelled, failed>>

\* login2 and registerb check what the user signed against the challenge that is
\* stored, which stays; an unknown passkey fails as well.  What a Peer sends as
\* parameters is an array, which they cannot unmarshal: over a Peer all fail, as
\* register does.  That they may succeed is for a caller that sends the object.
Verify ==
  /\ toServer # <<>> /\ Head(toServer).op = "check"
  /\ toServer' = Tail(toServer)
  /\ \E ok \in {FALSE, stored = Head(toServer).of} :
       toPage' = Append(toPage, [op |-> "check", of |-> Head(toServer).of, ok |-> ok])
  /\ UNCHANGED <<ctl, aborted, step, sig, result, stored, cancelled, failed>>
----------------------------------------------------------------------------
Next ==
  \/ \E a \in Attempts :
       \/ Probe(a) \/ CannotWait(a) \/ Begin(a) \/ AskFirst(a) \/ WebauthnLogin(a)
       \/ RecvChallenge(a) \/ RecvNoChallenge(a) \/ Pick(a) \/ Create(a) \/ Dismiss(a)
       \/ RecvCheck(a)
  \/ Destroy \/ Issue \/ IssueFails \/ Verify

Spec == Init /\ [][Next]_pkVars
----------------------------------------------------------------------------
\* The types of the variables.
TypeOK ==
  /\ ctl \in Nat
  /\ aborted \in SUBSET Nat
  /\ step \in [Attempts -> Steps]
  /\ sig \in [Attempts -> Nat \cup {None}]
  /\ result \in [Attempts -> {None, "null", "rejected", "signed"}]
  /\ toServer \in Seq(Request)
  /\ toPage \in Seq(Answer)
  /\ stored \in Attempts \cup {None}
  /\ cancelled \in SUBSET Watches
  /\ failed \in SUBSET Attempts

\* Whatever the order in which watches begin, get their challenges and read the
\* controller, the page can still abort a watch that waits in the background: it
\* listens to the controller the next abort is for, which is not aborted yet.
WaitsCanBeAborted ==
  \A a \in Open \cap Watches : sig[a] = ctl /\ ctl \notin aborted

\* A watch that was aborted before the user picked a passkey signs nobody in,
\* though it may go on under the controller of a later watch: by then the server
\* has the challenge of the later one, unless it failed to make one.
CancelledSignsNobodyIn ==
  \A a \in cancelled : result[a] = "signed" => failed # {}
============================================================================
