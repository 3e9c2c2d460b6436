--------------------------- MODULE BrowserProofs ---------------------------
(***************************************************************************)
(* Theorems about Browser: the sign-in of Passkey, for any number of       *)
(* watches, logins and registrations on one connection, and the panes of   *)
(* Shell, for any tools and positions.                                     *)
(*                                                                         *)
(* An attempt has one trace at a time, a request or an answer, and its     *)
(* step says of which kind.  A watch that was aborted and goes on all the  *)
(* same is late: the server has, or will have before it hears of that      *)
(* watch again, the challenge of another attempt.                          *)
(***************************************************************************)
EXTENDS Browser, SequenceTheorems, WellFoundedInduction, TLAPS

\* What goes to and fro says where its attempt is.
AskOrCheck(m) ==
  \/ m.op = "ask" /\ step[m.of] = "asking"
  \/ m.op = "check" /\ step[m.of] = "checking"

TraceInv ==
  /\ \A i \in DOMAIN toServer : AskOrCheck(toServer[i])
  /\ \A i \in DOMAIN toPage : AskOrCheck(toPage[i])
  /\ \A i, j \in DOMAIN toServer : toServer[i].of = toServer[j].of => i = j
  /\ \A i, j \in DOMAIN toPage : toPage[i].of = toPage[j].of => i = j
  /\ \A i \in DOMAIN toServer, j \in DOMAIN toPage : toServer[i].of # toPage[j].of
  /\ \A a \in Attempts : result[a] = "signed" => step[a] = "done"

\* No challenge failed so far, as far as the page has heard or will hear.
NoFail == failed = {} /\ \A i \in DOMAIN toPage : toPage[i].op = "ask" => toPage[i].ok

\* Another challenge is asked for after the one of a, and before a is checked, or
\* the server has another one already.
Late(a) ==
  /\ \A i \in DOMAIN toServer : toServer[i].of = a =>
       \/ toServer[i].op = "ask" /\ \E j \in DOMAIN toServer : j > i /\ toServer[j].op = "ask"
       \/ toServer[i].op = "check" /\ stored # a
       \/ toServer[i].op = "check" /\ \E j \in DOMAIN toServer : j < i /\ toServer[j].op = "ask"
  /\ \/ \E i \in DOMAIN toServer : toServer[i].of = a
     \/ stored # a
     \/ \E j \in DOMAIN toServer : toServer[j].op = "ask"

\* An answer that signs in is preceded by one that there is no challenge.
AfterFailure(i) ==
  failed # {} \/ \E j \in DOMAIN toPage : j < i /\ toPage[j].op = "ask" /\ ~toPage[j].ok

\* A watch that was aborted is where an abort can leave it.
Left(a) ==
  /\ step[a] \in {"asking", "waiting", "checking", "done"}
  /\ NoFail /\ (step[a] \in {"waiting", "checking"} \/ (step[a] = "asking" /\ ctl \notin aborted)) =>
       Late(a)
  /\ \A i \in DOMAIN toPage :
       toPage[i].of = a /\ toPage[i].op = "check" /\ toPage[i].ok => AfterFailure(i)
  /\ result[a] = "signed" => failed # {}

CancelInv == \A a \in cancelled : Left(a)

PasskeyInv == TypeOK /\ WaitsCanBeAborted /\ TraceInv /\ CancelInv
----------------------------------------------------------------------------
(* Sequences.                                                               *)

\* What Append does to the places of a sequence.
LEMMA AppendFacts ==
  ASSUME NEW S, NEW s \in Seq(S), NEW e \in S
  PROVE  /\ Append(s, e) \in Seq(S)
         /\ Len(s) + 1 \in DOMAIN Append(s, e) /\ Append(s, e)[Len(s) + 1] = e
         /\ \A i \in DOMAIN s : /\ i \in DOMAIN Append(s, e) /\ Append(s, e)[i] = s[i]
                                /\ i \in Nat \ {0} /\ i < Len(s) + 1
         /\ \A i \in DOMAIN Append(s, e) : i \in DOMAIN s \/ i = Len(s) + 1
         /\ Len(s) \in Nat
  <1>1. /\ Append(s, e) \in Seq(S) /\ Len(Append(s, e)) = Len(s) + 1
        /\ \A i \in 1..Len(s) : Append(s, e)[i] = s[i]
        /\ Append(s, e)[Len(s) + 1] = e
    BY AppendProperties
  <1>2. Len(s) \in Nat /\ DOMAIN s = 1..Len(s) /\ DOMAIN Append(s, e) = 1..Len(Append(s, e))
    BY <1>1
  <1> QED
    BY <1>1, <1>2

\* What Tail does to them.
LEMMA TailFacts ==
  ASSUME NEW S, NEW s \in Seq(S), s # <<>>
  PROVE  /\ Tail(s) \in Seq(S)
         /\ Head(s) \in S /\ 1 \in DOMAIN s /\ Head(s) = s[1]
         /\ \A i \in DOMAIN Tail(s) : i \in Nat \ {0} /\ i + 1 \in DOMAIN s /\ Tail(s)[i] = s[i + 1]
         /\ \A i \in DOMAIN s : /\ i \in Nat \ {0}
                                /\ i = 1 \/ (i - 1 \in DOMAIN Tail(s) /\ Tail(s)[i - 1] = s[i])
  <1>1. /\ Tail(s) \in Seq(S) /\ Len(Tail(s)) = Len(s) - 1 /\ Head(s) \in S
        /\ Len(s) \in Nat /\ Len(s) > 0
        /\ \A i \in 1..Len(Tail(s)) : Tail(s)[i] = s[i + 1]
    BY HeadTailProperties
  <1>2. DOMAIN Tail(s) = 1..Len(s) - 1 /\ DOMAIN s = 1..Len(s)
    BY <1>1
  <1>3. Head(s) = s[1] /\ 1 \in DOMAIN s
    BY <1>1, <1>2
  <1>4. \A i \in DOMAIN Tail(s) : i \in Nat \ {0} /\ i + 1 \in DOMAIN s /\ Tail(s)[i] = s[i + 1]
    BY <1>1, <1>2
  <1>5. ASSUME NEW i \in DOMAIN s
        PROVE  i \in Nat \ {0} /\ (i = 1 \/ (i - 1 \in DOMAIN Tail(s) /\ Tail(s)[i - 1] = s[i]))
    <2>1. i \in Nat /\ 1 <= i /\ i <= Len(s)
      BY <1>2
    <2>2. CASE i # 1
      <3>1. i - 1 \in DOMAIN Tail(s) /\ i - 1 + 1 = i
        BY <1>1, <1>2, <2>1, <2>2
      <3> QED
        BY <2>1, <3>1, <1>4
    <2> QED
      BY <2>1, <2>2
  <1> QED
    BY <1>1, <1>3, <1>4, <1>5
----------------------------------------------------------------------------
(* Types.                                                                   *)

\* What Move does to the attempts.
LEMMA MoveFacts ==
  ASSUME TypeOK, NEW gone, NEW a, NEW s \in Steps, Move(gone, a, s)
  PROVE  /\ step' \in [Attempts -> Steps]
         /\ result' \in [Attempts -> {None, "null", "rejected", "signed"}]
         /\ \A b \in Attempts :
              /\ step'[b] = IF b = a THEN s ELSE IF b \in gone THEN "done" ELSE step[b]
              /\ result'[b] = "signed" =>
                   result[b] = "signed" /\ b \notin gone /\ ~(b = a /\ s = "done")
  <1>1. step' \in [Attempts -> Steps]
    BY DEF Move, Steps, TypeOK
  <1>2. result' \in [Attempts -> {None, "null", "rejected", "signed"}]
    BY DEF Move, TypeOK
  <1>3. \A b \in Attempts :
          step'[b] = IF b = a THEN s ELSE IF b \in gone THEN "done" ELSE step[b]
    BY DEF Move
  <1>4. \A b \in Attempts : result'[b] = "signed" =>
          result[b] = "signed" /\ b \notin gone /\ ~(b = a /\ s = "done")
    BY DEF Move
  <1> QED
    BY <1>1, <1>2, <1>3, <1>4

\* The messages are messages.
LEMMA MessageFacts ==
  /\ \A a \in Attempts : Ask(a) \in Request /\ Check(a) \in Request
  /\ \A a \in Attempts, ok \in BOOLEAN :
       /\ [op |-> "ask", of |-> a, ok |-> ok] \in Answer
       /\ [op |-> "check", of |-> a, ok |-> ok] \in Answer
  /\ \A m \in Request : m.of \in Attempts /\ m.op \in {"ask", "check"}
  /\ \A m \in Answer : m.of \in Attempts /\ m.op \in {"ask", "check"} /\ m.ok \in BOOLEAN
  BY DEF Ask, Check, Request, Answer

\* Every step keeps the types.
LEMMA TypeStep == TypeOK /\ [Next]_pkVars => TypeOK'
  <1> SUFFICES ASSUME TypeOK, [Next]_pkVars PROVE TypeOK'
    OBVIOUS
  <1>0. /\ toServer \in Seq(Request) /\ toPage \in Seq(Answer) /\ ctl \in Nat
        /\ {"idle", "probing", "asking", "offered", "waiting", "checking", "done"} \subseteq Steps
    BY DEF TypeOK, Steps
  <1>1. Met \subseteq Watches
    BY DEF Met
  <1>2. ASSUME NEW a \in Attempts, Probe(a) PROVE TypeOK'
    BY <1>0, <1>2 DEF Probe, TypeOK
  <1>3. ASSUME NEW a \in Attempts, CannotWait(a) PROVE TypeOK'
    <2>1. Move({}, a, "done")
      BY <1>3 DEF CannotWait
    <2> QED
      BY <1>0, <1>3, <2>1, MoveFacts DEF CannotWait, TypeOK
  <1>4. ASSUME NEW a \in Attempts, Begin(a) PROVE TypeOK'
    <2>1. Move(Ended, a, "asking")
      BY <1>4 DEF Begin
    <2>2. Append(toServer, Ask(a)) \in Seq(Request)
      BY <1>0, MessageFacts, AppendFacts
    <2>3. step' \in [Attempts -> Steps] /\ result' \in [Attempts -> {None, "null", "rejected", "signed"}]
      BY <1>0, <2>1, MoveFacts
    <2>4. ctl' \in Nat /\ aborted' \in SUBSET Nat /\ cancelled' \in SUBSET Watches
      BY <1>0, <1>1, <1>4 DEF Begin, TypeOK
    <2> QED
      BY <1>4, <2>2, <2>3, <2>4 DEF Begin, TypeOK
  <1>5. ASSUME NEW a \in Attempts, AskFirst(a) PROVE TypeOK'
    <2>2. Append(toServer, Ask(a)) \in Seq(Request)
      BY <1>0, MessageFacts, AppendFacts
    <2> QED
      BY <1>0, <1>5, <2>2 DEF AskFirst, TypeOK
  <1>6. ASSUME NEW a \in Attempts, WebauthnLogin(a) PROVE TypeOK'
    <2>1. Move(Open, a, "waiting") \/ Move(Ended, a, "done")
      BY <1>6 DEF WebauthnLogin
    <2>2. step' \in [Attempts -> Steps] /\ result' \in [Attempts -> {None, "null", "rejected", "signed"}]
      BY <1>0, <2>1, MoveFacts
    <2> QED
      BY <1>0, <1>1, <1>6, <2>2 DEF WebauthnLogin, TypeOK
  <1>7. ASSUME NEW a \in Attempts, RecvChallenge(a) PROVE TypeOK'
    <2>1. \/ Move({}, a, "offered") \/ Move(Open, a, "waiting") \/ Move({}, a, "done")
      BY <1>7 DEF RecvChallenge
    <2>2. step' \in [Attempts -> Steps] /\ result' \in [Attempts -> {None, "null", "rejected", "signed"}]
      BY <1>0, <2>1, MoveFacts
    <2>3. toPage' \in Seq(Answer)
      BY <1>0, <1>7, TailFacts DEF RecvChallenge
    <2>4. sig' \in [Attempts -> Nat \cup {None}]
      BY <1>0, <1>7 DEF RecvChallenge, TypeOK
    <2> QED
      BY <1>7, <2>2, <2>3, <2>4 DEF RecvChallenge, TypeOK
  <1>8. ASSUME NEW a \in Attempts, RecvNoChallenge(a) PROVE TypeOK'
    <2>1. Move({}, a, "done")
      BY <1>8 DEF RecvNoChallenge
    <2>3. toPage' \in Seq(Answer)
      BY <1>0, <1>8, TailFacts DEF RecvNoChallenge
    <2> QED
      BY <1>0, <1>8, <2>1, <2>3, MoveFacts DEF RecvNoChallenge, TypeOK
  <1>9. ASSUME NEW a \in Attempts, Pick(a) PROVE TypeOK'
    <2>1. Move({}, a, "done") \/ Move({}, a, "checking")
      BY <1>9 DEF Pick
    <2>2. step' \in [Attempts -> Steps] /\ result' \in [Attempts -> {None, "null", "rejected", "signed"}]
      BY <1>0, <2>1, MoveFacts
    <2>3. Append(toServer, Check(a)) \in Seq(Request)
      BY <1>0, MessageFacts, AppendFacts
    <2>4. toServer' \in Seq(Request)
      BY <1>0, <1>9, <2>3 DEF Pick
    <2> QED
      BY <1>9, <2>2, <2>4 DEF Pick, TypeOK
  <1>10. ASSUME NEW a \in Attempts, Create(a) PROVE TypeOK'
    <2>1. Move({}, a, "checking")
      BY <1>10 DEF Create
    <2>3. Append(toServer, Check(a)) \in Seq(Request)
      BY <1>0, MessageFacts, AppendFacts
    <2> QED
      BY <1>0, <1>10, <2>1, <2>3, MoveFacts DEF Create, TypeOK
  <1>11. ASSUME NEW a \in Attempts, Dismiss(a) PROVE TypeOK'
    <2>1. Move({}, a, "done")
      BY <1>11 DEF Dismiss
    <2> QED
      BY <1>0, <1>11, <2>1, MoveFacts DEF Dismiss, TypeOK
  <1>12. ASSUME NEW a \in Attempts, RecvCheck(a) PROVE TypeOK'
    <2>1. toPage' \in Seq(Answer)
      BY <1>0, <1>12, TailFacts DEF RecvCheck
    <2> QED
      BY <1>0, <1>12, <2>1 DEF RecvCheck, TypeOK
  <1>13. CASE Destroy
    <2>1. Move(Ended, None, "done")
      BY <1>13 DEF Destroy
    <2> QED
      BY <1>0, <1>1, <1>13, <2>1, MoveFacts DEF Destroy, TypeOK
  <1>14. CASE Issue \/ IssueFails
    <2>1. toServer # <<>>
      BY <1>14 DEF Issue, IssueFails
    <2>2. Tail(toServer) \in Seq(Request) /\ Head(toServer).of \in Attempts
      BY <1>0, <2>1, TailFacts, MessageFacts
    <2> DEFINE m(ok) == [op |-> "ask", of |-> Head(toServer).of, ok |-> ok]
    <2>4. m(TRUE) \in Answer /\ m(FALSE) \in Answer
      BY <2>2, MessageFacts
    <2> HIDE DEF m
    <2>5. Append(toPage, m(TRUE)) \in Seq(Answer) /\ Append(toPage, m(FALSE)) \in Seq(Answer)
      BY <1>0, <2>4, AppendFacts
    <2>3. /\ Append(toPage, [op |-> "ask", of |-> Head(toServer).of, ok |-> TRUE]) \in Seq(Answer)
          /\ Append(toPage, [op |-> "ask", of |-> Head(toServer).of, ok |-> FALSE]) \in Seq(Answer)
      BY <2>5 DEF m
    <2> QED
      BY <1>14, <2>2, <2>3 DEF Issue, IssueFails, TypeOK
  <1>15. CASE Verify
    <2>1. toServer # <<>>
      BY <1>15 DEF Verify
    <2>2. Tail(toServer) \in Seq(Request) /\ Head(toServer).of \in Attempts
      BY <1>0, <2>1, TailFacts, MessageFacts
    <2>3. PICK ok \in BOOLEAN :
            toPage' = Append(toPage, [op |-> "check", of |-> Head(toServer).of, ok |-> ok])
      BY <1>15 DEF Verify
    <2> DEFINE m == [op |-> "check", of |-> Head(toServer).of, ok |-> ok]
    <2>5. m \in Answer
      BY <2>2, MessageFacts
    <2>6. toPage' = Append(toPage, m)
      BY <2>3
    <2> HIDE DEF m
    <2>4. toPage' \in Seq(Answer)
      BY <1>0, <2>5, <2>6, AppendFacts
    <2> QED
      BY <1>15, <2>2, <2>4 DEF Verify, TypeOK
  <1>16. CASE UNCHANGED pkVars
    BY <1>16 DEF pkVars, TypeOK
  <1> QED
    BY <1>2, <1>3, <1>4, <1>5, <1>6, <1>7, <1>8, <1>9, <1>10, <1>11, <1>12, <1>13, <1>14,
       <1>15, <1>16 DEF Next
----------------------------------------------------------------------------
(* Waits.                                                                   *)

\* Nobody opens a wait, or changes the controller, past the waits of watches.
LEMMA WaitStep ==
  ASSUME PasskeyAssumption
  PROVE  TypeOK /\ WaitsCanBeAborted /\ [Next]_pkVars => WaitsCanBeAborted'
  <1> SUFFICES ASSUME TypeOK, WaitsCanBeAborted, [Next]_pkVars,
                      NEW b \in Watches, b \in Attempts, step'[b] = "waiting"
               PROVE  sig'[b] = ctl' /\ ctl' \notin aborted'
    BY DEF WaitsCanBeAborted, Open, Attempts
  <1>1. step[b] = "waiting" => sig[b] = ctl /\ ctl \notin aborted /\ b \in Ended
    BY DEF WaitsCanBeAborted, Open, Ended
  <1>2. step \in [Attempts -> Steps] /\ sig \in [Attempts -> Nat \cup {None}]
    BY DEF TypeOK
  <1>3. Ended \subseteq Open /\ b \notin Logins
    BY DEF Ended, PasskeyAssumption
  <1>4. ASSUME NEW a \in Attempts, Probe(a) PROVE step[b] = "waiting" /\ UNCHANGED <<ctl, aborted, sig>>
    BY <1>2, <1>4 DEF Probe
  <1>5. ASSUME NEW a \in Attempts, NEW s \in Steps \ {"waiting"}, Move({}, a, s)
        PROVE  step[b] = "waiting"
    BY <1>5, MoveFacts
  <1>6. ASSUME NEW a \in Attempts \cup {None}, NEW s \in Steps \ {"waiting"}, Move(Ended, a, s) PROVE FALSE
    BY <1>1, <1>6, MoveFacts
  <1>7. ASSUME NEW a \in Attempts, CannotWait(a) \/ RecvNoChallenge(a) \/ Pick(a) \/ Create(a) \/ Dismiss(a)
        PROVE  step[b] = "waiting" /\ UNCHANGED <<ctl, aborted, sig>>
    BY <1>5, <1>7 DEF CannotWait, RecvNoChallenge, Pick, Create, Dismiss, Steps
  <1>8. ASSUME NEW a \in Attempts, Begin(a) PROVE FALSE
    BY <1>6, <1>8 DEF Begin, Steps
  <1>9. CASE Destroy
    BY <1>6, <1>9 DEF Destroy, Steps
  <1>10. ASSUME NEW a \in Attempts, AskFirst(a) \/ RecvCheck(a)
         PROVE  step[b] = "waiting" /\ UNCHANGED <<ctl, aborted, sig>>
    BY <1>2, <1>10 DEF AskFirst, RecvCheck
  <1>11. ASSUME NEW a \in Attempts, WebauthnLogin(a) PROVE FALSE
    <2>1. a # b
      BY <1>3, <1>11 DEF WebauthnLogin
    <2>2. CASE Move(Open, a, "waiting")
      BY <1>1, <1>3, <2>1, <2>2, MoveFacts DEF Steps
    <2>3. CASE Move(Ended, a, "done")
      BY <1>6, <2>3 DEF Steps
    <2> QED
      BY <1>11, <2>2, <2>3 DEF WebauthnLogin
  <1>12. ASSUME NEW a \in Attempts, RecvChallenge(a) PROVE sig'[b] = ctl' /\ ctl' \notin aborted'
    <2>0. ctl' = ctl /\ aborted' = aborted
      BY <1>12 DEF RecvChallenge
    <2>1. CASE a \notin Watches /\ Move({}, a, "offered") /\ UNCHANGED sig
      BY <1>1, <1>5, <2>0, <2>1 DEF Steps
    <2>2. CASE ctl \notin aborted /\ sig' = [sig EXCEPT ![a] = ctl] /\ Move(Open, a, "waiting")
      <3>1. b = a
        BY <1>1, <1>3, <2>2, MoveFacts DEF Steps
      <3> QED
        BY <1>2, <2>0, <2>2, <3>1
    <2>3. CASE sig' = [sig EXCEPT ![a] = ctl] /\ Move({}, a, "done")
      BY <1>1, <1>2, <1>5, <2>0, <2>3 DEF Steps
    <2> QED
      BY <1>12, <2>1, <2>2, <2>3 DEF RecvChallenge
  <1>13. CASE Issue \/ IssueFails \/ Verify \/ UNCHANGED pkVars
    BY <1>1, <1>13 DEF Issue, IssueFails, Verify, pkVars
  <1> QED
    BY <1>1, <1>4, <1>7, <1>8, <1>9, <1>10, <1>11, <1>12, <1>13 DEF Next
----------------------------------------------------------------------------
(* Traces: what a step does to the two queues, and to the steps of the      *)
(* attempts that have something in them.                                    *)

\* The attempts of X aside, what has a trace or is over stays where it is, and
\* only who is over by then is signed in.
Steady(X) ==
  /\ \A b \in Attempts \ X : step[b] \in {"asking", "checking", "done"} => step'[b] = step[b]
  /\ \A b \in Attempts : result'[b] = "signed" => step'[b] = "done"

\* Nothing is sent or taken.
LEMMA TraceKept ==
  ASSUME TypeOK, TraceInv, UNCHANGED <<toServer, toPage>>, Steady({})
  PROVE  TraceInv'
  <1>1. /\ \A i \in DOMAIN toServer : toServer[i] \in Request
        /\ \A i \in DOMAIN toPage : toPage[i] \in Answer
    BY ElementOfSeq, LenProperties DEF TypeOK
  <1>2. ASSUME NEW m, m.of \in Attempts, AskOrCheck(m) PROVE AskOrCheck(m)'
    BY <1>2 DEF AskOrCheck, Steady
  <1>3. /\ \A i \in DOMAIN toServer : AskOrCheck(toServer[i])'
        /\ \A i \in DOMAIN toPage : AskOrCheck(toPage[i])'
    BY <1>1, <1>2, MessageFacts DEF TraceInv
  <1> QED
    BY <1>3 DEF TraceInv, Steady

\* A request of an attempt that has no trace is sent.
LEMMA TraceSent ==
  ASSUME TypeOK, TraceInv, NEW m \in Request,
         toServer' = Append(toServer, m), UNCHANGED toPage,
         step[m.of] \notin {"asking", "checking"}, AskOrCheck(m)', Steady({m.of})
  PROVE  TraceInv'
  <1> DEFINE n == Len(toServer) + 1
  <1>1. /\ \A i \in DOMAIN toServer : toServer[i] \in Request
        /\ \A i \in DOMAIN toPage : toPage[i] \in Answer
    BY ElementOfSeq, LenProperties DEF TypeOK
  <1>2. /\ n \in DOMAIN toServer' /\ toServer'[n] = m
        /\ \A i \in DOMAIN toServer : i \in DOMAIN toServer' /\ toServer'[i] = toServer[i]
        /\ \A i \in DOMAIN toServer' : i \in DOMAIN toServer \/ i = n
    BY AppendFacts DEF TypeOK
  <1> HIDE DEF n
  <1>3. /\ \A i \in DOMAIN toServer : toServer[i].of # m.of
        /\ \A i \in DOMAIN toPage : toPage[i].of # m.of
    BY DEF TraceInv, AskOrCheck
  <1>4. ASSUME NEW k, k.of \in Attempts \ {m.of}, AskOrCheck(k) PROVE AskOrCheck(k)'
    BY <1>4 DEF AskOrCheck, Steady
  <1>5. /\ \A i \in DOMAIN toServer : AskOrCheck(toServer[i])'
        /\ \A i \in DOMAIN toPage : AskOrCheck(toPage[i])'
    BY <1>1, <1>3, <1>4, MessageFacts DEF TraceInv
  <1>6. \A i \in DOMAIN toServer' : AskOrCheck(toServer[i])'
    <2> TAKE i \in DOMAIN toServer'
    <2>1. CASE i \in DOMAIN toServer
      <3>1. (toServer[i])' = toServer[i]
        BY <1>2, <2>1
      <3>2. step'[toServer[i].of] = step[toServer[i].of]
        BY <1>1, <1>3, <2>1, MessageFacts DEF TraceInv, AskOrCheck, Steady
      <3>3. AskOrCheck(toServer[i])
        BY <2>1 DEF TraceInv
      <3> QED
        BY <3>1, <3>2, <3>3 DEF AskOrCheck
    <2>2. CASE i = n
      BY <1>2, <2>2 DEF AskOrCheck
    <2> QED
      BY <1>2, <2>1, <2>2
  <1>7. \A i \in DOMAIN toPage' : AskOrCheck(toPage[i])'
    BY <1>5
  <1>8. \A i, j \in DOMAIN toServer' : toServer'[i].of = toServer'[j].of => i = j
    BY <1>2, <1>3 DEF TraceInv
  <1>9. \A i \in DOMAIN toServer', j \in DOMAIN toPage : toServer'[i].of # toPage[j].of
    BY <1>2, <1>3 DEF TraceInv
  <1> QED
    BY <1>6, <1>7, <1>8, <1>9 DEF TraceInv, Steady

\* The page takes an answer.
LEMMA TraceTaken ==
  ASSUME TypeOK, TraceInv, toPage # <<>>, toPage' = Tail(toPage), UNCHANGED toServer,
         Steady({Head(toPage).of})
  PROVE  TraceInv'
  <1>1. /\ \A i \in DOMAIN toServer : toServer[i] \in Request
        /\ \A i \in DOMAIN toPage : toPage[i] \in Answer
    BY ElementOfSeq, LenProperties DEF TypeOK
  <1>2. /\ 1 \in DOMAIN toPage /\ Head(toPage) = toPage[1]
        /\ \A i \in DOMAIN toPage' : i \in Nat \ {0} /\ i + 1 \in DOMAIN toPage /\ toPage'[i] = toPage[i + 1]
    BY TailFacts DEF TypeOK
  <1>3. /\ \A i \in DOMAIN toServer : toServer[i].of # Head(toPage).of
        /\ \A i \in DOMAIN toPage' : toPage'[i].of # Head(toPage).of
    <2>1. \A i \in DOMAIN toPage' : i + 1 # 1
      BY <1>2
    <2> QED
      BY <1>2, <2>1 DEF TraceInv
  <1>4. \A i \in DOMAIN toServer : AskOrCheck(toServer[i])'
    <2> TAKE i \in DOMAIN toServer
    <2>1. AskOrCheck(toServer[i]) /\ toServer[i].of \in Attempts \ {Head(toPage).of}
      BY <1>1, <1>3, MessageFacts DEF TraceInv
    <2> QED
      BY <2>1 DEF AskOrCheck, Steady
  <1>5. \A i \in DOMAIN toPage' : AskOrCheck(toPage[i])'
    <2> TAKE i \in DOMAIN toPage'
    <2>1. /\ AskOrCheck(toPage[i + 1]) /\ toPage[i + 1].of \in Attempts \ {Head(toPage).of}
          /\ (toPage[i])' = toPage[i + 1]
      BY <1>1, <1>2, <1>3, MessageFacts DEF TraceInv
    <2> QED
      BY <2>1 DEF AskOrCheck, Steady
  <1>6. \A i, j \in DOMAIN toPage' : toPage'[i].of = toPage'[j].of => i = j
    <2> TAKE i, j \in DOMAIN toPage'
    <2>1. toPage'[i].of = toPage'[j].of => i + 1 = j + 1
      BY <1>2 DEF TraceInv
    <2> QED
      BY <1>2, <2>1
  <1>7. \A i \in DOMAIN toServer, j \in DOMAIN toPage' : toServer[i].of # toPage'[j].of
    BY <1>2 DEF TraceInv
  <1> QED
    BY <1>4, <1>5, <1>6, <1>7 DEF TraceInv, Steady

\* The server answers a request.
LEMMA TraceServed ==
  ASSUME TypeOK, TraceInv, toServer # <<>>, toServer' = Tail(toServer),
         NEW m \in Answer, m.of = Head(toServer).of, m.op = Head(toServer).op,
         toPage' = Append(toPage, m), UNCHANGED <<step, result>>
  PROVE  TraceInv'
  <1> DEFINE n == Len(toPage) + 1
  <1>2. /\ 1 \in DOMAIN toServer /\ Head(toServer) = toServer[1]
        /\ \A i \in DOMAIN toServer' :
             i \in Nat \ {0} /\ i + 1 \in DOMAIN toServer /\ toServer'[i] = toServer[i + 1]
    BY TailFacts DEF TypeOK
  <1>3. /\ n \in DOMAIN toPage' /\ toPage'[n] = m
        /\ \A i \in DOMAIN toPage : i \in DOMAIN toPage' /\ toPage'[i] = toPage[i]
        /\ \A i \in DOMAIN toPage' : i \in DOMAIN toPage \/ i = n
    BY AppendFacts DEF TypeOK
  <1> HIDE DEF n
  <1>4. \A i \in DOMAIN toServer' : toServer'[i].of # m.of
    <2>1. \A i \in DOMAIN toServer' : i + 1 # 1
      BY <1>2
    <2> QED
      BY <1>2, <2>1 DEF TraceInv
  <1>5. \A i \in DOMAIN toPage : toPage[i].of # m.of
    BY <1>2 DEF TraceInv
  <1>6. \A i \in DOMAIN toServer' : AskOrCheck(toServer[i])'
    BY <1>2 DEF TraceInv, AskOrCheck
  <1>7. \A i \in DOMAIN toPage' : AskOrCheck(toPage[i])'
    <2>0. AskOrCheck(toServer[1])
      BY <1>2 DEF TraceInv
    <2>1. (m.op = "ask" /\ step[m.of] = "asking") \/ (m.op = "check" /\ step[m.of] = "checking")
      BY <1>2, <2>0 DEF AskOrCheck
    <2> QED
      BY <1>3, <2>1 DEF TraceInv, AskOrCheck
  <1>8. \A i, j \in DOMAIN toServer' : toServer'[i].of = toServer'[j].of => i = j
    <2> TAKE i, j \in DOMAIN toServer'
    <2>1. toServer'[i].of = toServer'[j].of => i + 1 = j + 1
      BY <1>2 DEF TraceInv
    <2> QED
      BY <1>2, <2>1
  <1>9. \A i, j \in DOMAIN toPage' : toPage'[i].of = toPage'[j].of => i = j
    BY <1>3, <1>5 DEF TraceInv
  <1>10. \A i \in DOMAIN toServer', j \in DOMAIN toPage' : toServer'[i].of # toPage'[j].of
    BY <1>2, <1>3, <1>4 DEF TraceInv
  <1>11. \A b \in Attempts : result'[b] = "signed" => step'[b] = "done"
    BY DEF TraceInv
  <1> QED
    BY <1>6, <1>7, <1>8, <1>9, <1>10, <1>11 DEF TraceInv

\* Moving who has no trace, or who is in X, leaves the others where they are.
LEMMA MoveSteady ==
  ASSUME TypeOK, TraceInv, NEW X, NEW gone \in SUBSET Open, NEW a, NEW s \in Steps,
         Move(gone, a, s),
         a \in Attempts => step[a] # "done" /\ (a \in X \/ step[a] \notin {"asking", "checking"})
  PROVE  Steady(X)
  <1>1. \A b \in Attempts :
          /\ step'[b] = IF b = a THEN s ELSE IF b \in gone THEN "done" ELSE step[b]
          /\ result'[b] = "signed" =>
               result[b] = "signed" /\ b \notin gone /\ ~(b = a /\ s = "done")
    BY MoveFacts
  <1>2. \A b \in Attempts : b \in gone => step[b] = "waiting"
    BY DEF Open
  <1>3. \A b \in Attempts : result[b] = "signed" => step[b] = "done"
    BY DEF TraceInv
  <1> QED
    BY <1>1, <1>2, <1>3 DEF Steady

\* The answer at the head of the page's queue says where its attempt is.
LEMMA HeadAnswer ==
  ASSUME TypeOK, TraceInv, toPage # <<>>
  PROVE  /\ Head(toPage) \in Answer /\ Head(toPage).of \in Attempts
         /\ Head(toPage).op = "ask" => step[Head(toPage).of] = "asking"
         /\ Head(toPage).op = "check" => step[Head(toPage).of] = "checking"
  <1>1. 1 \in DOMAIN toPage /\ Head(toPage) = toPage[1] /\ Head(toPage) \in Answer
    BY TailFacts DEF TypeOK
  <1>2. AskOrCheck(toPage[1])
    BY <1>1 DEF TraceInv
  <1> QED
    BY <1>1, <1>2, MessageFacts DEF AskOrCheck

\* The request at the head of the server's queue does too.
LEMMA HeadRequest ==
  ASSUME TypeOK, TraceInv, toServer # <<>>
  PROVE  /\ Head(toServer) \in Request /\ Head(toServer).of \in Attempts
         /\ Head(toServer).op = "ask" => step[Head(toServer).of] = "asking"
         /\ Head(toServer).op = "check" => step[Head(toServer).of] = "checking"
  <1>1. 1 \in DOMAIN toServer /\ Head(toServer) = toServer[1] /\ Head(toServer) \in Request
    BY TailFacts DEF TypeOK
  <1>2. AskOrCheck(toServer[1])
    BY <1>1 DEF TraceInv
  <1> QED
    BY <1>1, <1>2, MessageFacts DEF AskOrCheck

\* Every step keeps the traces apart.
LEMMA TraceStep ==
  ASSUME PasskeyAssumption
  PROVE  TypeOK /\ TraceInv /\ [Next]_pkVars => TraceInv'
  <1> SUFFICES ASSUME TypeOK, TraceInv, [Next]_pkVars PROVE TraceInv'
    OBVIOUS
  <1>0. /\ Ended \in SUBSET Open /\ Open \in SUBSET Open /\ {} \in SUBSET Open
        /\ None \notin Attempts
        /\ {"idle", "probing", "asking", "offered", "waiting", "checking", "done"} \subseteq Steps
    BY DEF Ended, PasskeyAssumption, Steps
  <1>1. step \in [Attempts -> Steps] /\ \A a \in Attempts : result[a] = "signed" => step[a] = "done"
    BY DEF TypeOK, TraceInv
  <1>2. ASSUME NEW a \in Attempts, Probe(a) PROVE TraceInv'
    <2>1. Steady({})
      BY <1>1, <1>2 DEF Probe, Steady
    <2> QED
      BY <1>2, <2>1, TraceKept DEF Probe
  <1>3. ASSUME NEW a \in Attempts, CannotWait(a) \/ Dismiss(a) \/ WebauthnLogin(a) PROVE TraceInv'
    <2>1. PICK gone \in SUBSET Open, s \in Steps : Move(gone, a, s)
      BY <1>0, <1>3 DEF CannotWait, Dismiss, WebauthnLogin
    <2>2. step[a] \notin {"asking", "checking", "done"}
      BY <1>3 DEF CannotWait, Dismiss, WebauthnLogin
    <2>3. Steady({})
      BY <2>1, <2>2, MoveSteady
    <2> QED
      BY <1>3, <2>3, TraceKept DEF CannotWait, Dismiss, WebauthnLogin
  <1>4. CASE Destroy
    <2>1. Move(Ended, None, "done") /\ "done" \in Steps
      BY <1>0, <1>4 DEF Destroy
    <2>2. Steady({})
      BY <1>0, <2>1, MoveSteady
    <2> QED
      BY <1>4, <2>2, TraceKept DEF Destroy
  <1>5. ASSUME NEW a \in Attempts, Begin(a) PROVE TraceInv'
    <2>1. Move(Ended, a, "asking") /\ step[a] = "probing"
      BY <1>5 DEF Begin
    <2>2. Steady({a})
      BY <1>0, <2>1, MoveSteady
    <2>3. step'[a] = "asking"
      BY <1>0, <2>1, MoveFacts
    <2>4. Ask(a) \in Request /\ Ask(a).of = a /\ AskOrCheck(Ask(a))'
      BY <2>3, MessageFacts DEF Ask, AskOrCheck
    <2> HIDE DEF Ask
    <2>5. toServer' = Append(toServer, Ask(a)) /\ toPage' = toPage
      BY <1>5 DEF Begin
    <2> QED
      BY <2>1, <2>2, <2>4, <2>5, TraceSent
  <1>6. ASSUME NEW a \in Attempts, AskFirst(a) PROVE TraceInv'
    <2>1. Steady({a}) /\ step'[a] = "asking" /\ step[a] = "idle"
      BY <1>1, <1>6 DEF AskFirst, Steady
    <2>4. Ask(a) \in Request /\ Ask(a).of = a /\ AskOrCheck(Ask(a))'
      BY <2>1, MessageFacts DEF Ask, AskOrCheck
    <2>5. toServer' = Append(toServer, Ask(a)) /\ toPage' = toPage
      BY <1>6 DEF AskFirst
    <2> QED
      BY <2>1, <2>4, <2>5, TraceSent
  <1>7. ASSUME NEW a \in Attempts, Pick(a) \/ Create(a) PROVE TraceInv'
    <2>1. step[a] \notin {"asking", "checking", "done"}
      BY <1>7 DEF Pick, Create
    <2>2. \/ Move({}, a, "done") /\ UNCHANGED <<toServer, toPage>>
          \/ Move({}, a, "checking") /\ toServer' = Append(toServer, Check(a)) /\ toPage' = toPage
      BY <1>7 DEF Pick, Create
    <2>3. CASE Move({}, a, "done") /\ UNCHANGED <<toServer, toPage>>
      <3>1. Steady({})
        BY <1>0, <2>1, <2>3, MoveSteady
      <3> QED
        BY <2>3, <3>1, TraceKept
    <2>4. CASE Move({}, a, "checking") /\ toServer' = Append(toServer, Check(a)) /\ toPage' = toPage
      <3>1. Steady({a})
        BY <1>0, <2>1, <2>4, MoveSteady
      <3>2. step'[a] = "checking"
        BY <1>0, <2>4, MoveFacts
      <3>3. Check(a) \in Request /\ Check(a).of = a /\ AskOrCheck(Check(a))'
        BY <3>2, MessageFacts DEF Check, AskOrCheck
      <3> QED
        BY <2>1, <2>4, <3>1, <3>3, TraceSent
    <2> QED
      BY <2>2, <2>3, <2>4
  <1>8. ASSUME NEW a \in Attempts, RecvChallenge(a) \/ RecvNoChallenge(a) PROVE TraceInv'
    <2>1. /\ toPage # <<>> /\ Head(toPage).of = a /\ Head(toPage).op = "ask"
          /\ toPage' = Tail(toPage) /\ toServer' = toServer
      BY <1>8 DEF RecvChallenge, RecvNoChallenge
    <2>2. step[a] = "asking"
      BY <2>1, HeadAnswer
    <2>3. PICK gone \in SUBSET Open, s \in Steps : Move(gone, a, s)
      BY <1>0, <1>8 DEF RecvChallenge, RecvNoChallenge
    <2>4. Steady({Head(toPage).of})
      BY <2>1, <2>2, <2>3, MoveSteady
    <2> QED
      BY <2>1, <2>4, TraceTaken
  <1>9. ASSUME NEW a \in Attempts, RecvCheck(a) PROVE TraceInv'
    <2>1. /\ toPage # <<>> /\ Head(toPage).of = a /\ toPage' = Tail(toPage) /\ toServer' = toServer
      BY <1>9 DEF RecvCheck
    <2>2. /\ \A b \in Attempts \ {a} : step'[b] = step[b] /\ result'[b] = result[b]
          /\ step'[a] = "done"
      BY <1>1, <1>9 DEF RecvCheck, TypeOK
    <2>3. Steady({Head(toPage).of})
      BY <1>1, <2>1, <2>2 DEF Steady
    <2> QED
      BY <2>1, <2>3, TraceTaken
  <1>10. CASE Issue \/ IssueFails \/ Verify
    <2>1. toServer # <<>> /\ toServer' = Tail(toServer) /\ UNCHANGED <<step, result>>
      BY <1>10 DEF Issue, IssueFails, Verify
    <2>2. PICK ok \in BOOLEAN :
            toPage' = Append(toPage, [op |-> Head(toServer).op, of |-> Head(toServer).of, ok |-> ok])
      BY <1>10 DEF Issue, IssueFails, Verify
    <2> DEFINE m == [op |-> Head(toServer).op, of |-> Head(toServer).of, ok |-> ok]
    <2>3. Head(toServer) \in Request
      BY <2>1, HeadRequest
    <2>4. m \in Answer /\ m.of = Head(toServer).of /\ m.op = Head(toServer).op
      BY <2>3 DEF Request, Answer
    <2>5. toPage' = Append(toPage, m)
      BY <2>2
    <2> HIDE DEF m
    <2> QED
      BY <2>1, <2>4, <2>5, TraceServed
  <1>11. CASE UNCHANGED pkVars
    <2>1. Steady({})
      BY <1>1, <1>11 DEF pkVars, Steady
    <2> QED
      BY <1>11, <2>1, TraceKept DEF pkVars
  <1> QED
    BY <1>2, <1>3, <1>4, <1>5, <1>6, <1>7, <1>8, <1>9, <1>10, <1>11 DEF Next
----------------------------------------------------------------------------
(* Late watches.                                                            *)

\* The answers that sign a in come after a failure.
SignsAfterFailure(a) ==
  \A i \in DOMAIN toPage :
    toPage[i].of = a /\ toPage[i].op = "check" /\ toPage[i].ok => AfterFailure(i)

\* A challenge is asked for by somebody else, after a: a is late.
LEMMA LateAsk ==
  ASSUME TypeOK, NEW a, NEW m \in Request, m.op = "ask", m.of # a,
         toServer' = Append(toServer, m), stored' = stored,
         \A i \in DOMAIN toServer : toServer[i].of = a /\ toServer[i].op = "check" =>
           stored # a \/ \E j \in DOMAIN toServer : j < i /\ toServer[j].op = "ask"
  PROVE  Late(a)'
  <1> DEFINE n == Len(toServer) + 1
  <1>1. /\ n \in DOMAIN toServer' /\ toServer'[n] = m
        /\ \A i \in DOMAIN toServer :
             i \in DOMAIN toServer' /\ toServer'[i] = toServer[i] /\ i \in Nat /\ i < n
        /\ \A i \in DOMAIN toServer' : i \in DOMAIN toServer \/ i = n
    BY AppendFacts DEF TypeOK
  <1>2. \A i \in DOMAIN toServer : toServer[i] \in Request
    BY ElementOfSeq, LenProperties DEF TypeOK
  <1>3. n \in Nat
    BY AppendFacts DEF TypeOK
  <1> HIDE DEF n
  <1>4. ASSUME NEW i \in DOMAIN toServer', toServer'[i].of = a
        PROVE  \/ toServer'[i].op = "ask" /\ \E j \in DOMAIN toServer' : j > i /\ toServer'[j].op = "ask"
               \/ toServer'[i].op = "check" /\ stored' # a
               \/ toServer'[i].op = "check" /\ \E j \in DOMAIN toServer' : j < i /\ toServer'[j].op = "ask"
    <2>1. i \in DOMAIN toServer /\ toServer'[i] = toServer[i] /\ i < n /\ i \in Nat
      BY <1>1, <1>4
    <2>2. CASE toServer[i].op = "ask"
      <3>1. n > i
        BY <1>3, <2>1
      <3> QED
        BY <1>1, <2>1, <2>2, <3>1
    <2>3. CASE toServer[i].op = "check"
      BY <1>1, <1>4, <2>1, <2>3
    <2> QED
      BY <1>2, <2>1, <2>2, <2>3, MessageFacts
  <1> QED
    BY <1>1, <1>4 DEF Late

\* A check is sent, the one of a only when a has nothing on its way: a stays late.
LEMMA LateCheck ==
  ASSUME TypeOK, NEW a, Late(a), NEW m \in Request, m.op = "check",
         toServer' = Append(toServer, m), stored' = stored,
         m.of = a => \A i \in DOMAIN toServer : toServer[i].of # a
  PROVE  Late(a)'
  <1> DEFINE n == Len(toServer) + 1
  <1>1. /\ n \in DOMAIN toServer' /\ toServer'[n] = m
        /\ \A i \in DOMAIN toServer :
             i \in DOMAIN toServer' /\ toServer'[i] = toServer[i] /\ i \in Nat /\ i < n
        /\ \A i \in DOMAIN toServer' : i \in DOMAIN toServer \/ i = n
    BY AppendFacts DEF TypeOK
  <1> HIDE DEF n
  <1>2. ASSUME NEW i \in DOMAIN toServer', toServer'[i].of = a
        PROVE  \/ toServer'[i].op = "ask" /\ \E j \in DOMAIN toServer' : j > i /\ toServer'[j].op = "ask"
               \/ toServer'[i].op = "check" /\ stored' # a
               \/ toServer'[i].op = "check" /\ \E j \in DOMAIN toServer' : j < i /\ toServer'[j].op = "ask"
    <2>1. CASE i \in DOMAIN toServer
      BY <1>1, <1>2, <2>1 DEF Late
    <2>2. CASE i = n
      <3>1. stored # a \/ \E j \in DOMAIN toServer : toServer[j].op = "ask"
        BY <1>1, <1>2, <2>2 DEF Late
      <3> QED
        BY <1>1, <2>2, <3>1
    <2> QED
      BY <1>1, <2>1, <2>2
  <1>3. \/ \E i \in DOMAIN toServer' : toServer'[i].of = a
        \/ stored' # a
        \/ \E j \in DOMAIN toServer' : toServer'[j].op = "ask"
    BY <1>1 DEF Late
  <1> QED
    BY <1>2, <1>3 DEF Late

\* The server checks somebody: a stays late.
LEMMA LateVerify ==
  ASSUME TypeOK, NEW a, Late(a), toServer # <<>>, Head(toServer).op = "check",
         toServer' = Tail(toServer), stored' = stored
  PROVE  Late(a)'
  <1>1. /\ 1 \in DOMAIN toServer /\ Head(toServer) = toServer[1]
        /\ \A i \in DOMAIN toServer' :
             i \in Nat \ {0} /\ i + 1 \in DOMAIN toServer /\ toServer'[i] = toServer[i + 1]
        /\ \A i \in DOMAIN toServer :
             i \in Nat \ {0} /\ (i = 1 \/ (i - 1 \in DOMAIN toServer' /\ toServer'[i - 1] = toServer[i]))
    BY TailFacts DEF TypeOK
  <1>2. \A j \in DOMAIN toServer : toServer[j].op = "ask" =>
          j \in Nat /\ j - 1 \in DOMAIN toServer' /\ toServer'[j - 1].op = "ask"
    BY <1>1
  <1>3. ASSUME NEW i \in DOMAIN toServer', toServer'[i].of = a
        PROVE  \/ toServer'[i].op = "ask" /\ \E j \in DOMAIN toServer' : j > i /\ toServer'[j].op = "ask"
               \/ toServer'[i].op = "check" /\ stored' # a
               \/ toServer'[i].op = "check" /\ \E j \in DOMAIN toServer' : j < i /\ toServer'[j].op = "ask"
    <2>1. i \in Nat /\ i + 1 \in DOMAIN toServer /\ toServer'[i] = toServer[i + 1]
      BY <1>1
    <2>2. \/ toServer[i + 1].op = "ask" /\ \E j \in DOMAIN toServer : j > i + 1 /\ toServer[j].op = "ask"
          \/ toServer[i + 1].op = "check" /\ stored # a
          \/ toServer[i + 1].op = "check" /\ \E j \in DOMAIN toServer : j < i + 1 /\ toServer[j].op = "ask"
      BY <1>3, <2>1 DEF Late
    <2>3. ASSUME NEW j \in DOMAIN toServer, j > i + 1, toServer[j].op = "ask"
          PROVE  \E k \in DOMAIN toServer' : k > i /\ toServer'[k].op = "ask"
      <3>1. j - 1 \in DOMAIN toServer' /\ toServer'[j - 1].op = "ask" /\ j - 1 > i
        BY <1>2, <2>1, <2>3
      <3> QED
        BY <3>1
    <2>4. ASSUME NEW j \in DOMAIN toServer, j < i + 1, toServer[j].op = "ask"
          PROVE  \E k \in DOMAIN toServer' : k < i /\ toServer'[k].op = "ask"
      <3>1. j - 1 \in DOMAIN toServer' /\ toServer'[j - 1].op = "ask" /\ j - 1 < i
        BY <1>2, <2>1, <2>4
      <3> QED
        BY <3>1
    <2> QED
      BY <2>1, <2>2, <2>3, <2>4
  <1>4. \/ \E i \in DOMAIN toServer' : toServer'[i].of = a
        \/ stored' # a
        \/ \E j \in DOMAIN toServer' : toServer'[j].op = "ask"
    <2>1. CASE \E i \in DOMAIN toServer : toServer[i].of = a
      <3>1. PICK i \in DOMAIN toServer : toServer[i].of = a
        BY <2>1
      <3>2. CASE i = 1
        <4>1. toServer[1].op = "check"
          BY <1>1
        <4>2. \A j \in DOMAIN toServer : j \in Nat \ {0}
          BY <1>1
        <4>3. \A j \in DOMAIN toServer : ~(j < 1)
          BY <4>2
        <4> QED
          BY <3>1, <3>2, <4>1, <4>3 DEF Late
      <3>3. CASE i # 1
        BY <1>1, <3>1, <3>3
      <3> QED
        BY <3>2, <3>3
    <2>2. CASE ~\E i \in DOMAIN toServer : toServer[i].of = a
      BY <1>2, <2>2 DEF Late
    <2> QED
      BY <2>1, <2>2
  <1> QED
    BY <1>3, <1>4 DEF Late

\* The server makes a challenge, perhaps the one of a: a stays late.
LEMMA LateIssue ==
  ASSUME TypeOK, TraceInv, NEW a, Late(a), toServer # <<>>, Head(toServer).op = "ask",
         toServer' = Tail(toServer), stored' = Head(toServer).of
  PROVE  Late(a)'
  <1>1. /\ 1 \in DOMAIN toServer /\ Head(toServer) = toServer[1]
        /\ \A i \in DOMAIN toServer' :
             i \in Nat \ {0} /\ i + 1 \in DOMAIN toServer /\ toServer'[i] = toServer[i + 1]
        /\ \A i \in DOMAIN toServer :
             i \in Nat \ {0} /\ (i = 1 \/ (i - 1 \in DOMAIN toServer' /\ toServer'[i - 1] = toServer[i]))
    BY TailFacts DEF TypeOK
  <1>2. \A i, j \in DOMAIN toServer : toServer[i].of = toServer[j].of => i = j
    BY DEF TraceInv
  <1>3. ASSUME NEW j \in DOMAIN toServer, NEW i \in Nat \ {0}, j > i
        PROVE  j - 1 \in DOMAIN toServer' /\ toServer'[j - 1] = toServer[j] /\ j - 1 > i - 1
    BY <1>1, <1>3
  <1>4. ASSUME NEW i \in DOMAIN toServer', toServer'[i].of = a
        PROVE  \/ toServer'[i].op = "ask" /\ \E j \in DOMAIN toServer' : j > i /\ toServer'[j].op = "ask"
               \/ toServer'[i].op = "check" /\ stored' # a
    <2>1. /\ i \in Nat \ {0} /\ i + 1 \in DOMAIN toServer /\ toServer'[i] = toServer[i + 1]
          /\ i + 1 \in Nat \ {0} /\ i + 1 - 1 = i /\ i + 1 # 1
      BY <1>1
    <2>2. stored' # a
      BY <1>1, <1>2, <1>4, <2>1
    <2>3. \/ toServer[i + 1].op = "ask" /\ \E j \in DOMAIN toServer : j > i + 1 /\ toServer[j].op = "ask"
          \/ toServer[i + 1].op = "check"
      BY <1>4, <2>1 DEF Late
    <2>4. ASSUME NEW j \in DOMAIN toServer, j > i + 1, toServer[j].op = "ask"
          PROVE  \E k \in DOMAIN toServer' : k > i /\ toServer'[k].op = "ask"
      <3>1. j - 1 \in DOMAIN toServer' /\ toServer'[j - 1].op = "ask" /\ j - 1 > i
        BY <1>3, <2>1, <2>4
      <3> QED
        BY <3>1
    <2> QED
      BY <2>1, <2>2, <2>3, <2>4
  <1>5. stored' = a => \E j \in DOMAIN toServer' : toServer'[j].op = "ask"
    <2> SUFFICES ASSUME stored' = a PROVE \E j \in DOMAIN toServer' : toServer'[j].op = "ask"
      OBVIOUS
    <2>1. PICK j \in DOMAIN toServer : j > 1 /\ toServer[j].op = "ask"
      BY <1>1 DEF Late
    <2>2. 1 \in Nat \ {0}
      OBVIOUS
    <2> QED
      BY <1>3, <2>1, <2>2
  <1> QED
    BY <1>4, <1>5 DEF Late

\* An answer is sent: signing a in only when a failure is known or on its way.
LEMMA AnswerSent ==
  ASSUME TypeOK, NEW a, SignsAfterFailure(a), NEW m \in Answer,
         toPage' = Append(toPage, m), failed' = failed,
         m.of = a /\ m.op = "check" /\ m.ok => ~NoFail
  PROVE  SignsAfterFailure(a)'
  <1> DEFINE n == Len(toPage) + 1
  <1>1. /\ n \in DOMAIN toPage' /\ toPage'[n] = m
        /\ \A i \in DOMAIN toPage :
             i \in DOMAIN toPage' /\ toPage'[i] = toPage[i] /\ i \in Nat /\ i < n
        /\ \A i \in DOMAIN toPage' : i \in DOMAIN toPage \/ i = n
    BY AppendFacts DEF TypeOK
  <1> HIDE DEF n
  <1> SUFFICES ASSUME NEW i \in DOMAIN toPage', toPage'[i].of = a, toPage'[i].op = "check", toPage'[i].ok
               PROVE  failed' # {} \/ \E j \in DOMAIN toPage' : j < i /\ toPage'[j].op = "ask" /\ ~toPage'[j].ok
    BY DEF SignsAfterFailure, AfterFailure
  <1>2. CASE i \in DOMAIN toPage
    BY <1>1, <1>2 DEF SignsAfterFailure, AfterFailure
  <1>3. CASE i = n
    BY <1>1, <1>3 DEF NoFail
  <1> QED
    BY <1>1, <1>2, <1>3

\* An answer is taken, and a failure is remembered.
LEMMA AnswerTaken ==
  ASSUME TypeOK, NEW a, SignsAfterFailure(a), toPage # <<>>, toPage' = Tail(toPage),
         failed # {} => failed' # {},
         Head(toPage).op = "ask" /\ ~Head(toPage).ok => failed' # {}
  PROVE  SignsAfterFailure(a)'
  <1>1. /\ 1 \in DOMAIN toPage /\ Head(toPage) = toPage[1]
        /\ \A i \in DOMAIN toPage' :
             i \in Nat \ {0} /\ i + 1 \in DOMAIN toPage /\ toPage'[i] = toPage[i + 1]
        /\ \A i \in DOMAIN toPage :
             i \in Nat \ {0} /\ (i = 1 \/ (i - 1 \in DOMAIN toPage' /\ toPage'[i - 1] = toPage[i]))
    BY TailFacts DEF TypeOK
  <1> SUFFICES ASSUME NEW i \in DOMAIN toPage', toPage'[i].of = a, toPage'[i].op = "check", toPage'[i].ok,
                      failed' = {}
               PROVE  \E j \in DOMAIN toPage' : j < i /\ toPage'[j].op = "ask" /\ ~toPage'[j].ok
    BY DEF SignsAfterFailure, AfterFailure
  <1>2. i \in Nat /\ i + 1 \in DOMAIN toPage /\ toPage'[i] = toPage[i + 1]
    BY <1>1
  <1>3. PICK j \in DOMAIN toPage : j < i + 1 /\ toPage[j].op = "ask" /\ ~toPage[j].ok
    BY <1>2 DEF SignsAfterFailure, AfterFailure
  <1>4. j # 1
    BY <1>1, <1>3
  <1>5. j - 1 \in DOMAIN toPage' /\ toPage'[j - 1] = toPage[j] /\ j - 1 < i
    BY <1>1, <1>2, <1>3, <1>4
  <1> QED
    BY <1>3, <1>5

\* What no failure by now says of before.
LEMMA NoFailBefore ==
  ASSUME TypeOK, NoFail',
         failed' = {} => failed = {},
         \/ toPage' = toPage
         \/ \E m \in Answer : toPage' = Append(toPage, m)
         \/ toPage # <<>> /\ toPage' = Tail(toPage)
            /\ (Head(toPage).op = "ask" /\ ~Head(toPage).ok => failed' # {})
  PROVE  NoFail
  <1>1. CASE toPage' = toPage
    BY <1>1 DEF NoFail
  <1>2. CASE \E m \in Answer : toPage' = Append(toPage, m)
    <2>1. PICK m \in Answer : toPage' = Append(toPage, m)
      BY <1>2
    <2>2. \A i \in DOMAIN toPage : i \in DOMAIN toPage' /\ toPage'[i] = toPage[i]
      BY <2>1, AppendFacts DEF TypeOK
    <2> QED
      BY <2>2 DEF NoFail
  <1>3. CASE /\ toPage # <<>> /\ toPage' = Tail(toPage)
             /\ (Head(toPage).op = "ask" /\ ~Head(toPage).ok => failed' # {})
    <2>1. /\ Head(toPage) = toPage[1]
          /\ \A i \in DOMAIN toPage : i = 1 \/ (i - 1 \in DOMAIN toPage' /\ toPage'[i - 1] = toPage[i])
      BY <1>3, TailFacts DEF TypeOK
    <2> QED
      BY <1>3, <2>1 DEF NoFail
  <1> QED
    BY <1>1, <1>2, <1>3

\* What keeps a cancelled watch as Left says: it is late if it can go on, ...
LEMMA LeftKept ==
  ASSUME TypeOK, TraceInv, NEW a \in Attempts, Left(a),
         step'[a] \in {"asking", "waiting", "checking", "done"},
         NoFail' => NoFail,
         step'[a] \in {"waiting", "checking"} \/ (step'[a] = "asking" /\ ctl' \notin aborted') =>
           step[a] \in {"waiting", "checking"} \/ (step[a] = "asking" /\ ctl \notin aborted),
         Late(a) => Late(a)',
         SignsAfterFailure(a)',
         failed # {} => failed' # {}, result'[a] = "signed" => result[a] = "signed" \/ failed' # {}
  PROVE  Left(a)'
  <1>1. result'[a] = "signed" => failed' # {}
    BY DEF Left
  <1>2. NoFail' /\ (step'[a] \in {"waiting", "checking"} \/ (step'[a] = "asking" /\ ctl' \notin aborted'))
          => Late(a)'
    BY DEF Left
  <1> QED
    BY <1>1, <1>2 DEF Left, SignsAfterFailure

\* ... and nothing that an abort meets has signed in, or will with what is sent.
LEMMA MetIsLeft ==
  ASSUME TypeOK, TraceInv, NEW a \in Met, UNCHANGED toPage,
         step'[a] \in {"asking", "done"}, result'[a] = "signed" => result[a] = "signed",
         step'[a] = "asking" => (ctl' \in aborted' \/ Late(a)')
  PROVE  Left(a)'
  <1>1. a \in Attempts /\ step[a] \in {"asking", "waiting"}
    BY DEF Met, Ended, Open, Attempts
  <1>2. result'[a] # "signed"
    BY <1>1 DEF TraceInv
  <1>3. \A i \in DOMAIN toPage : toPage[i].of = a => toPage[i].op = "ask"
    BY <1>1 DEF TraceInv, AskOrCheck
  <1>4. SignsAfterFailure(a)'
    BY <1>3 DEF SignsAfterFailure
  <1> QED
    BY <1>2, <1>4 DEF Left, SignsAfterFailure

\* Nothing is sent or taken, and a cancelled watch goes nowhere but to its end.
LEMMA LeftMoved ==
  ASSUME TypeOK, TraceInv, NEW b \in Attempts, Left(b), NEW gone, NEW a, NEW s \in Steps,
         Move(gone, a, s), a = b => s = "done",
         UNCHANGED <<ctl, toServer, toPage, stored, failed>>, aborted \subseteq aborted'
  PROVE  Left(b)'
  <1>1. step'[b] \in {step[b], "done"} /\ (result'[b] = "signed" => result[b] = "signed")
    BY MoveFacts
  <1>2. step[b] \in {"asking", "waiting", "checking", "done"}
    BY DEF Left
  <1>3. NoFail' => NoFail
    BY DEF NoFail
  <1>4. Late(b) => Late(b)'
    BY DEF Late
  <1>5. SignsAfterFailure(b)'
    BY DEF Left, SignsAfterFailure, AfterFailure
  <1>6. step'[b] \in {"asking", "waiting", "checking", "done"}
    BY <1>1, <1>2
  <1>7. step'[b] \in {"waiting", "checking"} \/ (step'[b] = "asking" /\ ctl' \notin aborted') =>
           step[b] \in {"waiting", "checking"} \/ (step[b] = "asking" /\ ctl \notin aborted)
    BY <1>1
  <1> QED
    BY <1>1, <1>3, <1>4, <1>5, <1>6, <1>7, LeftKept

\* Every step leaves the cancelled watches where an abort can leave them.
LEMMA CancelStep ==
  ASSUME PasskeyAssumption
  PROVE  TypeOK /\ WaitsCanBeAborted /\ TraceInv /\ CancelInv /\ [Next]_pkVars => CancelInv'
  <1> SUFFICES ASSUME TypeOK, WaitsCanBeAborted, TraceInv, CancelInv, [Next]_pkVars, NEW b \in cancelled'
               PROVE  Left(b)'
    BY DEF CancelInv
  <1>0. /\ b \in Watches /\ b \in Attempts /\ b \notin Logins /\ b \notin Registers /\ None # b
        /\ None \notin Attempts
        /\ {"idle", "probing", "asking", "offered", "waiting", "checking", "done"} \subseteq Steps
    <2>1. cancelled' \subseteq Watches
      BY TypeStep DEF TypeOK
    <2> QED
      BY <2>1 DEF PasskeyAssumption, Attempts, Steps
  <1>1. /\ step \in [Attempts -> Steps] /\ result \in [Attempts -> {None, "null", "rejected", "signed"}]
        /\ ctl \in Nat /\ stored \in Attempts \cup {None}
    BY DEF TypeOK
  <1>2. b \in cancelled => Left(b)
    BY DEF CancelInv
  <1>3. Left(b) => step[b] \in {"asking", "waiting", "checking", "done"} /\ SignsAfterFailure(b)
    BY DEF Left, SignsAfterFailure
  \* What the steps that send or take keep of b.
  <1>4. ASSUME cancelled' = cancelled, step'[b] = step[b], result'[b] = result[b],
               UNCHANGED <<ctl, aborted>>, NoFail' => NoFail, failed' = failed,
               Late(b) => Late(b)', SignsAfterFailure(b)'
        PROVE  Left(b)'
    <2>1. Left(b) /\ step'[b] \in {"asking", "waiting", "checking", "done"}
      BY <1>2, <1>3, <1>4
    <2> QED
      BY <1>0, <1>4, <2>1, LeftKept
  <1>5. UNCHANGED <<toPage, failed>> => (NoFail' => NoFail) /\ (Left(b) => SignsAfterFailure(b)')
    BY DEF NoFail, Left, SignsAfterFailure, AfterFailure
  <1>6. ASSUME NEW a \in Attempts, Probe(a) PROVE Left(b)'
    <2>1. step'[b] = step[b]
      BY <1>0, <1>1, <1>2, <1>3, <1>6 DEF Probe
    <2>2. Late(b) => Late(b)'
      BY <1>6 DEF Probe, Late
    <2> QED
      BY <1>2, <1>4, <1>5, <1>6, <2>1, <2>2 DEF Probe
  <1>7. ASSUME NEW a \in Attempts, CannotWait(a) \/ Dismiss(a) PROVE Left(b)'
    <2>1. Move({}, a, "done") /\ cancelled' = cancelled /\ aborted' = aborted
          /\ UNCHANGED <<ctl, toServer, toPage, stored, failed>>
      BY <1>7 DEF CannotWait, Dismiss
    <2> QED
      BY <1>0, <1>2, <2>1, LeftMoved
  <1>8. ASSUME NEW a \in Attempts, Begin(a) PROVE Left(b)'
    <2>1. Move(Ended, a, "asking") /\ step[a] = "probing" /\ cancelled' = cancelled \cup Met
          /\ toServer' = Append(toServer, Ask(a)) /\ UNCHANGED <<toPage, stored, failed>>
      BY <1>8 DEF Begin
    <2>2. b \in Met => step[b] \in {"asking", "waiting"} /\ (step[b] = "waiting" => b \in Ended)
      BY DEF Met, Ended, Open
    <2>3. a # b
      BY <1>2, <1>3, <2>1, <2>2
    <2>4. /\ step'[b] = IF b \in Ended THEN "done" ELSE step[b]
          /\ result'[b] = "signed" => result[b] = "signed"
      BY <1>0, <2>1, <2>3, MoveFacts
    <2>5. Ask(a) \in Request /\ Ask(a).op = "ask" /\ Ask(a).of # b
      BY <2>3, MessageFacts DEF Ask
    <2>6. CASE b \in Met
      <3>1. \A i \in DOMAIN toServer : ~(toServer[i].of = b /\ toServer[i].op = "check")
        BY <2>2, <2>6 DEF TraceInv, AskOrCheck
      <3>2. Late(b)'
        BY <2>1, <2>5, <3>1, LateAsk
      <3>3. step'[b] \in {"asking", "done"}
        BY <2>2, <2>4, <2>6
      <3> QED
        BY <2>1, <2>4, <2>6, <3>2, <3>3, MetIsLeft
    <2>7. CASE b \in cancelled /\ b \notin Met
      <3>1. Left(b) /\ step'[b] = step[b]
        BY <1>0, <1>2, <2>4, <2>7 DEF Met
      <3>2. step[b] # "asking"
        BY <1>0, <2>7 DEF Met
      <3>3. Late(b) => Late(b)'
        <4>1. Late(b) => \A i \in DOMAIN toServer : toServer[i].of = b /\ toServer[i].op = "check" =>
                stored # b \/ \E j \in DOMAIN toServer : j < i /\ toServer[j].op = "ask"
          BY DEF Late
        <4> QED
          BY <2>1, <2>5, <4>1, LateAsk
      <3>4. step'[b] \in {"asking", "waiting", "checking", "done"}
        BY <1>3, <3>1
      <3> QED
        BY <1>0, <1>5, <2>1, <2>4, <3>1, <3>2, <3>3, <3>4, LeftKept
    <2> QED
      BY <2>1, <2>6, <2>7
  <1>9. ASSUME NEW a \in (Attempts \cup {None}) \ {b}, NEW gone \in SUBSET Open, NEW s \in Steps, Ended \subseteq gone,
               Move(gone, a, s), cancelled' = cancelled \cup Met, aborted' = aborted \cup {ctl},
               UNCHANGED <<ctl, toServer, toPage, stored, failed>>
        PROVE  Left(b)'
    <2>1. CASE b \in cancelled
      BY <1>0, <1>2, <1>9, <2>1, LeftMoved
    <2>2. CASE b \in Met
      <3>1. step[b] = "asking" \/ b \in gone
        BY <1>9, <2>2 DEF Met
      <3>2. step'[b] \in {"asking", "done"} /\ (result'[b] = "signed" => result[b] = "signed")
        BY <1>0, <1>9, <3>1, MoveFacts
      <3>3. ctl' \in aborted'
        BY <1>9
      <3> QED
        BY <1>9, <2>2, <3>2, <3>3, MetIsLeft
    <2> QED
      BY <1>9, <2>1, <2>2
  <1>10. CASE Destroy
    BY <1>0, <1>9, <1>10 DEF Destroy, Ended
  <1>11. ASSUME NEW a \in Attempts, WebauthnLogin(a) PROVE Left(b)'
    <2>1. a # b /\ Ended \in SUBSET Open
      BY <1>0, <1>11 DEF WebauthnLogin, Ended
    <2>2. /\ cancelled' = cancelled \cup Met /\ aborted' = aborted \cup {ctl}
          /\ UNCHANGED <<ctl, toServer, toPage, stored, failed>>
      BY <1>11 DEF WebauthnLogin
    <2>3. Move(Open, a, "waiting") \/ Move(Ended, a, "done")
      BY <1>11 DEF WebauthnLogin
    <2> QED
      BY <1>0, <1>9, <2>1, <2>2, <2>3
  <1> HIDE DEF Ask, Check
  <1>12. ASSUME NEW a \in Attempts, AskFirst(a) PROVE Left(b)'
    <2>1. a # b /\ toServer' = Append(toServer, Ask(a)) /\ stored' = stored
      BY <1>0, <1>12 DEF AskFirst
    <2>2. step'[b] = step[b]
      BY <1>0, <1>1, <1>12, <2>1 DEF AskFirst
    <2>3. Ask(a) \in Request /\ Ask(a).op = "ask" /\ Ask(a).of # b
      BY <2>1, MessageFacts DEF Ask
    <2>4. Late(b) => \A i \in DOMAIN toServer : toServer[i].of = b /\ toServer[i].op = "check" =>
            stored # b \/ \E j \in DOMAIN toServer : j < i /\ toServer[j].op = "ask"
      BY DEF Late
    <2>5. Late(b) => Late(b)'
      BY <2>1, <2>3, <2>4, LateAsk
    <2> QED
      BY <1>2, <1>4, <1>5, <1>12, <2>2, <2>5 DEF AskFirst
  <1>13. ASSUME NEW a \in Attempts, RecvChallenge(a) PROVE Left(b)'
    <2>1. /\ toPage # <<>> /\ Head(toPage).op = "ask" /\ Head(toPage).of = a /\ Head(toPage).ok
          /\ toPage' = Tail(toPage) /\ b \in cancelled
          /\ UNCHANGED <<ctl, aborted, toServer, stored, failed>>
      BY <1>13 DEF RecvChallenge
    <2>2. step[a] = "asking" /\ Left(b)
      BY <1>2, <2>1, HeadAnswer
    <2>3. SignsAfterFailure(b)'
      BY <1>3, <2>1, <2>2, AnswerTaken
    <2>4. NoFail' => NoFail
      BY <2>1, NoFailBefore
    <2>5. Late(b) => Late(b)'
      BY <2>1 DEF Late
    <2>6. \/ a \notin Watches /\ Move({}, a, "offered")
          \/ a \in Watches /\ ctl \notin aborted /\ Move(Open, a, "waiting")
          \/ Move({}, a, "done")
      BY <1>13 DEF RecvChallenge
    <2>7. /\ result'[b] = "signed" => result[b] = "signed"
          /\ \/ step'[b] \in {step[b], "done"}
             \/ b = a /\ ctl \notin aborted /\ step'[b] = "waiting"
      BY <1>0, <2>6, MoveFacts
    <2>8. step'[b] \in {"asking", "waiting", "checking", "done"}
      BY <1>3, <2>2, <2>7
    <2>9. step'[b] \in {"waiting", "checking"} \/ (step'[b] = "asking" /\ ctl' \notin aborted') =>
           step[b] \in {"waiting", "checking"} \/ (step[b] = "asking" /\ ctl \notin aborted)
      BY <2>1, <2>2, <2>7
    <2> QED
      BY <1>0, <2>1, <2>2, <2>3, <2>4, <2>5, <2>7, <2>8, <2>9, LeftKept
  <1>14. ASSUME NEW a \in Attempts, RecvNoChallenge(a) PROVE Left(b)'
    <2>1. failed' # {} /\ b \in cancelled /\ Move({}, a, "done")
      BY <1>14 DEF RecvNoChallenge
    <2>2. ~NoFail' /\ SignsAfterFailure(b)'
      BY <2>1 DEF NoFail, SignsAfterFailure, AfterFailure
    <2>3. step'[b] \in {step[b], "done"}
      BY <1>0, <2>1, MoveFacts
    <2>4. step'[b] \in {"asking", "waiting", "checking", "done"}
      BY <1>2, <1>3, <2>1, <2>3
    <2> QED
      BY <2>1, <2>2, <2>4 DEF Left, SignsAfterFailure
  <1>15. ASSUME NEW a \in Attempts, Pick(a) \/ Create(a) PROVE Left(b)'
    <2>1. /\ UNCHANGED <<ctl, aborted, toPage, stored, failed>> /\ b \in cancelled /\ Left(b)
          /\ step[a] \in {"waiting", "offered"} /\ (a = b => step[a] = "waiting")
      BY <1>0, <1>2, <1>15 DEF Pick, Create
    <2>2. CASE Move({}, a, "done") /\ toServer' = toServer
      BY <1>0, <2>1, <2>2, LeftMoved
    <2>3. CASE Move({}, a, "checking") /\ toServer' = Append(toServer, Check(a))
      <3>1. Check(a) \in Request /\ Check(a).op = "check" /\ Check(a).of = a
        BY MessageFacts DEF Check
      <3>2. a = b => \A i \in DOMAIN toServer : toServer[i].of # b
        BY <2>1 DEF TraceInv, AskOrCheck
      <3>3. Late(b) => Late(b)'
        BY <2>1, <2>3, <3>1, <3>2, LateCheck
      <3>4. /\ step'[b] = IF a = b THEN "checking" ELSE step[b]
            /\ result'[b] = "signed" => result[b] = "signed"
        BY <1>0, <2>3, MoveFacts
      <3>5. step'[b] \in {"asking", "waiting", "checking", "done"}
        BY <1>3, <2>1, <3>4
      <3>6. step'[b] \in {"waiting", "checking"} \/ (step'[b] = "asking" /\ ctl' \notin aborted') =>
              step[b] \in {"waiting", "checking"} \/ (step[b] = "asking" /\ ctl \notin aborted)
        BY <2>1, <3>4
      <3> QED
        BY <1>0, <1>5, <2>1, <3>3, <3>4, <3>5, <3>6, LeftKept
    <2> QED
      BY <1>15, <2>2, <2>3 DEF Pick, Create
  <1>16. ASSUME NEW a \in Attempts, RecvCheck(a) PROVE Left(b)'
    <2>1. /\ toPage # <<>> /\ Head(toPage).op = "check" /\ Head(toPage).of = a
          /\ toPage' = Tail(toPage) /\ b \in cancelled /\ Left(b)
          /\ UNCHANGED <<ctl, aborted, toServer, stored, failed>>
      BY <1>2, <1>16 DEF RecvCheck
    <2>2. SignsAfterFailure(b)'
      BY <1>3, <2>1, AnswerTaken
    <2>3. NoFail' => NoFail
      BY <2>1, NoFailBefore
    <2>4. Late(b) => Late(b)'
      BY <2>1 DEF Late
    <2>5. CASE a # b
      <3>1. step'[b] = step[b] /\ result'[b] = result[b]
        BY <1>0, <1>1, <1>16, <2>5 DEF RecvCheck
      <3> QED
        BY <1>4, <1>16, <2>1, <2>2, <2>3, <2>4, <3>1 DEF RecvCheck
    <2>6. CASE a = b
      <3>1. step'[b] = "done" /\ (result'[b] = "signed" => Head(toPage).ok)
        BY <1>0, <1>1, <1>16, <2>6 DEF RecvCheck
      <3>2. 1 \in DOMAIN toPage /\ Head(toPage) = toPage[1] /\ \A j \in DOMAIN toPage : j \in Nat \ {0}
        BY <2>1, TailFacts DEF TypeOK
      <3>3. \A j \in DOMAIN toPage : ~(j < 1)
        BY <3>2
      <3>4. Head(toPage).ok => failed # {}
        BY <1>3, <2>1, <2>6, <3>2, <3>3 DEF SignsAfterFailure, AfterFailure
      <3> QED
        BY <2>1, <2>2, <3>1, <3>4 DEF Left, SignsAfterFailure
    <2> QED
      BY <2>5, <2>6
  <1>17. CASE Issue \/ IssueFails \/ Verify
    <2>1. /\ toServer # <<>> /\ toServer' = Tail(toServer) /\ b \in cancelled /\ Left(b)
          /\ UNCHANGED <<ctl, aborted, step, result, cancelled, failed>>
      BY <1>2, <1>17 DEF Issue, IssueFails, Verify
    <2>2. PICK ok \in BOOLEAN :
            /\ toPage' = Append(toPage, [op |-> Head(toServer).op, of |-> Head(toServer).of, ok |-> ok])
            /\ \/ Head(toServer).op = "ask" /\ ok /\ stored' = Head(toServer).of
               \/ Head(toServer).op = "ask" /\ ~ok
               \/ Head(toServer).op = "check" /\ stored' = stored /\ (ok => stored = Head(toServer).of)
      <3>1. CASE Issue
        BY <3>1 DEF Issue
      <3>2. CASE IssueFails
        BY <3>2 DEF IssueFails
      <3>3. CASE Verify
        <4>1. PICK ok \in {FALSE, stored = Head(toServer).of} :
                toPage' = Append(toPage, [op |-> "check", of |-> Head(toServer).of, ok |-> ok])
          BY <3>3 DEF Verify
        <4>2. ok \in BOOLEAN /\ (ok => stored = Head(toServer).of)
          OBVIOUS
        <4>3. Head(toServer).op = "check" /\ stored' = stored
          BY <3>3 DEF Verify
        <4> QED
          BY <4>1, <4>2, <4>3
      <3> QED
        BY <1>17, <3>1, <3>2, <3>3
    <2> DEFINE m == [op |-> Head(toServer).op, of |-> Head(toServer).of, ok |-> ok]
    <2>3. /\ Head(toServer) \in Request /\ Head(toServer).of \in Attempts
          /\ Head(toServer).op = "check" => step[Head(toServer).of] = "checking"
      BY <2>1, HeadRequest
    <2>4. m \in Answer /\ m.of = Head(toServer).of /\ m.op = Head(toServer).op /\ m.ok = ok
      BY <2>3 DEF Request, Answer
    <2>5. toPage' = Append(toPage, m)
      BY <2>2
    <2> HIDE DEF m
    <2>6. NoFail' => NoFail
      BY <2>1, <2>4, <2>5, NoFailBefore
    <2>7. m.of = b /\ m.op = "check" /\ m.ok => ~NoFail
      <3> SUFFICES ASSUME m.of = b, m.op = "check", m.ok, NoFail PROVE FALSE
        OBVIOUS
      <3>1. stored = b /\ step[b] = "checking" /\ Head(toServer).of = b /\ Head(toServer).op = "check"
        BY <2>2, <2>3, <2>4
      <3>2. Late(b)
        BY <2>1, <3>1 DEF Left
      <3>3. /\ 1 \in DOMAIN toServer /\ Head(toServer) = toServer[1]
            /\ \A j \in DOMAIN toServer : j \in Nat \ {0}
        BY <2>1, TailFacts DEF TypeOK
      <3>4. \A j \in DOMAIN toServer : ~(j < 1)
        BY <3>3
      <3> QED
        BY <3>1, <3>2, <3>3, <3>4 DEF Late
    <2>8. SignsAfterFailure(b)'
      BY <1>3, <2>1, <2>4, <2>5, <2>7, AnswerSent
    <2>9. CASE Head(toServer).op = "ask" /\ ok /\ stored' = Head(toServer).of
      <3>1. Late(b) => Late(b)'
        BY <2>1, <2>9, LateIssue
      <3> QED
        BY <1>4, <2>1, <2>6, <2>8, <3>1
    <2>10. CASE Head(toServer).op = "ask" /\ ~ok
      <3>1. Len(toPage) + 1 \in DOMAIN toPage' /\ toPage'[Len(toPage) + 1] = m
        BY <2>4, <2>5, AppendFacts DEF TypeOK
      <3>2. ~NoFail'
        BY <2>4, <2>10, <3>1 DEF NoFail
      <3> QED
        BY <2>1, <2>8, <3>2 DEF Left, SignsAfterFailure
    <2>11. CASE Head(toServer).op = "check" /\ stored' = stored
      <3>1. Late(b) => Late(b)'
        BY <2>1, <2>11, LateVerify
      <3> QED
        BY <1>4, <2>1, <2>6, <2>8, <3>1
    <2> QED
      BY <2>2, <2>9, <2>10, <2>11
  <1>18. CASE UNCHANGED pkVars
    <2>1. Late(b) => Late(b)'
      BY <1>18 DEF pkVars, Late
    <2> QED
      BY <1>2, <1>4, <1>5, <1>18, <2>1 DEF pkVars
  <1> QED
    BY <1>6, <1>7, <1>8, <1>10, <1>11, <1>12, <1>13, <1>14, <1>15, <1>16, <1>17, <1>18 DEF Next
----------------------------------------------------------------------------
\* The inductive invariant holds at the start.
LEMMA PasskeyInit ==
  ASSUME PasskeyAssumption
  PROVE  Init => PasskeyInv
  <1> SUFFICES ASSUME Init PROVE PasskeyInv
    OBVIOUS
  <1>1. TypeOK
    BY DEF Init, TypeOK, Steps
  <1>2. WaitsCanBeAborted
    BY DEF Init, WaitsCanBeAborted, Open
  <1>3. TraceInv
    BY DEF Init, TraceInv, PasskeyAssumption
  <1>4. CancelInv
    BY DEF Init, CancelInv
  <1> QED
    BY <1>1, <1>2, <1>3, <1>4 DEF PasskeyInv

\* ... and every step keeps it.
LEMMA PasskeyInvariant ==
  ASSUME PasskeyAssumption
  PROVE  Spec => []PasskeyInv
  <1>1. Init => PasskeyInv
    BY PasskeyInit
  <1>2. PasskeyInv /\ [Next]_pkVars => PasskeyInv'
    BY TypeStep, WaitStep, TraceStep, CancelStep DEF PasskeyInv
  <1> QED
    BY <1>1, <1>2, PTL DEF Spec

\* The variables keep their types.
THEOREM TypeCorrect ==
  ASSUME PasskeyAssumption
  PROVE  Spec => []TypeOK
  <1>1. PasskeyInv => TypeOK
    BY DEF PasskeyInv
  <1> QED
    BY <1>1, PasskeyInvariant, PTL

\* For any attempts on the connection: initPasskey never leaves a request open in
\* the browser that the next abort of this.abort does not end.
THEOREM Abortable ==
  ASSUME PasskeyAssumption
  PROVE  Spec => []WaitsCanBeAborted
  <1>1. PasskeyInv => WaitsCanBeAborted
    BY DEF PasskeyInv
  <1> QED
    BY <1>1, PasskeyInvariant, PTL

\* For any attempts: a watch that an abort met signs nobody in, as long as login
\* and register make the challenges they are asked for.
THEOREM NobodySignedIn ==
  ASSUME PasskeyAssumption
  PROVE  Spec => []CancelledSignsNobodyIn
  <1>1. PasskeyInv => CancelledSignsNobodyIn
    BY DEF PasskeyInv, CancelInv, Left, CancelledSignsNobodyIn
  <1> QED
    BY <1>1, PasskeyInvariant, PTL
----------------------------------------------------------------------------
(***************************************************************************)
(* The panes of the frame.  Presses are numbered, and those on one border  *)
(* start to listen in that order; so until a press that found no other has *)
(* been heard of, nothing moves the pane it was for (EdgeInv).             *)
(***************************************************************************)

\* The presses that still listen, or will.
Press == [n : Nat, border : {"left", "bottom"}, mount : Nat, from : Nat, size : Int,
          on : BOOLEAN, start : Int, alone : BOOLEAN]

ShellTypes ==
  /\ wide \in BOOLEAN /\ desktop \in BOOLEAN /\ y \in Int /\ x \in Int /\ mount \in Nat /\ mouse \in Nat
  /\ presses \in Nat /\ drags \subseteq Press

\* Presses are numbered; those on one border listen in order, the one that found
\* no other before all the rest; and none is of a Desktop still to come.
DragInv ==
  /\ \A d \in drags : d.n <= presses /\ d.mount <= mount
  /\ \A d, e \in drags : d.n = e.n => d = e
  /\ \A d, e \in drags : d.border = e.border /\ d.n < e.n /\ e.on => d.on
  /\ \A d, e \in drags : d.alone => d.n <= e.n

\* The left pane and what a press that found no other keeps of it.
EdgeInv ==
  \A d \in drags :
    d.border = "left" /\ d.mount = mount /\ d.alone =>
      /\ d.on => d.start = d.from - d.size
      /\ Outer!Listening("left") \subseteq {d} =>
           x = d.size \/ (d.on /\ x = d.size + mouse - d.from)

\* A tool that was not opened on a wide window has its pane, on either kind.
TallInv == tab # "" /\ ~fromWide => y >= 64

ShellInv == ShellTypes /\ DragInv /\ EdgeInv /\ TallInv

\* The initial state satisfies the invariant of the panes.
LEMMA PanesInit == PageInit => ShellInv
  <1> SUFFICES ASSUME PageInit PROVE ShellInv
    OBVIOUS
  <1>1. y = 46 /\ x = 280 /\ mount = 0 /\ presses = 0
    BY DEF PageInit, Outer!Init, Outer!LeftWidth, Outer!Low
  <1>2. drags = {} /\ tab = ""
    BY DEF PageInit, Outer!Init
  <1>3. wide \in BOOLEAN /\ desktop \in BOOLEAN /\ mouse \in Nat
    BY BrowserAssumption DEF BrowserAssumption, Outer!ShellAssumption, PageInit, Outer!Init
  <1>4. y \in Int /\ x \in Int /\ mount \in Nat /\ presses \in Nat
    BY <1>1
  <1>5. drags \subseteq Press
    BY <1>2
  <1>6. ShellTypes
    BY <1>3, <1>4, <1>5 DEF ShellTypes
  <1>7. DragInv /\ EdgeInv /\ TallInv
    BY <1>2 DEF DragInv, EdgeInv, TallInv
  <1> QED
    BY <1>6, <1>7 DEF ShellInv

\* Until a press that found no other is heard, no press on its border is.
LEMMA NotHeard ==
  ASSUME ShellTypes, DragInv, NEW d \in drags, d.alone, d.border = "left", ~d.on
  PROVE  Outer!Listening("left") = {}
  <1> SUFFICES ASSUME NEW e \in drags, e.border = "left", e.on PROVE FALSE
    BY DEF Outer!Listening
  <1>1. d.n \in Nat /\ e.n \in Nat
    BY DEF ShellTypes, Press
  <1>2. d.n <= e.n /\ d.n # e.n
    BY DEF DragInv
  <1>3. d.n < e.n
    BY <1>1, <1>2
  <1> QED
    BY <1>3 DEF DragInv

\* A set of numbers that is not empty has a least one.
LEMMA Least ==
  ASSUME NEW S \in SUBSET Nat, S # {}
  PROVE  \E m \in S : \A k \in S : m <= k
  <1> DEFINE R == OpToRel(<, Nat)
  <1>1. IsWellFoundedOn(R, Nat)
    BY NatLessThanWellFounded
  <1>2. \A m, n \in Nat : m < n => <<m, n>> \in R
    BY DEF OpToRel
  <1> HIDE DEF R
  <1>3. PICK m \in S : \A k \in S : ~(<<k, m>> \in R)
    BY <1>1, WFMin
  <1>4. \A k \in S : ~(k < m)
    BY <1>2, <1>3
  <1> QED
    BY <1>4

\* Of some presses one is the latest.
LEMMA LatestThere ==
  ASSUME ShellTypes, DragInv, NEW ds \in SUBSET drags, ds # {}
  PROVE  \E d \in ds : \A e \in ds : e.n <= d.n
  <1> DEFINE S == {presses - d.n : d \in ds}
  <1>1. \A d \in ds : d.n \in Nat /\ presses \in Nat /\ d.n <= presses
    BY DEF ShellTypes, DragInv, Press
  <1>2. S \subseteq Nat /\ S # {}
    BY <1>1
  <1>3. PICK m \in S : \A k \in S : m <= k
    BY <1>2, Least
  <1>4. PICK d \in ds : m = presses - d.n
    OBVIOUS
  <1>5. \A e \in ds : m <= presses - e.n
    BY <1>3
  <1> QED
    BY <1>1, <1>4, <1>5

\* The latest of one press is that press.
LEMMA LatestIs ==
  ASSUME ShellTypes, DragInv, NEW d \in drags, NEW ds, ds = {d}
  PROVE  Outer!Latest(ds) = d
  BY DEF Outer!Latest, ShellTypes, Press

\* The window is shown as the other layout: a new left pane is of a new Desktop.
LEMMA UpdateStep ==
  ASSUME ShellInv, Outer!Update(wide'), wide' \in BOOLEAN,
         UNCHANGED <<tab, y, mouse, drags, presses, fromWide>>
  PROVE  ShellInv'
  <1>1. /\ desktop' \in BOOLEAN
        /\ \/ x' = 280 /\ mount' = mount + 1
           \/ UNCHANGED <<x, mount>>
    BY DEF Outer!Update, Outer!LeftWidth
  <1>2. ShellTypes'
    BY <1>1 DEF ShellInv, ShellTypes
  <1>3. DragInv'
    BY <1>1 DEF ShellInv, ShellTypes, DragInv, Press
  <1>4. EdgeInv'
    <2>1. CASE UNCHANGED <<x, mount>>
      BY <2>1 DEF ShellInv, EdgeInv, Outer!Listening
    <2>2. CASE mount' = mount + 1
      <3>1. \A d \in drags : d.mount # mount'
        BY <2>2 DEF ShellInv, ShellTypes, DragInv, Press
      <3> QED
        BY <3>1 DEF EdgeInv
    <2> QED
      BY <1>1, <2>1, <2>2
  <1>5. TallInv'
    BY DEF ShellInv, TallInv
  <1> QED
    BY <1>2, <1>3, <1>4, <1>5 DEF ShellInv

\* A press on a border.
LEMMA PressStep ==
  ASSUME ShellInv, NEW b \in {"left", "bottom"}, Outer!Press(b) PROVE ShellInv'
  <1> DEFINE e == [n |-> presses + 1, border |-> b, mount |-> mount, from |-> mouse,
                   size |-> IF b = "left" THEN x ELSE y,
                   on |-> FALSE, start |-> 0, alone |-> drags = {}]
  <1>1. /\ drags' = drags \cup {e} /\ presses' = presses + 1
        /\ UNCHANGED <<wide, desktop, tab, y, x, mount, mouse, fromWide>>
    BY DEF Outer!Press
  <1>2. e \in Press
    BY DEF ShellInv, ShellTypes, Press
  <1>3. ShellTypes'
    <2>1. presses' \in Nat
      BY <1>1 DEF ShellInv, ShellTypes
    <2> HIDE DEF e
    <2> QED
      BY <1>1, <1>2, <2>1 DEF ShellInv, ShellTypes
  <1>4. DragInv'
    <2>1. \A d \in drags : d.n <= presses /\ d.n \in Nat /\ presses \in Nat
      BY DEF ShellInv, DragInv, ShellTypes, Press
    <2>2. e.n = presses + 1 /\ e.mount = mount /\ ~e.on /\ (e.alone => drags = {})
          /\ mount \in Nat
      BY DEF ShellInv, ShellTypes
    <2> HIDE DEF e
    <2>3. \A d \in drags : d.n < e.n /\ d.n <= e.n /\ d.n <= presses' /\ d.n # e.n
          /\ ~(e.n < d.n)
      BY <1>1, <2>1, <2>2
    <2>4. e.n <= e.n /\ e.n <= presses' /\ e.mount <= mount' /\ ~(e.n < e.n)
      BY <1>1, <2>1, <2>2 DEF ShellInv, ShellTypes
    <2>5. \A d \in drags : d.mount <= mount'
      BY <1>1 DEF ShellInv, DragInv
    <2>6. (\A d \in drags : d.n <= presses /\ d.mount <= mount)'
      BY <1>1, <2>3, <2>4, <2>5
    <2>7. (\A c, d \in drags : c.n = d.n => c = d)'
      BY <1>1, <2>3 DEF ShellInv, DragInv
    <2>8. (\A c, d \in drags : c.border = d.border /\ c.n < d.n /\ d.on => c.on)'
      BY <1>1, <2>2, <2>3 DEF ShellInv, DragInv
    <2>9. (\A c, d \in drags : c.alone => c.n <= d.n)'
      BY <1>1, <2>2, <2>3, <2>4 DEF ShellInv, DragInv
    <2> QED
      BY <2>6, <2>7, <2>8, <2>9 DEF DragInv
  <1>5. EdgeInv'
    <2>1. e.border = "left" => e.size = x
      OBVIOUS
    <2>2. ~e.on
      OBVIOUS
    <2>3. Outer!Listening("left")' = Outer!Listening("left")
      BY <1>1, <2>2 DEF Outer!Listening
    <2> HIDE DEF e
    <2> QED
      BY <1>1, <2>1, <2>2, <2>3 DEF ShellInv, EdgeInv
  <1>6. TallInv'
    BY <1>1 DEF ShellInv, TallInv
  <1> QED
    BY <1>3, <1>4, <1>5, <1>6 DEF ShellInv

\* The handler of a press is there.
LEMMA ListenStep ==
  ASSUME ShellInv, NEW d \in drags, Outer!Listen(d) PROVE ShellInv'
  <1> DEFINE e == [d EXCEPT !.on = TRUE, !.start = Outer!StartOf(d)]
  <1>1. /\ drags' = (drags \ {d}) \cup {e} /\ ~d.on
        /\ \A c \in drags : c.border = d.border /\ c.n < d.n => c.on
        /\ UNCHANGED <<wide, desktop, tab, y, x, mount, mouse, presses, fromWide>>
    BY DEF Outer!Listen
  <1>2. d \in Press /\ x \in Int /\ y \in Int
    BY DEF ShellInv, ShellTypes
  <1>3. /\ e.n = d.n /\ e.border = d.border /\ e.mount = d.mount /\ e.from = d.from
        /\ e.size = d.size /\ e.alone = d.alone /\ e.on = TRUE
        /\ e.border = "left" => e.start = d.from - x
        /\ e \in Press
    <2>1. Outer!StartOf(d) \in Int
      BY <1>2 DEF Press, Outer!StartOf
    <2>2. d.border = "left" => Outer!StartOf(d) = d.from - x
      BY DEF Outer!StartOf
    <2> QED
      BY <1>2, <2>1, <2>2 DEF Press
  <1> HIDE DEF e
  <1>4. ShellTypes'
    BY <1>1, <1>3 DEF ShellInv, ShellTypes
  <1>5. DragInv'
    BY <1>1, <1>3 DEF ShellInv, DragInv
  <1>6. EdgeInv'
    <2> SUFFICES ASSUME NEW c \in drags', c.border = "left", c.mount = mount, c.alone
                 PROVE  /\ c.on => c.start = c.from - c.size
                        /\ Outer!Listening("left")' \subseteq {c} =>
                             x = c.size \/ (c.on /\ x = c.size + mouse - c.from)
      BY <1>1 DEF EdgeInv
    <2>1. CASE c = e
      <3>1. Outer!Listening("left") = {}
        BY <1>1, <1>3, <2>1, NotHeard DEF ShellInv
      <3>2. x = d.size
        BY <1>1, <1>3, <2>1, <3>1 DEF ShellInv, EdgeInv
      <3> QED
        BY <1>3, <2>1, <3>2
    <2>2. CASE c # e
      <3>1. c \in drags /\ c # d
        BY <1>1, <2>2
      <3>2. Outer!Listening("left")' \subseteq {c} => Outer!Listening("left") \subseteq {c}
        BY <1>1 DEF Outer!Listening
      <3> QED
        BY <3>1, <3>2 DEF ShellInv, EdgeInv
    <2> QED
      BY <2>1, <2>2
  <1>7. TallInv'
    BY <1>1 DEF ShellInv, TallInv
  <1> QED
    BY <1>4, <1>5, <1>6, <1>7 DEF ShellInv

\* The mouse moves.
LEMMA MoveStep ==
  ASSUME ShellInv, NEW p \in Positions, Outer!MoveTo(p) PROVE ShellInv'
  <1> DEFINE left   == {d \in Outer!Listening("left") : d.mount = mount}
             bottom == Outer!Listening("bottom")
             height == Outer!Latest(bottom).start - p
  <1>1. /\ mouse' = p
        /\ x' = IF left = {} THEN x ELSE p - Outer!Latest(left).start
        /\ y' = IF bottom = {} THEN y ELSE IF height < 64 THEN 64 ELSE height
        /\ fromWide' = (fromWide /\ bottom = {})
        /\ UNCHANGED <<wide, desktop, tab, mount, drags, presses>>
    BY DEF Outer!MoveTo
  <1>2. p \in Nat
    BY BrowserAssumption DEF BrowserAssumption, Outer!ShellAssumption
  <1>3. ASSUME NEW ds \in SUBSET drags, ds # {} PROVE Outer!Latest(ds).start \in Int
    <2>1. \E d \in ds : \A e \in ds : e.n <= d.n
      BY <1>3, LatestThere DEF ShellInv, ShellTypes
    <2>2. Outer!Latest(ds) \in ds
      BY <2>1 DEF Outer!Latest
    <2> QED
      BY <2>2 DEF ShellInv, ShellTypes, Press
  <1>4. left \subseteq drags /\ bottom \subseteq drags
    BY DEF Outer!Listening
  <1>5. ShellTypes'
    <2>1. x' \in Int
      BY <1>1, <1>2, <1>3, <1>4 DEF ShellInv, ShellTypes
    <2>2. y' \in Int
      BY <1>1, <1>2, <1>3, <1>4 DEF ShellInv, ShellTypes
    <2> QED
      BY <1>1, <1>2, <2>1, <2>2 DEF ShellInv, ShellTypes
  <1>6. DragInv'
    BY <1>1 DEF ShellInv, DragInv
  <1>7. EdgeInv'
    <2> SUFFICES ASSUME NEW d \in drags, d.border = "left", d.mount = mount, d.alone
                 PROVE  /\ d.on => d.start = d.from - d.size
                        /\ Outer!Listening("left") \subseteq {d} =>
                             x' = d.size \/ (d.on /\ x' = d.size + mouse' - d.from)
      BY <1>1 DEF EdgeInv, Outer!Listening
    <2>1. d.on => d.start = d.from - d.size
      BY DEF ShellInv, EdgeInv
    <2>2. ASSUME Outer!Listening("left") \subseteq {d}, d.on PROVE x' = d.size + p - d.from
      <3>1. left = {d}
        BY <2>2 DEF Outer!Listening
      <3>2. x' = p - d.start
        BY <1>1, <3>1, LatestIs DEF ShellInv
      <3>3. d.from \in Int /\ d.size \in Int
        BY DEF ShellInv, ShellTypes, Press
      <3> QED
        BY <1>2, <2>1, <2>2, <3>2, <3>3
    <2>3. ASSUME Outer!Listening("left") \subseteq {d}, ~d.on PROVE x' = d.size
      <3>1. Outer!Listening("left") = {}
        BY <2>3 DEF Outer!Listening
      <3> QED
        BY <1>1, <2>3, <3>1 DEF ShellInv, EdgeInv
    <2> QED
      BY <1>1, <2>1, <2>2, <2>3
  <1>8. TallInv'
    <2>1. y' >= 64 \/ bottom = {}
      BY <1>1, <1>5 DEF ShellTypes
    <2> QED
      BY <1>1, <2>1 DEF ShellInv, TallInv
  <1> QED
    BY <1>5, <1>6, <1>7, <1>8 DEF ShellInv

\* The button is let go.
LEMMA ReleaseStep ==
  ASSUME ShellInv, Outer!Release PROVE ShellInv'
  <1>1. /\ drags' = {d \in drags : ~d.on}
        /\ UNCHANGED <<wide, desktop, tab, y, x, mount, mouse, presses, fromWide>>
    BY DEF Outer!Release
  <1>2. EdgeInv'
    <2> SUFFICES ASSUME NEW d \in drags', d.border = "left", d.mount = mount, d.alone
                 PROVE  /\ ~d.on
                        /\ x = d.size
      BY <1>1 DEF EdgeInv
    <2>1. d \in drags /\ ~d.on
      BY <1>1
    <2>2. Outer!Listening("left") = {}
      BY <2>1, NotHeard DEF ShellInv
    <2> QED
      BY <2>1, <2>2 DEF ShellInv, EdgeInv
  <1>3. ShellTypes' /\ DragInv' /\ TallInv'
    BY <1>1 DEF ShellInv, ShellTypes, DragInv, TallInv
  <1> QED
    BY <1>2, <1>3 DEF ShellInv

\* Every step of a page keeps the invariant of the panes.
LEMMA PanesStep == ShellInv /\ [PageNext]_vars => ShellInv'
  <1> SUFFICES ASSUME ShellInv, [PageNext]_vars PROVE ShellInv'
    OBVIOUS
  <1>1. ASSUME UNCHANGED <<wide, desktop, tab, y, x, mount, mouse, drags, presses, fromWide>>
        PROVE  ShellInv'
    BY <1>1 DEF ShellInv, ShellTypes, DragInv, EdgeInv, TallInv, Outer!Listening
  <1>2. CASE LoginStep \/ FormStep \/ LocaleStep \/ UNCHANGED vars
    BY <1>1, <1>2 DEF LoginStep, FormStep, LocaleStep, InLogin, InForm, InLocale, shellVars, vars
  <1>3. CASE Outer!Mount \/ Outer!Resize
    <2>1. wide' \in BOOLEAN
      BY <1>3 DEF Outer!Mount, Outer!Resize, ShellInv, ShellTypes
    <2>2. UNCHANGED <<tab, y, mouse, drags, presses, fromWide>>
      BY <1>3 DEF Outer!Mount, Outer!Resize
    <2>3. CASE Outer!Update(wide')
      BY <2>1, <2>2, <2>3, UpdateStep
    <2>4. CASE UNCHANGED <<desktop, x, mount>>
      BY <2>1, <2>2, <2>4 DEF ShellInv, ShellTypes, DragInv, EdgeInv, TallInv, Outer!Listening
    <2>5. Outer!Mount => Outer!Update(wide')
      BY DEF Outer!Mount, Outer!Update
    <2> QED
      BY <1>3, <2>3, <2>4, <2>5 DEF Outer!Resize
  <1>4. ASSUME NEW t \in Tools, Outer!Toggle(t) PROVE ShellInv'
    BY <1>4 DEF Outer!Toggle, Outer!Click, ShellInv, ShellTypes, DragInv, EdgeInv, TallInv, Outer!Listening
  <1>5. ASSUME NEW t \in Tools, Outer!Open(t) PROVE ShellInv'
    <2>1. /\ y' = (IF y < 400 THEN 400 ELSE y)
          /\ UNCHANGED <<wide, desktop, x, mount, mouse, drags, presses>>
      BY <1>5 DEF Outer!Open
    <2>2. y' \in Int /\ y' >= 64
      BY <2>1 DEF ShellInv, ShellTypes
    <2> QED
      BY <2>1, <2>2 DEF ShellInv, ShellTypes, DragInv, EdgeInv, TallInv, Outer!Listening
  <1>6. CASE Outer!SignIn
    <2>1. y' = 400 /\ UNCHANGED <<wide, desktop, x, mount, mouse, drags, presses>>
      BY <1>6 DEF Outer!SignIn
    <2>2. y' \in Int /\ y' >= 64 /\ UNCHANGED <<wide, desktop, x, mount, mouse, drags, presses>>
      BY <2>1
    <2> QED
      BY <2>2 DEF ShellInv, ShellTypes, DragInv, EdgeInv, TallInv, Outer!Listening
  <1> QED
    BY <1>2, <1>3, <1>4, <1>5, <1>6, PressStep, ListenStep, MoveStep, ReleaseStep
    DEF PageNext, ShellStep, Outer!Next

\* On every page the tool of a narrow window is tall enough to be seen, and the
\* border of the left pane stays under the mouse that drags it.
THEOREM Panes == PageSpec => []PanesFit
  <1>1. ShellInv => PanesFit
    BY DEF ShellInv, EdgeInv, TallInv, PanesFit, Outer!PanesFit, Outer!OpenToolIsTall,
           Outer!EdgeFollowsMouse
  <1> QED
    BY <1>1, PanesInit, PanesStep, PTL DEF PageSpec
============================================================================
