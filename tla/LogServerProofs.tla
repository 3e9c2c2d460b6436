--------------------------- MODULE LogServerProofs ---------------------------
(***************************************************************************)
(* Theorems about LogServer, for every number of commits, writers and      *)
(* databases, every channel capacity and every Log array.                  *)
(*                                                                         *)
(* Order: what a writer was sent and has not lost is one sequence, the     *)
(* Pipeline; a send appends to it, Receive, Drain and AppendBlock move     *)
(* entries along it, and an entry is older than the place its commit's     *)
(* loop has reached.  Waiting: the WaitGroup of a commit is at least the   *)
(* number of operations still to come, and equal to it only when all the   *)
(* operations before were blobs that succeeded: a commit with any other    *)
(* operation waits for ever, which the run log_hang shows on one instance. *)
(***************************************************************************)
EXTENDS LogServer, SequenceTheorems, TLAPS

\* A batch is in the making only between Receive and AppendBlock.
BatchInv == \A w \in Writers : pc[w] \in {"start", "recv"} => batch[w] = <<>>

\* The operations of c before place n were blobs that succeeded.
AllDone(c, n) ==
  /\ Len(result[c]) = n - 1
  /\ \A i \in 1..n - 1 : ops[c][i].kind = "blob" /\ result[c][i] = "url"

\* The WaitGroup is never below the operations to come, and meets them only
\* when nothing was skipped, refused or sent.
WaitInv ==
  \A c \in Commits : req[c] = "running" =>
    /\ next[c] \in 1..Len(ops[c]) + 1
    /\ wg[c] >= Len(ops[c]) - next[c] + 1
    /\ wg[c] = Len(ops[c]) - next[c] + 1 => AllDone(c, next[c])

\* Entries on their way come from before the place their commit has reached.
PlaceInv ==
  \A w \in Writers : \A j \in DOMAIN Pipeline(w) :
    Pipeline(w)[j][2] < next[Pipeline(w)[j][1]]

\* A commit that was not asked for yet starts at its first operation.
IdleInv == \A c \in Commits : req[c] = "idle" => next[c] = 1 /\ result[c] = <<>>

\* Not a promise but what the missing Done comes to: a commit that returned was
\* one of blobs alone, none of them refused.
OnlyBlobsReturn ==
  \A c \in Commits : req[c] = "done" =>
    /\ Len(result[c]) = Len(ops[c])
    /\ \A i \in DOMAIN ops[c] : ops[c][i].kind = "blob" /\ result[c][i] = "url"

LogInv == TypeOK /\ IdleInv /\ BatchInv /\ WaitInv /\ PlaceInv /\ OrderedPerDb /\ OnlyBlobsReturn
----------------------------------------------------------------------------
(* The pipeline of a writer: a, what was appended; b, the batch; q, the     *)
(* channel.                                                                 *)

\* Concatenation of runs of entries associates.
LEMMA CatAssociates ==
  \A a, b, c \in Seq(Entry) : (a \o b) \o c = a \o (b \o c)
  BY ConcatAssociative

\* A send puts an entry at the end of the pipeline.
LEMMA PipeSend ==
  \A a, b, q \in Seq(Entry) : \A e \in Entry :
    a \o b \o Append(q, e) = Append(a \o b \o q, e)
  <1> TAKE a, b, q \in Seq(Entry)
  <1> TAKE e \in Entry
  <1>1. a \o b \in Seq(Entry) /\ a \o b \o q \in Seq(Entry) /\ <<e>> \in Seq(Entry)
    BY ConcatProperties
  <1>2. Append(q, e) = q \o <<e>> /\ Append(a \o b \o q, e) = (a \o b \o q) \o <<e>>
    BY <1>1, AppendIsConcat
  <1>3. (a \o b) \o (q \o <<e>>) = ((a \o b) \o q) \o <<e>>
    BY <1>1, ConcatAssociative
  <1> QED
    BY <1>2, <1>3

\* Handing the batch to the log leaves the pipeline as it is.
LEMMA PipeFlush ==
  ASSUME NEW S, NEW a \in Seq(S), NEW b \in Seq(S)
  PROVE  (a \o b) \o <<>> = a \o b
  BY ConcatProperties, ConcatEmptySeq

\* What was appended is a part of the pipeline, and so is what will be next.
LEMMA PipeLen ==
  ASSUME NEW S, NEW a \in Seq(S), NEW b \in Seq(S), NEW q \in Seq(S)
  PROVE  /\ Len(a) \in Nat /\ Len(a \o b) \in Nat /\ Len(a \o b \o q) \in Nat
         /\ Len(a) <= Len(a \o b) /\ Len(a \o b) <= Len(a \o b \o q)
  <1>1. Len(a) \in Nat /\ Len(b) \in Nat /\ Len(q) \in Nat
    OBVIOUS
  <1>2. a \o b \in Seq(S) /\ Len(a \o b) = Len(a) + Len(b)
    BY ConcatProperties
  <1>3. Len((a \o b) \o q) = Len(a \o b) + Len(q)
    BY <1>2, ConcatProperties
  <1> QED
    BY <1>1, <1>2, <1>3
----------------------------------------------------------------------------
\* The operation a loop is at exists, has a writer and a place in the log.
LEMMA AtPlace ==
  ASSUME TypeOK, NEW c \in Commits, NEW kind, AtOp(c, kind)
  PROVE  /\ ops[c] \in Logs /\ ops[c] \in Seq(Op) /\ next[c] \in DOMAIN ops[c]
         /\ <<c, next[c]>> \in Entry
         /\ WriterOf(ops[c][next[c]].db) \in Writers
  <1>1. next[c] \in Nat \ {0} /\ next[c] <= Len(ops[c]) /\ ops[c] \in Logs \cup {<<>>}
    BY DEF TypeOK, ReqTypes, AtOp
  <1>2. ops[c] \in Logs /\ ops[c] \in Seq(Op)
    <2>1. Len(<<>>) = 0
      OBVIOUS
    <2>2. ops[c] # <<>>
      BY <1>1, <2>1
    <2> QED
      BY <1>1, <2>2, LogAssumption
  <1>3. next[c] \in DOMAIN ops[c]
    BY <1>1, <1>2
  <1>4. <<c, next[c]>> \in Entry
    BY <1>2, <1>3 DEF Entry
  <1>5. ops[c][next[c]].db \in Nat
    <2>1. ops[c][next[c]] \in Op
      BY <1>2, <1>3
    <2> QED
      BY <2>1, LogAssumption DEF Op
  <1>6. WriterOf(ops[c][next[c]].db) \in Writers
    BY <1>5, LogAssumption DEF WriterOf, Writers
  <1> QED
    BY <1>2, <1>3, <1>4, <1>6

\* Every step keeps the types and the capacity of the channels.
LEMMA TypeStep == LogInv /\ [Next]_vars => TypeOK'
  <1> SUFFICES ASSUME LogInv, [Next]_vars PROVE TypeOK'
    OBVIOUS
  <1>0. WaitInv /\ TypeOK /\ ReqTypes /\ WriterTypes /\ StoreTypes
    BY DEF LogInv, TypeOK
  <1> DEFINE Bound == \A w \in Writers : Len(queue[w]) <= Cap
  <1>00. starts \in 1..MaxStarts /\ Bound
    BY <1>0 DEF TypeOK
  <1>a. ASSUME UNCHANGED <<starts, writerVars, storeVars>>, ReqTypes' PROVE TypeOK'
    BY <1>0, <1>00, <1>a DEF TypeOK, WriterTypes, StoreTypes, writerVars, storeVars
  <1>b. ASSUME UNCHANGED <<starts, reqVars, storeVars>>, WriterTypes', Bound' PROVE TypeOK'
    BY <1>0, <1>00, <1>b DEF TypeOK, ReqTypes, StoreTypes, reqVars, storeVars
  <1> USE LogAssumption
  <1>1. ASSUME NEW c \in Commits, NEW log \in Logs, CommitRequest(c, log) PROVE TypeOK'
    <2>1. log \in Seq(Op) /\ Len(log) \in Nat
      OBVIOUS
    <2>2. ReqTypes'
      BY <1>0, <1>1, <2>1 DEF CommitRequest, ReqTypes
    <2> QED
      BY <1>1, <1>a, <2>2 DEF CommitRequest
  <1>2. ASSUME NEW c \in Commits, Handler(c) PROVE TypeOK'
    <2>0. ASSUME NEW kind, AtOp(c, kind),
                 wg' \in [Commits -> Nat], result' \in [Commits -> Seq({"url", "error"})]
          PROVE  ReqTypes'
      BY <1>0, <2>0 DEF AtOp, ReqTypes
    <2>1. CASE Preauth(c)
      <3>1. wg[c] - 1 \in Nat
        <4>1. wg[c] >= Len(ops[c]) - next[c] + 1 /\ next[c] <= Len(ops[c])
          BY <1>0, <2>1 DEF Preauth, AtOp, WaitInv
        <4>2. ops[c] \in Seq(Op) /\ next[c] \in DOMAIN ops[c]
          BY <1>0, <2>1, AtPlace DEF Preauth
        <4>3. Len(ops[c]) \in Nat /\ next[c] \in Nat /\ wg[c] \in Nat
          BY <1>0, <4>2 DEF ReqTypes
        <4> QED
          BY <4>1, <4>3
      <3>2. wg' \in [Commits -> Nat]
        BY <1>0, <2>1, <3>1 DEF Preauth, ReqTypes
      <3>3. result' \in [Commits -> Seq({"url", "error"})]
        BY <1>0, <2>1 DEF Preauth, ReqTypes
      <3> QED
        BY <1>a, <2>0, <2>1, <3>2, <3>3 DEF Preauth, AtOp
    <2>2. CASE PreauthFails(c)
      <3>1. result' \in [Commits -> Seq({"url", "error"})] /\ wg' \in [Commits -> Nat]
        BY <1>0, <2>2 DEF PreauthFails, ReqTypes
      <3> QED
        BY <1>a, <2>0, <2>2, <3>1 DEF PreauthFails, AtOp
    <2>3. CASE SendEntry(c)
      <3> DEFINE w == WriterOf(ops[c][next[c]].db)
                 e == <<c, next[c]>>
      <3>1. e \in Entry /\ w \in Writers
        BY <1>0, <2>3, AtPlace DEF SendEntry
      <3>2. queue' = [queue EXCEPT ![w] = Append(@, e)] /\ Len(queue[w]) < Cap
        BY <2>3 DEF SendEntry
      <3>3. ReqTypes'
        <4>1. wg' \in [Commits -> Nat] /\ result' \in [Commits -> Seq({"url", "error"})]
          BY <1>0, <2>3 DEF SendEntry, ReqTypes
        <4> QED
          BY <2>0, <2>3, <4>1 DEF SendEntry
      <3>4. queue \in [Writers -> Seq(Entry)]
        BY <1>0 DEF WriterTypes
      <3> HIDE DEF w, e
      <3>5. queue' \in [Writers -> Seq(Entry)]
        BY <3>1, <3>2, <3>4, AppendProperties
      <3>6. Bound'
        <4>1. Len(Append(queue[w], e)) = Len(queue[w]) + 1 /\ Len(queue[w]) \in Nat
          BY <3>1, <3>4, AppendProperties
        <4>2. queue'[w] = Append(queue[w], e)
              /\ \A v \in Writers : v # w => queue'[v] = queue[v]
          BY <3>1, <3>2, <3>4
        <4> QED
          BY <1>00, <3>2, <4>1, <4>2
      <3>7. WriterTypes'
        BY <1>0, <2>3, <3>5 DEF SendEntry, WriterTypes
      <3>8. UNCHANGED <<starts, storeVars>>
        BY <2>3 DEF SendEntry, AtOp
      <3> QED
        BY <1>0, <1>00, <3>3, <3>6, <3>7, <3>8 DEF TypeOK, StoreTypes, storeVars
    <2>4. CASE SkipOp(c)
      <3>1. wg' \in [Commits -> Nat] /\ result' \in [Commits -> Seq({"url", "error"})]
        BY <1>0, <2>4 DEF SkipOp, ReqTypes
      <3> QED
        BY <1>a, <2>0, <2>4, <3>1 DEF SkipOp, AtOp
    <2>5. CASE Respond(c)
      <3>1. <<>> \in Seq({"url", "error"})
        OBVIOUS
      <3>2. ReqTypes'
        BY <1>0, <2>5, <3>1 DEF Respond, Body, ReqTypes
      <3> QED
        BY <1>a, <2>5, <3>2 DEF Respond
    <2> QED
      BY <1>2, <2>1, <2>2, <2>3, <2>4, <2>5 DEF Handler
  <1>3. ASSUME NEW w \in Writers, Writer(w) PROVE TypeOK'
    <2>1. CASE StartWriter(w)
      <3>1. end' = [end EXCEPT ![w] = Top]
        BY <2>1 DEF StartWriter, NewHashChain, Parsed
      <3>2. WriterTypes'
        BY <1>0, <2>1, <3>1 DEF StartWriter, WriterTypes
      <3> QED
        BY <1>00, <1>b, <2>1, <3>2 DEF StartWriter
    <2>2. CASE Receive(w) \/ Drain(w)
      <3>0. queue \in [Writers -> Seq(Entry)] /\ batch \in [Writers -> Seq(Entry)] /\ queue[w] # <<>>
        BY <1>0, <2>2 DEF Receive, Drain, WriterTypes
      <3>1. Head(queue[w]) \in Entry /\ Tail(queue[w]) \in Seq(Entry)
            /\ Len(Tail(queue[w])) = Len(queue[w]) - 1 /\ Len(queue[w]) \in Nat
        BY <3>0, HeadTailProperties
      <3>2. batch' \in [Writers -> Seq(Entry)]
        <4>1. <<Head(queue[w])>> \in Seq(Entry) /\ Append(batch[w], Head(queue[w])) \in Seq(Entry)
          BY <3>0, <3>1
        <4>2. batch' = [batch EXCEPT ![w] = <<Head(queue[w])>>]
              \/ batch' = [batch EXCEPT ![w] = Append(batch[w], Head(queue[w]))]
          BY <2>2 DEF Receive, Drain
        <4> QED
          BY <3>0, <4>1, <4>2
      <3>3. queue' = [queue EXCEPT ![w] = Tail(queue[w])]
        BY <2>2 DEF Receive, Drain
      <3>4. queue' \in [Writers -> Seq(Entry)] /\ Bound'
        BY <1>00, <3>0, <3>1, <3>3
      <3>5. WriterTypes'
        BY <1>0, <2>2, <3>2, <3>4 DEF Receive, Drain, WriterTypes
      <3> QED
        BY <1>b, <2>2, <3>4, <3>5 DEF Receive, Drain
    <2>3. CASE AppendBlock(w)
      <3>1. WriterTypes'
        <4>1. end' \in [Writers -> 0..Top]
          BY <1>0, <2>3 DEF AppendBlock, Keys, WriterTypes
        <4>2. logged' \in [Writers -> Seq(Entry)]
          <5>1. logged \in [Writers -> Seq(Entry)] /\ logged[w] \o batch[w] \in Seq(Entry)
            BY <1>0, ConcatProperties DEF WriterTypes
          <5> QED
            BY <2>3, <5>1 DEF AppendBlock
        <4>3. batch' \in [Writers -> Seq(Entry)] /\ pc' \in [Writers -> {"start", "recv", "drain"}]
          BY <1>0, <2>3 DEF AppendBlock, WriterTypes
        <4> QED
          BY <1>0, <2>3, <4>1, <4>2, <4>3 DEF AppendBlock, WriterTypes
      <3>2. blocks' \in [Writers -> [Keys -> Seq(Entry) \cup {None}]]
        <4>1. Contents(batch[w]) \in Seq(Entry)
          BY DEF Contents
        <4>2. blocks' = [blocks EXCEPT ![w][end[w]] = Contents(batch[w])] \/ UNCHANGED blocks
          BY <2>3 DEF AppendBlock, storeVars
        <4> DEFINE row == [blocks[w] EXCEPT ![end[w]] = Contents(batch[w])]
        <4>3. blocks \in [Writers -> [Keys -> Seq(Entry) \cup {None}]]
          BY <1>0 DEF StoreTypes
        <4>4. row \in [Keys -> Seq(Entry) \cup {None}]
          BY <4>1, <4>3
        <4>5. blocks' = [blocks EXCEPT ![w] = row] \/ UNCHANGED blocks
          BY <4>2, <4>3
        <4> HIDE DEF row
        <4> QED
          BY <4>3, <4>4, <4>5
      <3>3. filed' \in [Writers -> Seq([key : Keys, batch : Seq(Entry)])]
        <4> DEFINE f == [key |-> end[w], batch |-> batch[w]]
                   R == [key : Keys, batch : Seq(Entry)]
        <4>1. f \in R
          BY <1>0, <2>3 DEF AppendBlock, WriterTypes
        <4>2. UNCHANGED filed \/ filed' = [filed EXCEPT ![w] = Append(filed[w], f)]
          BY <2>3 DEF AppendBlock, storeVars
        <4>3. filed \in [Writers -> Seq(R)]
          BY <1>0 DEF StoreTypes
        <4> HIDE DEF f, R
        <4>4. Append(filed[w], f) \in Seq(R)
          BY <4>1, <4>3, AppendProperties
        <4>5. filed' \in [Writers -> Seq(R)]
          BY <4>2, <4>3, <4>4
        <4> QED
          BY <4>5 DEF R
      <3>4. StoreTypes'
        BY <3>2, <3>3 DEF StoreTypes
      <3>5. ReqTypes' /\ Bound' /\ starts' = starts
        BY <1>0, <1>00, <2>3 DEF AppendBlock, reqVars, ReqTypes
      <3> QED
        BY <1>00, <3>1, <3>4, <3>5 DEF TypeOK
    <2> QED
      BY <1>3, <2>1, <2>2, <2>3 DEF Writer
  <1>4. CASE Crash
    <2>1. starts' \in 1..MaxStarts
      BY <1>00, <1>4 DEF Crash
    <2>2. ReqTypes'
      BY <1>0, <1>4 DEF Crash, ReqTypes
    <2>3. WriterTypes' /\ Bound'
      <3>1. <<>> \in Seq(Entry) /\ Len(<<>>) = 0
        OBVIOUS
      <3> QED
        BY <1>4, <3>1 DEF Crash, WriterTypes
    <2> QED
      BY <1>0, <1>4, <2>1, <2>2, <2>3 DEF Crash, TypeOK, StoreTypes, storeVars
  <1>5. CASE UNCHANGED vars
    BY <1>0, <1>00, <1>5 DEF vars, reqVars, writerVars, storeVars, TypeOK, ReqTypes, WriterTypes, StoreTypes
  <1> QED
    BY <1>1, <1>2, <1>3, <1>4, <1>5 DEF Next, EmptyListing
----------------------------------------------------------------------------
\* What every step does to the pipeline of a writer: it stays, or an entry of
\* a commit whose loop is there is put at its end, or the process starts anew.
LEMMA PipelineStep ==
  ASSUME LogInv, [Next]_vars, NEW w \in Writers
  PROVE  \/ Pipeline(w)' = Pipeline(w)
         \/ \E c \in Commits : /\ SendEntry(c)
                             /\ Pipeline(w)' = Append(Pipeline(w), <<c, next[c]>>)
         \/ Crash /\ Pipeline(w)' = <<>>
  <1> DEFINE Goal == \/ Pipeline(w)' = Pipeline(w)
                     \/ \E c \in Commits : /\ SendEntry(c)
                                         /\ Pipeline(w)' = Append(Pipeline(w), <<c, next[c]>>)
                     \/ Crash /\ Pipeline(w)' = <<>>
  <1>0. /\ queue \in [Writers -> Seq(Entry)] /\ batch \in [Writers -> Seq(Entry)]
        /\ logged \in [Writers -> Seq(Entry)] /\ TypeOK /\ BatchInv
    BY DEF LogInv, TypeOK, WriterTypes
  <1>1. ASSUME UNCHANGED <<queue, batch, logged>> PROVE Goal
    BY <1>1 DEF Pipeline
  <1>2. ASSUME NEW c \in Commits, SendEntry(c) PROVE Goal
    <2> DEFINE v == WriterOf(ops[c][next[c]].db)
               e == <<c, next[c]>>
    <2>1. e \in Entry /\ v \in Writers
      BY <1>0, <1>2, AtPlace DEF SendEntry
    <2>2. queue' = [queue EXCEPT ![v] = Append(@, e)] /\ UNCHANGED <<batch, logged>>
      BY <1>2 DEF SendEntry
    <2> HIDE DEF v, e
    <2>3. CASE w # v
      BY <1>0, <2>2, <2>3 DEF Pipeline
    <2>4. CASE w = v
      <3>1. logged[w] \o batch[w] \o Append(queue[w], e) = Append(Pipeline(w), e)
        <4>1. /\ logged[w] \in Seq(Entry) /\ batch[w] \in Seq(Entry) /\ queue[w] \in Seq(Entry)
              /\ e \in Entry
          BY <1>0, <2>1
        <4>2. logged[w] \o batch[w] \o Append(queue[w], e)
              = Append(logged[w] \o batch[w] \o queue[w], e)
          BY <4>1, PipeSend
        <4> QED
          BY <4>2 DEF Pipeline
      <3>3. queue'[w] = Append(queue[w], e) /\ batch'[w] = batch[w] /\ logged'[w] = logged[w]
        BY <1>0, <2>2, <2>4
      <3>2. Pipeline(w)' = Append(Pipeline(w), e)
        BY <3>1, <3>3 DEF Pipeline
      <3> QED
        BY <1>2, <3>2 DEF e
    <2> QED
      BY <2>3, <2>4
  <1>3. ASSUME NEW v \in Writers, Receive(v) \/ Drain(v) PROVE Goal
    <2>1. /\ queue[v] # <<>> /\ UNCHANGED logged
          /\ queue' = [queue EXCEPT ![v] = Tail(@)]
      BY <1>3 DEF Receive, Drain
    <2>2. batch' = [batch EXCEPT ![v] = Append(@, Head(queue[v]))]
      <3>1. CASE Drain(v)
        BY <3>1 DEF Drain
      <3>2. CASE Receive(v)
        <4>1. batch[v] = <<>>
          BY <1>0, <3>2 DEF Receive, BatchInv
        <4>2. Append(<<>>, Head(queue[v])) = <<Head(queue[v])>>
          OBVIOUS
        <4> QED
          BY <1>0, <3>2, <4>1, <4>2 DEF Receive
      <3> QED
        BY <1>3, <3>1, <3>2
    <2>3. CASE w # v
      BY <1>0, <2>1, <2>2, <2>3 DEF Pipeline
    <2>4. CASE w = v
      <3>0. /\ logged[w] \in Seq(Entry) /\ batch[w] \in Seq(Entry) /\ queue[w] \in Seq(Entry)
            /\ queue[w] # <<>>
        BY <1>0, <2>1, <2>4
      <3>1. Head(queue[w]) \in Entry /\ Tail(queue[w]) \in Seq(Entry)
            /\ <<Head(queue[w])>> \in Seq(Entry) /\ queue[w] = <<Head(queue[w])>> \o Tail(queue[w])
        BY <3>0, HeadTailProperties
      <3>2. Append(batch[w], Head(queue[w])) = batch[w] \o <<Head(queue[w])>>
        BY <3>0, <3>1, AppendIsConcat
      <3>3. PICK a, b, g, t :
              /\ a \in Seq(Entry) /\ b \in Seq(Entry) /\ g \in Seq(Entry) /\ t \in Seq(Entry)
              /\ a = logged[w] /\ b = batch[w] /\ g = <<Head(queue[w])>> /\ t = Tail(queue[w])
        BY <3>0, <3>1
      <3>7. logged'[w] = logged[w] /\ queue'[w] = Tail(queue[w])
        BY <1>0, <2>1, <2>4
      <3>8. batch'[w] = Append(batch[w], Head(queue[w]))
        BY <1>0, <2>2, <2>4
      <3>4. logged'[w] = a /\ batch'[w] = b \o g /\ queue'[w] = t
        BY <3>2, <3>3, <3>7, <3>8
      <3>5. a \in Seq(Entry) /\ b \in Seq(Entry) /\ g \in Seq(Entry) /\ t \in Seq(Entry)
        BY <3>3
      <3>6. a \o (b \o g) \o t = a \o b \o (g \o t)
        <4>1. (a \o b) \o g = a \o (b \o g)
          BY <3>5, CatAssociates
        <4>2. a \o b \in Seq(Entry)
          BY <3>5, ConcatProperties
        <4>3. ((a \o b) \o g) \o t = (a \o b) \o (g \o t)
          BY <3>5, <4>2, CatAssociates
        <4> QED
          BY <4>1, <4>3
      <3> QED
        BY <3>1, <3>3, <3>4, <3>6 DEF Pipeline
    <2> QED
      BY <2>3, <2>4
  <1>4. ASSUME NEW v \in Writers, AppendBlock(v) PROVE Goal
    <2>1. /\ logged' = [logged EXCEPT ![v] = @ \o batch[v]]
          /\ batch' = [batch EXCEPT ![v] = <<>>] /\ UNCHANGED queue /\ queue[v] = <<>>
      BY <1>4 DEF AppendBlock
    <2>2. CASE w # v
      BY <1>0, <2>1, <2>2 DEF Pipeline
    <2>3. CASE w = v
      <3>1. ((logged[w] \o batch[w]) \o <<>>) \o <<>> = (logged[w] \o batch[w]) \o <<>>
        BY <1>0, PipeFlush
      <3> QED
        BY <1>0, <2>1, <2>3, <3>1 DEF Pipeline
    <2> QED
      BY <2>2, <2>3
  <1>5. CASE Crash
    <2>1. logged'[w] = <<>> /\ batch'[w] = <<>> /\ queue'[w] = <<>>
      BY <1>5 DEF Crash
    <2>2. <<>> \o <<>> \o <<>> = <<>>
      BY ConcatEmptySeq, EmptySeq
    <2> QED
      BY <1>5, <2>1, <2>2 DEF Pipeline
  <1> QED
    BY <1>1, <1>2, <1>3, <1>4, <1>5
    DEF Next, vars, writerVars, CommitRequest, Handler, Preauth, PreauthFails, SkipOp, Respond,
        Writer, StartWriter, EmptyListing

\* A commit's loop only goes forward.
LEMMA NextGrows ==
  ASSUME LogInv, [Next]_vars, NEW c \in Commits
  PROVE  next'[c] = next[c] \/ next'[c] = next[c] + 1
  <1>1. next \in [Commits -> Nat \ {0}]
    BY DEF LogInv, TypeOK, ReqTypes
  <1>2. UNCHANGED next \/ \E d \in Commits : next' = [next EXCEPT ![d] = @ + 1]
    BY DEF Next, vars, reqVars, CommitRequest, Handler, Preauth, PreauthFails, SendEntry, SkipOp,
       AtOp, Respond, Writer, StartWriter, Receive, Drain, AppendBlock, EmptyListing, Crash
  <1> QED
    BY <1>1, <1>2

\* An entry is put behind all that its writer holds, and comes after every
\* other entry of its commit that is there.
LEMMA OrderStep == LogInv /\ [Next]_vars => PlaceInv' /\ OrderedPerDb'
  <1> SUFFICES ASSUME LogInv, [Next]_vars, NEW w \in Writers
               PROVE  /\ \A j \in DOMAIN Pipeline(w)' : Pipeline(w)'[j][2] < next'[Pipeline(w)'[j][1]]
                      /\ \A i, j \in DOMAIN Pipeline(w)' :
                           i < j /\ Pipeline(w)'[i][1] = Pipeline(w)'[j][1]
                             => Pipeline(w)'[i][2] < Pipeline(w)'[j][2]
    BY DEF PlaceInv, OrderedPerDb
  <1> DEFINE p == Pipeline(w)
             q == Pipeline(w)'
  <1>0. p \in Seq(Entry)
    <2>1. logged[w] \in Seq(Entry) /\ batch[w] \in Seq(Entry) /\ queue[w] \in Seq(Entry)
      BY DEF LogInv, TypeOK, WriterTypes
    <2> QED
      BY <2>1, ConcatProperties DEF Pipeline
  <1>1. /\ \A j \in DOMAIN p : p[j][2] < next[p[j][1]]
        /\ \A i, j \in DOMAIN p : i < j /\ p[i][1] = p[j][1] => p[i][2] < p[j][2]
    BY DEF LogInv, PlaceInv, OrderedPerDb
  <1>2. next \in [Commits -> Nat \ {0}]
    BY DEF LogInv, TypeOK, ReqTypes
  <1>3. \A c \in Commits : next'[c] = next[c] \/ next'[c] = next[c] + 1
    BY NextGrows
  <1>4. \A j \in DOMAIN p : p[j][1] \in Commits /\ p[j][2] \in Nat
    <2>1. ASSUME NEW e \in Entry PROVE e[1] \in Commits /\ e[2] \in Nat
      <3>1. PICK log \in Logs : e[2] \in DOMAIN log
        BY DEF Entry
      <3>2. log \in Seq(Op)
        BY LogAssumption
      <3> QED
        BY <3>1, <3>2 DEF Entry
    <2> QED
      BY <1>0, <2>1
  <1>5. ASSUME NEW c \in Commits, SendEntry(c) PROVE next'[c] = next[c] + 1
    BY <1>2, <1>5 DEF SendEntry, AtOp
  <1>6. q = p \/ (\E c \in Commits : SendEntry(c) /\ q = Append(p, <<c, next[c]>>)) \/ q = <<>>
    BY PipelineStep
  <1>7. <<>> \in Seq(Entry) /\ DOMAIN <<>> = {}
    OBVIOUS
  <1> HIDE DEF p, q
  <1>8. CASE q = p
    <2>1. \A j \in DOMAIN p : p[j][2] < next'[p[j][1]]
      BY <1>1, <1>2, <1>3, <1>4
    <2> QED
      BY <1>1, <1>8, <2>1 DEF q
  <1>9. ASSUME NEW c \in Commits, SendEntry(c), q = Append(p, <<c, next[c]>>)
        PROVE  /\ \A j \in DOMAIN q : q[j][2] < next'[q[j][1]]
               /\ \A i, j \in DOMAIN q : i < j /\ q[i][1] = q[j][1] => q[i][2] < q[j][2]
    <2> DEFINE n == Len(p)
               e == <<c, next[c]>>
    <2>0. n \in Nat /\ DOMAIN p = 1..n
      BY <1>0
    <2>1. e \in Entry
      BY <1>9, AtPlace DEF SendEntry, LogInv
    <2>2. DOMAIN q = 1..n + 1 /\ (\A j \in 1..n : q[j] = p[j]) /\ q[n + 1] = e
      <3>1. q \in Seq(Entry) /\ Len(q) = n + 1
        BY <1>0, <1>9, <2>1, AppendProperties
      <3> QED
        BY <1>0, <1>9, <2>0, <2>1, <3>1, AppendProperties
    <2>3. e[1] = c /\ e[2] = next[c] /\ next[c] \in Nat /\ next'[c] = next[c] + 1
      BY <1>2, <1>5, <1>9
    <2> HIDE DEF n, e
    <2>4. \A j \in DOMAIN q : q[j][2] < next'[q[j][1]]
      BY <1>1, <1>2, <1>3, <1>4, <2>0, <2>2, <2>3
    <2>5. ASSUME NEW i \in DOMAIN q, NEW j \in DOMAIN q, i < j, q[i][1] = q[j][1]
          PROVE  q[i][2] < q[j][2]
      <3>1. CASE j = n + 1
        <4>1. i \in 1..n
          BY <2>0, <2>2, <2>5, <3>1
        <4>2. p[i][2] < next[c]
          BY <1>1, <2>0, <2>2, <2>3, <2>5, <3>1, <4>1
        <4> QED
          BY <2>2, <2>3, <3>1, <4>1, <4>2
      <3>2. CASE j # n + 1
        <4>1. i \in 1..n /\ j \in 1..n
          BY <2>0, <2>2, <2>5, <3>2
        <4> QED
          BY <1>1, <2>0, <2>2, <2>5, <4>1
      <3> QED
        BY <3>1, <3>2
    <2> QED
      BY <2>4, <2>5
  <1>10. CASE q = <<>>
    BY <1>7, <1>10 DEF q
  <1> QED
    BY <1>6, <1>8, <1>9, <1>10 DEF q

\* Between Receive and AppendBlock only: no other step of a writer makes a batch.
LEMMA BatchStep == LogInv /\ [Next]_vars => BatchInv'
  <1> SUFFICES ASSUME LogInv, [Next]_vars PROVE BatchInv'
    OBVIOUS
  <1>0. /\ BatchInv /\ pc \in [Writers -> {"start", "recv", "drain"}]
        /\ batch \in [Writers -> Seq(Entry)]
    BY DEF LogInv, TypeOK, WriterTypes
  <1>1. ASSUME UNCHANGED <<pc, batch>> PROVE BatchInv'
    BY <1>0, <1>1 DEF BatchInv
  <1>2. ASSUME NEW c \in Commits, Handler(c) PROVE BatchInv'
    BY <1>1, <1>2 DEF Handler, Preauth, PreauthFails, SendEntry, SkipOp, Respond, writerVars
  <1>3. ASSUME NEW w \in Writers, Writer(w) PROVE BatchInv'
    <2>1. CASE StartWriter(w)
      BY <1>0, <2>1 DEF StartWriter, BatchInv
    <2>2. CASE Receive(w) \/ Drain(w)
      <3>1. pc'[w] = "drain" /\ \A v \in Writers : v # w => pc'[v] = pc[v] /\ batch'[v] = batch[v]
        BY <1>0, <2>2 DEF Receive, Drain
      <3> QED
        BY <1>0, <3>1 DEF BatchInv
    <2>3. CASE AppendBlock(w)
      <3>1. batch'[w] = <<>> /\ \A v \in Writers : v # w => pc'[v] = pc[v] /\ batch'[v] = batch[v]
        BY <1>0, <2>3 DEF AppendBlock
      <3> QED
        BY <1>0, <3>1 DEF BatchInv
    <2> QED
      BY <1>3, <2>1, <2>2, <2>3 DEF Writer
  <1>4. CASE Crash
    BY <1>4 DEF Crash, BatchInv
  <1> QED
    BY <1>1, <1>2, <1>3, <1>4 DEF Next, CommitRequest, EmptyListing, vars, writerVars

\* A commit returns only with its WaitGroup at zero, and that takes a Done, and
\* so a good result, for each operation before the end of the loop.
LEMMA WaitStep == LogInv /\ [Next]_vars => IdleInv' /\ WaitInv' /\ OnlyBlobsReturn'
  <1> DEFINE Idle(c) == req[c] = "idle" => next[c] = 1 /\ result[c] = <<>>
             Wait(c) == req[c] = "running" =>
                          /\ next[c] \in 1..Len(ops[c]) + 1
                          /\ wg[c] >= Len(ops[c]) - next[c] + 1
                          /\ wg[c] = Len(ops[c]) - next[c] + 1 => AllDone(c, next[c])
             Answered(c) == req[c] = "done" =>
                          /\ Len(result[c]) = Len(ops[c])
                          /\ \A i \in DOMAIN ops[c] : ops[c][i].kind = "blob" /\ result[c][i] = "url"
             Good(c) == Idle(c) /\ Wait(c) /\ Answered(c)
  <1> SUFFICES ASSUME LogInv, [Next]_vars, NEW c \in Commits PROVE Good(c)'
    BY DEF IdleInv, WaitInv, OnlyBlobsReturn
  <1>0. /\ Good(c) /\ TypeOK
        /\ req \in [Commits -> {"idle", "running", "done", "lost"}]
        /\ ops \in [Commits -> Logs \cup {<<>>}]
        /\ next \in [Commits -> Nat \ {0}]
        /\ wg \in [Commits -> Nat]
        /\ result \in [Commits -> Seq({"url", "error"})]
    BY DEF LogInv, TypeOK, ReqTypes, IdleInv, WaitInv, OnlyBlobsReturn
  <1>1. ASSUME req'[c] = req[c], ops'[c] = ops[c], next'[c] = next[c], wg'[c] = wg[c],
               result'[c] = result[c]
        PROVE  Good(c)'
    BY <1>0, <1>1 DEF AllDone
  <1>2. ops[c] \in Seq(Op) /\ Len(ops[c]) \in Nat /\ DOMAIN ops[c] = 1..Len(ops[c])
    <2>1. <<>> \in Seq(Op)
      OBVIOUS
    <2>2. ops[c] \in Seq(Op)
      BY <1>0, <2>1, LogAssumption
    <2> QED
      BY <2>2
  <1>3. ASSUME NEW log \in Logs, CommitRequest(c, log) PROVE Good(c)'
    <2>1. log \in Seq(Op) /\ Len(log) \in Nat
      BY LogAssumption
    <2>2. next[c] = 1 /\ result[c] = <<>> /\ Len(<<>>) = 0
      BY <1>0, <1>3 DEF CommitRequest
    <2>3. /\ req'[c] = "running" /\ ops'[c] = log /\ wg'[c] = Len(log)
          /\ next'[c] = 1 /\ result'[c] = <<>>
      BY <1>0, <1>3, <2>2 DEF CommitRequest
    <2> QED
      BY <2>1, <2>2, <2>3 DEF AllDone
  <1>4. ASSUME NEW kind, AtOp(c, kind)
        PROVE  /\ next'[c] = next[c] + 1 /\ next[c] <= Len(ops[c]) /\ ops'[c] = ops[c]
               /\ req'[c] = "running" /\ req[c] = "running" /\ next[c] \in Nat
               /\ ops[c][next[c]].kind = kind
    BY <1>0, <1>4 DEF AtOp
  <1>5. CASE Preauth(c)
    <2>1. wg'[c] = wg[c] - 1 /\ result'[c] = Append(result[c], "url")
      BY <1>0, <1>5 DEF Preauth
    <2>2. ASSUME AllDone(c, next[c]) PROVE AllDone(c, next[c])'
      <3> DEFINE n == next[c]
                 res == result[c]
      <3>1. Len(res) = n - 1 /\ res \in Seq({"url", "error"})
            /\ \A i \in 1..n - 1 : ops[c][i].kind = "blob" /\ res[i] = "url"
        BY <1>0, <2>2 DEF AllDone
      <3>3. next'[c] = n + 1 /\ ops'[c] = ops[c] /\ ops[c][n].kind = "blob" /\ n \in Nat
        BY <1>4, <1>5 DEF Preauth
      <3>2. /\ Len(Append(res, "url")) = n /\ Append(res, "url")[n] = "url"
            /\ \A i \in 1..n - 1 : Append(res, "url")[i] = res[i]
        <4> HIDE DEF n, res
        <4>1. Len(res) + 1 = n /\ 1..Len(res) = 1..n - 1
          BY <3>1, <3>3
        <4> QED
          BY <3>1, <4>1, AppendProperties
      <3> HIDE DEF n, res
      <3>4. Len(result[c])' = (next[c])' - 1
        BY <2>1, <3>2, <3>3 DEF res
      <3>5. ASSUME NEW i \in 1..(next[c])' - 1
            PROVE  (ops[c])'[i].kind = "blob" /\ (result[c])'[i] = "url"
        <4>1. i \in 1..n - 1 \/ i = n
          BY <3>3
        <4> QED
          BY <2>1, <3>1, <3>2, <3>3, <4>1 DEF res
      <3> QED
        BY <3>4, <3>5 DEF AllDone
    <2>3. /\ next'[c] = next[c] + 1 /\ next[c] <= Len(ops[c]) /\ ops'[c] = ops[c]
          /\ req'[c] = "running" /\ req[c] = "running" /\ next[c] \in Nat \ {0} /\ wg[c] \in Nat
      BY <1>0, <1>4, <1>5 DEF Preauth
    <2>4. /\ wg[c] >= Len(ops[c]) - next[c] + 1
          /\ wg[c] = Len(ops[c]) - next[c] + 1 => AllDone(c, next[c])
      BY <1>0, <2>3
    <2>5. /\ next'[c] \in 1..Len(ops'[c]) + 1
          /\ wg'[c] >= Len(ops'[c]) - next'[c] + 1
          /\ wg'[c] = Len(ops'[c]) - next'[c] + 1 => AllDone(c, next[c])'
      <3> DEFINE n == next[c]
                 len == Len(ops[c])
                 w == wg[c]
      <3>1. n \in Nat \ {0} /\ len \in Nat /\ w \in Nat /\ n <= len /\ w >= len - n + 1
        BY <1>2, <2>3, <2>4
      <3>2. next'[c] = n + 1 /\ Len(ops'[c]) = len /\ wg'[c] = w - 1
        BY <2>1, <2>3
      <3>3. w = len - n + 1 => AllDone(c, next[c])'
        BY <2>2, <2>4
      <3> HIDE DEF n, len, w
      <3>4. /\ n + 1 \in 1..len + 1
            /\ w - 1 >= len - (n + 1) + 1
            /\ w - 1 = len - (n + 1) + 1 => w = len - n + 1
        BY <3>1
      <3> QED
        BY <3>2, <3>3, <3>4
    <2> QED
      BY <2>3, <2>5
  <1>6. CASE PreauthFails(c) \/ SendEntry(c) \/ SkipOp(c)
    <2>1. wg'[c] = wg[c]
      BY <1>6 DEF PreauthFails, SendEntry, SkipOp
    <2>2. PICK kind \in {"blob", "entry", "other"} : AtOp(c, kind)
      BY <1>6 DEF PreauthFails, SendEntry, SkipOp
    <2>3. /\ next'[c] = next[c] + 1 /\ next[c] <= Len(ops[c]) /\ ops'[c] = ops[c]
          /\ req'[c] = "running" /\ req[c] = "running" /\ next[c] \in Nat \ {0} /\ wg[c] \in Nat
      BY <1>0, <1>4, <2>2
    <2>4. wg[c] >= Len(ops[c]) - next[c] + 1
      BY <1>0, <2>3
    <2>5. next'[c] \in 1..Len(ops'[c]) + 1 /\ wg'[c] > Len(ops'[c]) - next'[c] + 1
      BY <1>2, <2>1, <2>3, <2>4
    <2>6. wg'[c] \in Int /\ Len(ops'[c]) - next'[c] + 1 \in Int
      BY <1>2, <2>1, <2>3
    <2> QED
      BY <2>3, <2>5, <2>6
  <1>7. CASE Respond(c)
    <2>1. /\ req[c] = "running" /\ next[c] > Len(ops[c]) /\ wg[c] = 0
          /\ req'[c] = "done" /\ ops'[c] = ops[c] /\ result'[c] = result[c]
      BY <1>0, <1>7 DEF Respond
    <2>2. next[c] = Len(ops[c]) + 1 /\ AllDone(c, next[c])
      BY <1>0, <1>2, <2>1
    <2> QED
      BY <1>2, <2>1, <2>2 DEF AllDone
  <1>8. ASSUME NEW d \in Commits, d # c, Handler(d) \/ \E log \in Logs : CommitRequest(d, log)
        PROVE  Good(c)'
    <2>1. /\ req'[c] = req[c] /\ ops'[c] = ops[c] /\ next'[c] = next[c] /\ wg'[c] = wg[c]
          /\ result'[c] = result[c]
      BY <1>0, <1>8 DEF Handler, CommitRequest, Preauth, PreauthFails, SendEntry, SkipOp, AtOp, Respond
    <2> QED
      BY <1>1, <2>1
  <1>9. ASSUME NEW w \in Writers, Writer(w) PROVE Good(c)'
    BY <1>1, <1>9 DEF Writer, StartWriter, Receive, Drain, AppendBlock, reqVars
  <1>10. CASE Crash
    <2>1. /\ req'[c] = IF req[c] = "running" THEN "lost" ELSE req[c]
          /\ UNCHANGED <<ops, next, wg, result>>
      BY <1>10 DEF Crash
    <2> QED
      BY <1>0, <2>1
  <1>11. CASE UNCHANGED vars
    BY <1>1, <1>11 DEF vars, reqVars
  <1> QED
    BY <1>3, <1>5, <1>6, <1>7, <1>8, <1>9, <1>10, <1>11 DEF Next, Handler, EmptyListing

\* The initial state satisfies the inductive invariant.
LEMMA InitInv == Init => LogInv
  <1> SUFFICES ASSUME Init PROVE LogInv
    OBVIOUS
  <1>0. \A S : <<>> \in Seq(S) /\ Len(<<>>) = 0 /\ DOMAIN <<>> = {}
    OBVIOUS
  <1>1. TypeOK
    <2>1. ReqTypes
      BY <1>0 DEF Init, ReqTypes
    <2>2. WriterTypes
      BY <1>0, LogAssumption DEF Init, WriterTypes
    <2>3. StoreTypes
      BY <1>0 DEF Init, StoreTypes
    <2> QED
      BY <1>0, <2>1, <2>2, <2>3, LogAssumption DEF Init, TypeOK
  <1>2. \A w \in Writers : Pipeline(w) = <<>>
    <2>1. <<>> \o <<>> \o <<>> = <<>>
      BY ConcatEmptySeq, EmptySeq
    <2> QED
      BY <2>1 DEF Init, Pipeline
  <1>3. PlaceInv /\ OrderedPerDb
    BY <1>0, <1>2 DEF PlaceInv, OrderedPerDb
  <1>4. IdleInv /\ BatchInv /\ WaitInv /\ OnlyBlobsReturn
    BY DEF Init, IdleInv, BatchInv, WaitInv, OnlyBlobsReturn
  <1> QED
    BY <1>1, <1>3, <1>4 DEF LogInv

\* Every reachable state of the log server satisfies the inductive invariant.
THEOREM Invariance == Spec => []LogInv
  <1>1. LogInv /\ [Next]_vars => LogInv'
    BY TypeStep, BatchStep, WaitStep, OrderStep DEF LogInv
  <1> QED
    BY InitInv, <1>1, PTL DEF Spec

\* Channels stay within their capacity, WaitGroups at or above zero, and every
\* variable keeps its type.
THEOREM TypeCorrect == Spec => []TypeOK
  <1>1. LogInv => TypeOK
    BY DEF LogInv
  <1> QED
    BY Invariance, <1>1, PTL

\* The entries of a commit for one database reach the log in their order.
THEOREM Order == Spec => []OrderedPerDb
  <1>1. LogInv => OrderedPerDb
    BY DEF LogInv
  <1> QED
    BY Invariance, <1>1, PTL

\* The wait of a commit never ends when it has a log entry, an operation of
\* another type, or a blob that the store refused (app.go:196-216): the general
\* form of what the run log_hang shows.
THEOREM OthersWait == Spec => []OnlyBlobsReturn
  <1>1. LogInv => OnlyBlobsReturn
    BY DEF LogInv
  <1> QED
    BY Invariance, <1>1, PTL
----------------------------------------------------------------------------
\* How much of its pipeline a writer has appended: a step leaves it, or
\* appends a whole batch, or starts the process anew.
LEMMA AppendedStep ==
  ASSUME LogInv, [Next]_vars
  PROVE  \/ UNCHANGED logged
         \/ \E v \in Writers : /\ AppendBlock(v)
                             /\ UNCHANGED queue
                             /\ logged' = [logged EXCEPT ![v] = @ \o batch[v]]
         \/ Crash /\ logged' = [w \in Writers |-> <<>>]
  BY DEF Next, vars, writerVars, CommitRequest, Handler, Preauth, PreauthFails, SendEntry, SkipOp,
     AtOp, Respond, Writer, StartWriter, Receive, Drain, AppendBlock, EmptyListing, Crash

\* Every step is a step of LogStream, taken by one writer, or changes nothing it sees.
LEMMA StepRefines == LogInv /\ [Next]_vars => [Stream!StreamNext]_(Stream!streamVars)
  <1> SUFFICES ASSUME LogInv, [Next]_vars
               PROVE  Stream!StreamNext \/ UNCHANGED Stream!streamVars
    OBVIOUS
  <1>0. /\ queue \in [Writers -> Seq(Entry)] /\ batch \in [Writers -> Seq(Entry)]
        /\ logged \in [Writers -> Seq(Entry)] /\ TypeOK
    BY DEF LogInv, TypeOK, WriterTypes
  <1>1. CASE Crash
    <2>1. \A w \in Writers : Pipeline(w)' = <<>> /\ Len(logged'[w]) = 0
      <3>1. \A w \in Writers : logged'[w] = <<>> /\ batch'[w] = <<>> /\ queue'[w] = <<>>
        BY <1>1 DEF Crash
      <3>2. <<>> \o <<>> \o <<>> = <<>> /\ Len(<<>>) = 0
        BY ConcatEmptySeq, EmptySeq
      <3> QED
        BY <3>1, <3>2 DEF Pipeline
    <2>2. Stream!Restart
      BY <2>1 DEF Stream!Restart
    <2> QED
      BY <2>2 DEF Stream!StreamNext
  <1>2. ASSUME NEW c \in Commits, SendEntry(c)
        PROVE  Stream!StreamNext
    <2>1. /\ <<c, next[c]>> \in Entry /\ WriterOf(ops[c][next[c]].db) \in Writers
          /\ queue' = [queue EXCEPT ![WriterOf(ops[c][next[c]].db)] = Append(@, <<c, next[c]>>)]
      BY <1>0, <1>2, AtPlace DEF SendEntry
    <2>2. PICK v \in Writers, e \in Entry :
            /\ e[1] = c /\ e[2] = next[c]
            /\ queue' = [queue EXCEPT ![v] = Append(@, e)] /\ UNCHANGED <<batch, logged>>
      BY <1>2, <2>1 DEF SendEntry
    <2>3. \A i \in DOMAIN Pipeline(v) : Pipeline(v)[i] # e
      <3>1. \A i \in DOMAIN Pipeline(v) : Pipeline(v)[i][2] < next[Pipeline(v)[i][1]]
        BY DEF LogInv, PlaceInv
      <3>2. next[c] \in Nat
        BY <1>0 DEF TypeOK, ReqTypes
      <3> QED
        BY <2>2, <3>1, <3>2
    <2>4. \A w \in Writers : Pipeline(w)' = IF w = v THEN Append(Pipeline(w), e) ELSE Pipeline(w)
      <3>1. ASSUME NEW w \in Writers, w # v PROVE Pipeline(w)' = Pipeline(w)
        BY <1>0, <2>2, <3>1 DEF Pipeline
      <3>2. logged[v] \o batch[v] \o Append(queue[v], e) = Append(Pipeline(v), e)
        <4>1. /\ logged[v] \in Seq(Entry) /\ batch[v] \in Seq(Entry) /\ queue[v] \in Seq(Entry)
              /\ e \in Entry
          BY <1>0, <2>2
        <4>2. logged[v] \o batch[v] \o Append(queue[v], e)
              = Append(logged[v] \o batch[v] \o queue[v], e)
          BY <4>1, PipeSend
        <4> QED
          BY <4>2 DEF Pipeline
      <3>3. queue'[v] = Append(queue[v], e) /\ batch'[v] = batch[v] /\ logged'[v] = logged[v]
        BY <1>0, <2>1, <2>2
      <3>4. Pipeline(v)' = Append(Pipeline(v), e)
        BY <3>2, <3>3 DEF Pipeline
      <3> QED
        <4> TAKE w \in Writers
        <4>1. CASE w = v
          BY <3>4, <4>1
        <4>2. CASE w # v
          BY <3>1, <4>2
        <4> QED
          BY <4>1, <4>2
    <2>5. Stream!Take(v, e)
      BY <2>1, <2>2, <2>3, <2>4 DEF Stream!Take
    <2> QED
      BY <2>1, <2>5 DEF Stream!StreamNext
  <1>3. ASSUME NEW v \in Writers, AppendBlock(v), ~Crash, \A c \in Commits : ~SendEntry(c)
        PROVE  Stream!StreamNext \/ UNCHANGED Stream!streamVars
    <2>1. \A w \in Writers : Pipeline(w)' = Pipeline(w)
      BY <1>3, PipelineStep
    <2>2. logged' = [logged EXCEPT ![v] = @ \o batch[v]]
      BY <1>3 DEF AppendBlock
    <2>3. logged[v] \in Seq(Entry) /\ batch[v] \in Seq(Entry) /\ queue[v] \in Seq(Entry)
      BY <1>0
    <2>4. /\ Len(logged[v]) \in Nat /\ Len(logged[v] \o batch[v]) \in Nat /\ Len(Pipeline(v)) \in Nat
          /\ Len(logged[v]) <= Len(logged[v] \o batch[v])
          /\ Len(logged[v] \o batch[v]) <= Len(Pipeline(v))
      BY <2>3, PipeLen DEF Pipeline
    <2>5. PICK k, n, m :
            /\ k \in Nat /\ n \in Nat /\ m \in Nat
            /\ k = Len(logged[v]) /\ n = Len(logged[v] \o batch[v]) /\ m = Len(Pipeline(v))
            /\ k <= n /\ n <= m
      BY <2>4
    <2>6. \A w \in Writers : Len(logged'[w]) = IF w = v THEN n ELSE Len(logged[w])
      BY <1>0, <2>2, <2>5
    <2>0. k \in Nat /\ n \in Nat /\ m \in Nat /\ k <= n /\ n <= m
      BY <2>5
    <2>7. CASE n > k
      <3>1. n \in 1..m /\ n <= m
        BY <2>0, <2>7
      <3>2. Stream!AppendBatch(v, n)
        BY <2>1, <2>5, <2>6, <2>7, <3>1 DEF Stream!AppendBatch
      <3>3. [w \in Writers |-> Pipeline(w)][v] = Pipeline(v)
        OBVIOUS
      <3> QED
        BY <2>5, <3>1, <3>2, <3>3 DEF Stream!StreamNext
    <2>8. CASE ~(n > k)
      <3>1. n = k
        BY <2>0, <2>8
      <3> QED
        BY <2>1, <2>5, <2>6, <3>1 DEF Stream!streamVars
    <2> QED
      BY <2>7, <2>8
  <1>4. ASSUME ~Crash, \A c \in Commits : ~SendEntry(c), \A v \in Writers : ~AppendBlock(v)
        PROVE  UNCHANGED Stream!streamVars
    <2>1. UNCHANGED logged
      BY <1>4, AppendedStep
    <2>2. \A w \in Writers : Pipeline(w)' = Pipeline(w)
      BY <1>4, PipelineStep
    <2> QED
      BY <2>1, <2>2 DEF Stream!streamVars
  <1> QED
    BY <1>1, <1>2, <1>3, <1>4

\* Every writer is a stream of LogStream, from the send in Commit to the call of
\* HashChain.Append, across batches of any size and restarts.
THEOREM Refinement == Spec => ImplementsLogStream
  <1>1. Init => Stream!StreamInit
    <2> SUFFICES ASSUME Init PROVE Stream!StreamInit
      OBVIOUS
    <2>1. <<>> \o <<>> \o <<>> = <<>> /\ Len(<<>>) = 0
      BY ConcatEmptySeq, EmptySeq
    <2>2. \A w \in Writers : Pipeline(w) = <<>> /\ Len(logged[w]) = 0
      BY <2>1 DEF Init, Pipeline
    <2> QED
      BY <2>2 DEF Stream!StreamInit
  <1> QED
    BY <1>1, StepRefines, Invariance, PTL DEF Spec, ImplementsLogStream, Stream!StreamSpec
============================================================================
