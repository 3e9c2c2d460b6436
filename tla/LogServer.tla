----------------------------- MODULE LogServer -----------------------------
(***************************************************************************)
(* The log server of dglog (app.go), with the types of dglib/client.go and *)
(* the object store behind dgstore.                                        *)
(*                                                                         *)
(* POST /commit runs Commit: blobs are answered with a presigned upload    *)
(* url, log entries are sent on the channel of the writer their database   *)
(* hashes to.  Every writer is a goroutine that takes what is queued as a  *)
(* batch and appends it to a HashChain, one object of the store per batch, *)
(* under keys that count down.  A crash loses the channels and requests;   *)
(* the next start reads the store to find where each chain ends.           *)
(*                                                                         *)
(* An entry is known by its commit and its place there; payloads, proofs   *)
(* and tokens carry no state and are left out.                             *)
(***************************************************************************)
EXTENDS Integers, Sequences, FiniteSets

CONSTANTS
  Commits,   \* requests to /commit
  Logs,      \* the Log arrays they may carry: sequences of operations
  Dbs,       \* database ids
  NWriters,  \* 100 in the code
  Cap,       \* capacity of a writer's channel (1000 in the code)
  Top,       \* math.MaxInt64: where StreamEnd starts
  MaxStarts, \* bound: starts of the process
  None

Op      == [kind : {"blob", "entry", "other"}, db : Dbs]
Writers == 0..NWriters - 1
Keys    == 1..Top
WriterOf(d) == d % NWriters

ASSUME LogAssumption ==
  /\ Dbs \subseteq Nat
  /\ Logs \subseteq Seq(Op)
  /\ NWriters \in Nat \ {0}
  /\ Cap \in Nat \ {0}
  /\ Top \in Nat \ {0}
  /\ MaxStarts \in Nat \ {0}

VARIABLES
  starts,  \* how often the process was started
  req,     \* commit: idle running done, or lost with its process
  ops,     \* its Log
  next,    \* index of the operation its loop comes to
  wg,      \* its WaitGroup
  result,  \* its results so far: url or error
  answer,  \* the results in the body of the response
  pc,      \* writer: start, recv (range over the channel), drain
  queue,   \* its channel
  batch,   \* rv
  end,     \* StreamEnd of its HashChain
  blocks,  \* objects of the store: writer -> key -> contents, None when absent
  logged,  \* history: entries handed to Append since the start, in order
  filed    \* history: all batches put, with their keys

reqVars    == <<req, ops, next, wg, result, answer>>
writerVars == <<pc, queue, batch, end, logged>>
storeVars  == <<blocks, filed>>
vars == <<starts, reqVars, writerVars, storeVars>>

Entry == Commits \X UNION {DOMAIN log : log \in Logs}
----------------------------------------------------------------------------
Init ==
  /\ starts = 1
  /\ req = [c \in Commits |-> "idle"]
  /\ ops = [c \in Commits |-> <<>>]
  /\ next = [c \in Commits |-> 1]
  /\ wg = [c \in Commits |-> 0]
  /\ result = [c \in Commits |-> <<>>]
  /\ answer = [c \in Commits |-> <<>>]
  /\ pc = [w \in Writers |-> "start"]
  /\ queue = [w \in Writers |-> <<>>]
  /\ batch = [w \in Writers |-> <<>>]
  /\ end = [w \in Writers |-> 0]
  /\ blocks = [w \in Writers |-> [k \in Keys |-> None]]
  /\ logged = [w \in Writers |-> <<>>]
  /\ filed = [w \in Writers |-> <<>>]
----------------------------------------------------------------------------
(* Commit, one step of its loop at a time.                                 *)

\* The operation the loop of commit c is at.
AtOp(c, kind) ==
  /\ req[c] = "running"
  /\ next[c] <= Len(ops[c])
  /\ ops[c][next[c]].kind = kind
  /\ next' = [next EXCEPT ![c] = @ + 1]
  /\ UNCHANGED <<starts, req, ops, answer, storeVars>>

\* A request is decoded: the WaitGroup expects one Done for each operation.
CommitRequest(c, log) ==
  /\ req[c] = "idle"
  /\ req' = [req EXCEPT ![c] = "running"]
  /\ ops' = [ops EXCEPT ![c] = log]
  /\ wg' = [wg EXCEPT ![c] = Len(log)]
  /\ UNCHANGED <<starts, next, result, answer, writerVars, storeVars>>

\* Mutant: the result of a blob without its Done.
PreauthNotDone(c) ==
  /\ AtOp(c, "blob")
  /\ result' = [result EXCEPT ![c] = Append(@, "url")]
  /\ UNCHANGED <<wg, writerVars>>

\* OpBlob: a presigned url is a result and a Done.
Preauth(c) ==
  /\ AtOp(c, "blob")
  /\ result' = [result EXCEPT ![c] = Append(@, "url")]
  /\ wg' = [wg EXCEPT ![c] = @ - 1]
  /\ UNCHANGED writerVars

\* OpBlob that the store refuses: the loop continues before the Done.
PreauthFails(c) ==
  /\ AtOp(c, "blob")
  /\ result' = [result EXCEPT ![c] = Append(@, "error")]
  /\ UNCHANGED <<wg, writerVars>>

\* Mutant: a channel without a capacity.
SendEntryUnbounded(c) ==
  LET w == WriterOf(ops[c][next[c]].db) IN
  /\ AtOp(c, "entry")
  /\ queue' = [queue EXCEPT ![w] = Append(@, <<c, next[c]>>)]
  /\ UNCHANGED <<wg, result, pc, batch, end, logged>>

\* OpLogEntry: sent to the writer, which never calls Done for it.
SendEntry(c) ==
  LET w == WriterOf(ops[c][next[c]].db) IN
  /\ AtOp(c, "entry")
  /\ Len(queue[w]) < Cap
  /\ queue' = [queue EXCEPT ![w] = Append(@, <<c, next[c]>>)]
  /\ UNCHANGED <<wg, result, pc, batch, end, logged>>

\* OpRevoke, or any other type: no case of the switch.
SkipOp(c) ==
  /\ AtOp(c, "other")
  /\ UNCHANGED <<wg, result, writerVars>>

\* What the handler writes: Commit returned no error, so it writes nothing.
Body(res, err) == IF err THEN res ELSE <<>>

\* wg.Wait is over: Commit marshals tokens and results, the handler returns.
Respond(c) ==
  /\ req[c] = "running"
  /\ next[c] > Len(ops[c])
  /\ wg[c] = 0
  /\ req' = [req EXCEPT ![c] = "done"]
  /\ answer' = [answer EXCEPT ![c] = Body(result[c], FALSE)]
  /\ UNCHANGED <<starts, ops, next, wg, result, writerVars, storeVars>>
----------------------------------------------------------------------------
(* A writer and its HashChain.                                             *)

\* ParseInt(pn, 10, 64) on the name of an object, which is the prefix, with
\* its slashes, and sixteen hexadecimal digits: always an error.
Parsed(key) == None

\* The StreamEnd a chain starts with, given the name of its last object.
NewHashChain(last) == IF Parsed(last) = None THEN Top ELSE Parsed(last) - 1

Stored(w) == {k \in Keys : blocks[w][k] # None}

\* The writer starts: List names the objects of the chain in ascending order,
\* or fails, and then the chain starts at the top as well.
StartWriter(w) ==
  /\ pc[w] = "start"
  /\ \/ \E last \in Stored(w) :
          /\ \A k \in Stored(w) : k <= last
          /\ end' = [end EXCEPT ![w] = NewHashChain(last)]
     \/ end' = [end EXCEPT ![w] = Top]
  /\ pc' = [pc EXCEPT ![w] = "recv"]
  /\ UNCHANGED <<starts, reqVars, queue, batch, logged, storeVars>>

\* r := range ch
Receive(w) ==
  /\ pc[w] = "recv"
  /\ queue[w] # <<>>
  /\ batch' = [batch EXCEPT ![w] = <<Head(queue[w])>>]
  /\ queue' = [queue EXCEPT ![w] = Tail(@)]
  /\ pc' = [pc EXCEPT ![w] = "drain"]
  /\ UNCHANGED <<starts, reqVars, end, logged, storeVars>>

\* Mutant: the batch grows at its front.
DrainReversed(w) ==
  /\ pc[w] = "drain"
  /\ queue[w] # <<>>
  /\ batch' = [batch EXCEPT ![w] = <<Head(queue[w])>> \o @]
  /\ queue' = [queue EXCEPT ![w] = Tail(@)]
  /\ UNCHANGED <<starts, reqVars, pc, end, logged, storeVars>>

\* Mutant: the channel is emptied and the entries dropped.
DrainDrops(w) ==
  /\ pc[w] = "drain"
  /\ queue[w] # <<>>
  /\ queue' = [queue EXCEPT ![w] = Tail(@)]
  /\ UNCHANGED <<starts, reqVars, pc, batch, end, logged, storeVars>>

\* The channel is emptied, while handlers go on sending.
Drain(w) ==
  /\ pc[w] = "drain"
  /\ queue[w] # <<>>
  /\ batch' = [batch EXCEPT ![w] = Append(@, Head(queue[w]))]
  /\ queue' = [queue EXCEPT ![w] = Tail(@)]
  /\ UNCHANGED <<starts, reqVars, pc, end, logged, storeVars>>

\* What a reader made by io.MultiReader() without arguments yields.
Contents(b) == <<>>

\* Mutant: the batch is kept when it was appended.
AppendBlockAgain(w) ==
  /\ pc[w] = "drain"
  /\ queue[w] = <<>>
  /\ end[w] \in Keys
  /\ end' = [end EXCEPT ![w] = @ - 1]
  /\ logged' = [logged EXCEPT ![w] = @ \o batch[w]]
  /\ pc' = [pc EXCEPT ![w] = "recv"]
  /\ UNCHANGED <<starts, reqVars, queue, batch, storeVars>>

\* HashChain.Append: the object is put, or the put fails and nobody looks;
\* StreamEnd goes down in both cases.
AppendBlock(w) ==
  /\ pc[w] = "drain"
  /\ queue[w] = <<>>
  /\ end[w] \in Keys
  /\ end' = [end EXCEPT ![w] = @ - 1]
  /\ logged' = [logged EXCEPT ![w] = @ \o batch[w]]
  /\ batch' = [batch EXCEPT ![w] = <<>>]
  /\ pc' = [pc EXCEPT ![w] = "recv"]
  /\ \/ /\ blocks' = [blocks EXCEPT ![w][end[w]] = Contents(batch[w])]
        /\ filed' = [filed EXCEPT ![w] = Append(@, [key |-> end[w], batch |-> batch[w]])]
     \/ UNCHANGED storeVars
  /\ UNCHANGED <<starts, reqVars, queue>>
----------------------------------------------------------------------------
\* The process ends and is started again: requests and channels are gone.
Crash ==
  /\ starts < MaxStarts
  /\ starts' = starts + 1
  /\ req' = [c \in Commits |-> IF req[c] = "running" THEN "lost" ELSE req[c]]
  /\ pc' = [w \in Writers |-> "start"]
  /\ queue' = [w \in Writers |-> <<>>]
  /\ batch' = [w \in Writers |-> <<>>]
  /\ end' = [w \in Writers |-> 0]
  /\ logged' = [w \in Writers |-> <<>>]
  /\ UNCHANGED <<ops, next, wg, result, answer, storeVars>>

\* A writer whose List succeeds with no name indexes an empty slice: the
\* panic of a goroutine ends the process.
EmptyListing(w) ==
  /\ pc[w] = "start"
  /\ Stored(w) = {}
  /\ Crash
----------------------------------------------------------------------------
Handler(c) ==
  \/ Preauth(c) \/ PreauthFails(c) \/ SendEntry(c) \/ SkipOp(c) \/ Respond(c)

Writer(w) == StartWriter(w) \/ Receive(w) \/ Drain(w) \/ AppendBlock(w)

Next ==
  \/ \E c \in Commits, log \in Logs : CommitRequest(c, log)
  \/ \E c \in Commits : Handler(c)
  \/ \E w \in Writers : Writer(w) \/ EmptyListing(w)
  \/ Crash

Spec == Init /\ [][Next]_vars

(* Goroutines that can run are run; a channel serves its waiting senders in *)
(* the order they came, which makes the sends strongly fair.                *)
Fairness ==
  /\ \A c \in Commits : SF_vars(Handler(c))
  /\ \A w \in Writers : WF_vars(Writer(w))

FairSpec == Spec /\ Fairness
----------------------------------------------------------------------------
ReqTypes ==
  /\ req \in [Commits -> {"idle", "running", "done", "lost"}]
  /\ ops \in [Commits -> Logs \cup {<<>>}]
  /\ next \in [Commits -> Nat \ {0}]
  /\ wg \in [Commits -> Nat]
  /\ result \in [Commits -> Seq({"url", "error"})]
  /\ answer \in [Commits -> Seq({"url", "error"})]

WriterTypes ==
  /\ pc \in [Writers -> {"start", "recv", "drain"}]
  /\ queue \in [Writers -> Seq(Entry)]
  /\ batch \in [Writers -> Seq(Entry)]
  /\ end \in [Writers -> 0..Top]
  /\ logged \in [Writers -> Seq(Entry)]

StoreTypes ==
  /\ blocks \in [Writers -> [Keys -> Seq(Entry) \cup {None}]]
  /\ filed \in [Writers -> Seq([key : Keys, batch : Seq(Entry)])]

\* The types of the variables; a channel never holds more than its capacity.
TypeOK ==
  /\ starts \in 1..MaxStarts
  /\ ReqTypes
  /\ WriterTypes
  /\ StoreTypes
  /\ \A w \in Writers : Len(queue[w]) <= Cap

\* Everything writer w was sent since the start, oldest first.
Pipeline(w) == logged[w] \o batch[w] \o queue[w]

\* "operations are ordered only if they are for the same database": the
\* entries of one commit for one database reach the log in the order of the
\* commit, through the channel and the batches, whatever other commits send.
OrderedPerDb ==
  \A w \in Writers : \A i, j \in DOMAIN Pipeline(w) :
    LET e == Pipeline(w)[i]
        f == Pipeline(w)[j]
    IN  i < j /\ e[1] = f[1] => e[2] < f[2]

\* A commit of blobs returns, whatever the writers do, unless the store
\* refuses one of them or the process ends.
BlobCommitsReturn ==
  \A c \in Commits :
    req[c] = "running" /\ (\A i \in DOMAIN ops[c] : ops[c][i].kind = "blob")
      ~> req[c] \in {"done", "lost"} \/ \E i \in DOMAIN result[c] : result[c][i] = "error"

\* An entry that was sent is handed to Append, unless the process ends before.
EntriesAreAppended ==
  \A c \in Commits, w \in Writers : \A log \in Logs : \A i \in DOMAIN log :
    (\E j \in DOMAIN queue[w] : queue[w][j] = <<c, i>>)
      ~> (\E j \in DOMAIN logged[w] : logged[w][j] = <<c, i>>) \/ pc[w] = "start"

\* The claim of "wait for all writes to complete (or fail or timeout)": the
\* wait of a commit comes to an end.  The code never calls Done for a log
\* entry, nor for a blob that was refused.
CommitReturns == \A c \in Commits : req[c] = "running" ~> req[c] # "running"

\* The claim of "StreamEnd counts down from MaxInt64 so that we can query in
\* ascending order and find the last block": a chain goes on below its last
\* block after a restart, so that no two batches are put under one key.
BlocksAreKept ==
  \A w \in Writers : \A i, j \in DOMAIN filed[w] : filed[w][i].key = filed[w][j].key => i = j
----------------------------------------------------------------------------
Stream == INSTANCE LogStream WITH
  Streams  <- Writers,
  Entries  <- Entry,
  taken    <- [w \in Writers |-> Pipeline(w)],
  appended <- [w \in Writers |-> Len(logged[w])]

\* Every writer is a stream of LogStream: nothing is lost, repeated or
\* reordered between a handler's send and HashChain.Append.
ImplementsLogStream == Stream!StreamSpec
============================================================================
