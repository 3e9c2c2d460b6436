---------------------------- MODULE StreamRelay ----------------------------
(***************************************************************************)
(* The WHIP/WHEP media relay of dgrtc (webrtc.go, whip.go, whep.go; the    *)
(* same files are in dglobby).  A publisher posts an offer to WHIP, a      *)
(* viewer posts one to WHEP, and a stream object, found by its key in      *)
(* streamMap, joins them: every video track of the publisher runs a        *)
(* goroutine (videoWriter) that copies each packet to the sessions of the  *)
(* stream, and a second one that forwards picture-loss indications.        *)
(*                                                                         *)
(* The model is at the level of the locks.  One step is one critical       *)
(* section when nothing can be observed inside it, and several steps where *)
(* a goroutine blocks while it holds a lock (gathering candidates, taking  *)
(* one session lock after another, sending on pliChan) or where readers of *)
(* the RWMutex run side by side (the fan-out of a packet).                 *)
(*                                                                         *)
(* streamMap holds pointers: two objects may live under one key, one after *)
(* the other, and a handler keeps the object it found.                     *)
(***************************************************************************)
EXTENDS Integers, Sequences, FiniteSets

CONSTANTS
  Keys,       \* stream keys (the Authorization header)
  Streams,    \* addresses of stream objects: bounds how many are created
  Pubs,       \* peer connections made by WHIP
  Views,      \* peer connections, and session ids, made by WHEP
  Layers,     \* simulcast layers (RIDs) a publisher may send
  Reqs,       \* goroutines serving /api/layer, /api/sse and /api/status
  None,       \* no stream, no lock holder
  NoLayer,    \* the empty string: no layer was selected
  PliCap,     \* capacity of pliChan (50 in the code)
  SeqMod,     \* 2^16 in the code: sequenceNumber is a uint16
  MaxPackets, \* bound: packets read from one track
  Ops,        \* the control requests clients make
  Failing,    \* the peer connections whose ICE transport may fail
  Lossy       \* the viewers that report picture loss

ASSUME RelayAssumption ==
  /\ None \notin Keys \cup Streams \cup Pubs \cup Views \cup Reqs
  /\ NoLayer \notin Layers
  /\ Pubs \cap Views = {} /\ Pubs \cap Reqs = {} /\ Views \cap Reqs = {}
  /\ PliCap \in Nat \ {0}
  /\ SeqMod \in Nat \ {0, 1}
  /\ MaxPackets \in Nat
  /\ Ops \subseteq {"status", "layers", "change"}
  /\ Failing \subseteq Pubs \cup Views
  /\ Lossy \subseteq Views

VARIABLES
  streamMap,  \* key -> stream object, None when absent
  mapLock,    \* streamMapLock: the handler holding it, or None
  labels,     \* stream -> videoTrackLabels
  pli,        \* stream -> number of indications in pliChan
  sessions,   \* stream -> keys of whepSessions
  sessW,      \* stream -> write holder of whepSessionsLock across steps
  sessR,      \* stream -> read holders of whepSessionsLock
  conn,       \* handler of a publisher or viewer: idle want gather live rejected
  ice,        \* its ICE callback: up, failed (closed, cleanup pending), closed
  key,        \* the key it asked for
  home,       \* the stream object its handler captured
  track,      \* <<publisher, layer>> -> control state of its videoWriter
  left,       \* packets the track may still read
  todo,       \* sessions the range loop over whepSessions has still to visit
  cur,        \* the session in sendVideoPacket
  tmp,        \* the value loaded by sequenceNumber += 1
  pliLoop,    \* whether the goroutine ranging over pliChan runs
  layer,      \* currentLayer of a session
  seq,        \* sequenceNumber of a session
  out,        \* packets written to the viewer's track, oldest first
  ctl,        \* control request: idle want scan send done
  ask,        \* its operation, session and layer
  rest,       \* keys its loop over streamMap has still to visit
  at,         \* the stream it found the session in
  since       \* history: the last layer a viewer asked for, and Len(out) then

relayVars == <<streamMap, mapLock, labels, pli, sessions, sessW, sessR>>
connVars  == <<conn, ice, key, home>>
trackVars == <<track, left, todo, cur, tmp, pliLoop>>
viewVars  == <<layer, seq, out, since>>
ctlVars   == <<ctl, ask, rest, at>>
vars == <<relayVars, connVars, trackVars, viewVars, ctlVars>>

Conns  == Pubs \cup Views
Tracks == Pubs \X Layers

NoAsk == [op |-> "none", view |-> None, layer |-> NoLayer]
----------------------------------------------------------------------------
Init ==
  /\ streamMap = [k \in Keys |-> None]
  /\ mapLock = None
  /\ labels = [s \in Streams |-> <<>>]
  /\ pli = [s \in Streams |-> 0]
  /\ sessions = [s \in Streams |-> {}]
  /\ sessW = [s \in Streams |-> None]
  /\ sessR = [s \in Streams |-> {}]
  /\ conn = [c \in Conns |-> "idle"]
  /\ ice = [c \in Conns |-> "up"]
  /\ key = [c \in Conns |-> None]
  /\ home = [c \in Conns |-> None]
  /\ track = [t \in Tracks |-> "off"]
  /\ left = [t \in Tracks |-> MaxPackets]
  /\ todo = [t \in Tracks |-> {}]
  /\ cur = [t \in Tracks |-> None]
  /\ tmp = [t \in Tracks |-> 0]
  /\ pliLoop = [t \in Tracks |-> FALSE]
  /\ layer = [v \in Views |-> NoLayer]
  /\ seq = [v \in Views |-> 0]
  /\ out = [v \in Views |-> <<>>]
  /\ since = [v \in Views |-> [layer |-> NoLayer, at |-> 0]]
  /\ ctl = [r \in Reqs |-> "idle"]
  /\ ask = [r \in Reqs |-> NoAsk]
  /\ rest = [r \in Reqs |-> {}]
  /\ at = [r \in Reqs |-> None]
----------------------------------------------------------------------------
(* The handlers WHIP and WHEP.                                             *)

\* Mutant: the entry is replaced without looking whether there is one.
getStreamAlways(k, s) ==
  /\ s \notin {home[c] : c \in Conns}
  /\ streamMap' = [streamMap EXCEPT ![k] = s]

\* Mutant: deleted objects are handed out again, like from a pool.
getStreamPooled(k, s) ==
  \/ /\ streamMap[k] # None
     /\ s = streamMap[k]
     /\ UNCHANGED streamMap
  \/ /\ streamMap[k] = None
     /\ s \notin {streamMap[j] : j \in Keys}
     /\ streamMap' = [streamMap EXCEPT ![k] = s]

\* getStream, called with streamMapLock held: s is the object found under k,
\* or a new one that no handler has captured, which is then stored.
getStream(k, s) ==
  \/ /\ streamMap[k] # None
     /\ s = streamMap[k]
     /\ UNCHANGED streamMap
  \/ /\ streamMap[k] = None
     /\ s \notin {home[c] : c \in Conns}
     /\ streamMap' = [streamMap EXCEPT ![k] = s]

\* An HTTP request reaches WHIP or WHEP, which will wait for streamMapLock.
Request(c, k) ==
  /\ conn[c] = "idle"
  /\ conn' = [conn EXCEPT ![c] = "want"]
  /\ key' = [key EXCEPT ![c] = k]
  /\ UNCHANGED <<relayVars, ice, home, trackVars, viewVars, ctlVars>>

\* Take streamMapLock, find or make the stream, set the remote and the local
\* description.  The lock stays taken: the handler waits for gatherComplete.
Negotiate(c, s) ==
  /\ conn[c] = "want"
  /\ mapLock = None
  /\ getStream(key[c], s)
  /\ mapLock' = c
  /\ home' = [home EXCEPT ![c] = s]
  /\ conn' = [conn EXCEPT ![c] = "gather"]
  /\ UNCHANGED <<labels, pli, sessions, sessW, sessR, ice, key, trackVars, viewVars, ctlVars>>

\* The offer is refused by the peer connection after getStream ran: the
\* handler returns an error and the stream it made stays in streamMap.
Reject(c, s) ==
  /\ conn[c] = "want"
  /\ mapLock = None
  /\ getStream(key[c], s)
  /\ home' = [home EXCEPT ![c] = s]
  /\ conn' = [conn EXCEPT ![c] = "rejected"]
  /\ UNCHANGED <<mapLock, labels, pli, sessions, sessW, sessR, ice, key,
                 trackVars, viewVars, ctlVars>>

\* No peer connection or no audio track could be made: nothing was stored.
RejectEarly(c) ==
  /\ conn[c] = "want"
  /\ conn' = [conn EXCEPT ![c] = "rejected"]
  /\ UNCHANGED <<relayVars, ice, key, home, trackVars, viewVars, ctlVars>>

\* Mutant: an answer without the deferred unlock.
WhipAnswerLocked(p) ==
  /\ conn[p] = "gather"
  /\ conn' = [conn EXCEPT ![p] = "live"]
  /\ UNCHANGED <<relayVars, ice, key, home, trackVars, viewVars, ctlVars>>

\* gatherComplete: WHIP returns its answer and releases streamMapLock.
WhipAnswer(p) ==
  /\ conn[p] = "gather"
  /\ mapLock' = None
  /\ conn' = [conn EXCEPT ![p] = "live"]
  /\ UNCHANGED <<streamMap, labels, pli, sessions, sessW, sessR, ice, key, home,
                 trackVars, viewVars, ctlVars>>

\* gatherComplete: WHEP takes whepSessionsLock, stores the new session with
\* no layer selected, returns its answer and releases both locks.
WhepAnswer(v) ==
  /\ conn[v] = "gather"
  /\ sessW[home[v]] = None
  /\ sessR[home[v]] = {}
  /\ sessions' = [sessions EXCEPT ![home[v]] = @ \cup {v}]
  /\ layer' = [layer EXCEPT ![v] = NoLayer]
  /\ mapLock' = None
  /\ conn' = [conn EXCEPT ![v] = "live"]
  /\ UNCHANGED <<streamMap, labels, pli, sessW, sessR, ice, key, home,
                 trackVars, seq, out, since, ctlVars>>
----------------------------------------------------------------------------
(* The ICE callbacks, run by the peer connection's own goroutine from the  *)
(* moment the local description is set.                                    *)

\* The connection failed: the callback closes it.
IceFailed(c) ==
  /\ c \in Failing
  /\ conn[c] \in {"gather", "live"}
  /\ ice[c] = "up"
  /\ ice' = [ice EXCEPT ![c] = "failed"]
  /\ UNCHANGED <<relayVars, conn, key, home, trackVars, viewVars, ctlVars>>

\* The publisher's callback deletes whatever stream is under its key.
deleteStream(p) ==
  /\ ice[p] = "failed"
  /\ mapLock = None
  /\ streamMap' = [streamMap EXCEPT ![key[p]] = None]
  /\ ice' = [ice EXCEPT ![p] = "closed"]
  /\ UNCHANGED <<mapLock, labels, pli, sessions, sessW, sessR, conn, key, home,
                 trackVars, viewVars, ctlVars>>

\* Mutant: the connection is closed and its session forgotten in the map.
DropNothing(v) ==
  /\ ice[v] = "failed"
  /\ ice' = [ice EXCEPT ![v] = "closed"]
  /\ UNCHANGED <<relayVars, conn, key, home, trackVars, viewVars, ctlVars>>

\* The viewer's callback deletes its session from the stream it captured.
DropSession(v) ==
  /\ ice[v] = "failed"
  /\ sessW[home[v]] = None
  /\ sessR[home[v]] = {}
  /\ sessions' = [sessions EXCEPT ![home[v]] = @ \ {v}]
  /\ ice' = [ice EXCEPT ![v] = "closed"]
  /\ UNCHANGED <<streamMap, mapLock, labels, pli, sessW, sessR, conn, key, home,
                 trackVars, viewVars, ctlVars>>

\* The viewer's RTCP reader: a picture-loss indication is queued for the
\* publisher, or dropped when pliChan is full.
ViewerPli(v) ==
  /\ v \in Lossy
  /\ conn[v] \in {"gather", "live"}
  /\ ice[v] = "up"
  /\ pli[home[v]] < PliCap
  /\ pli' = [pli EXCEPT ![home[v]] = @ + 1]
  /\ UNCHANGED <<streamMap, mapLock, labels, sessions, sessW, sessR, connVars,
                 trackVars, viewVars, ctlVars>>
----------------------------------------------------------------------------
(* videoWriter: one goroutine per video track of a publisher.              *)

StreamOf(t) == home[t[1]]

Goto(t, from, to) ==
  /\ track[t] = from
  /\ track' = [track EXCEPT ![t] = to]

OnTrack(t) ==
  /\ Goto(t, "off", "label")
  /\ conn[t[1]] \in {"gather", "live"}
  /\ ice[t[1]] = "up"
  /\ UNCHANGED <<relayVars, connVars, left, todo, cur, tmp, pliLoop, viewVars, ctlVars>>

\* addTrack, under streamMapLock, then the pliChan goroutine is started.
addTrack(t) ==
  LET s == StreamOf(t) IN
  /\ Goto(t, "label", "read")
  /\ mapLock = None
  /\ IF \E i \in DOMAIN labels[s] : labels[s][i] = t[2]
       THEN UNCHANGED labels
       ELSE labels' = [labels EXCEPT ![s] = Append(@, t[2])]
  /\ pliLoop' = [pliLoop EXCEPT ![t] = TRUE]
  /\ UNCHANGED <<streamMap, mapLock, pli, sessions, sessW, sessR, connVars,
                 left, todo, cur, tmp, viewVars, ctlVars>>

ReadPacket(t) ==
  /\ Goto(t, "read", "have")
  /\ ice[t[1]] = "up"
  /\ left[t] > 0
  /\ left' = [left EXCEPT ![t] = @ - 1]
  /\ UNCHANGED <<relayVars, connVars, todo, cur, tmp, pliLoop, viewVars, ctlVars>>

\* The track ended, or its packet could not be parsed: videoWriter returns.
\* The goroutine on pliChan is not stopped.
TrackEnd(t) ==
  /\ Goto(t, "read", "done")
  /\ UNCHANGED <<relayVars, connVars, left, todo, cur, tmp, pliLoop, viewVars, ctlVars>>

\* Mutant: the sessions are copied under the read lock, which is released
\* before the packet is written to them.
BeginFanOutOnCopy(t) ==
  /\ Goto(t, "have", "fan")
  /\ sessW[StreamOf(t)] = None
  /\ todo' = [todo EXCEPT ![t] = sessions[StreamOf(t)]]
  /\ UNCHANGED <<relayVars, connVars, left, cur, tmp, pliLoop, viewVars, ctlVars>>

\* whepSessionsLock.RLock, and the loop over whepSessions begins.
BeginFanOut(t) ==
  /\ Goto(t, "have", "fan")
  /\ sessW[StreamOf(t)] = None
  /\ sessR' = [sessR EXCEPT ![StreamOf(t)] = @ \cup {t}]
  /\ todo' = [todo EXCEPT ![t] = sessions[StreamOf(t)]]
  /\ UNCHANGED <<streamMap, mapLock, labels, pli, sessions, sessW, connVars,
                 left, cur, tmp, pliLoop, viewVars, ctlVars>>

\* sendVideoPacket compares the packet's layer with currentLayer.  Nobody
\* stores the empty string while a reader holds the lock, so the two loads
\* of the code are as good as one.
CheckLayer(t, v) ==
  /\ v \in todo[t]
  /\ \/ /\ layer[v] = NoLayer
        /\ Goto(t, "fan", "claim")
        /\ cur' = [cur EXCEPT ![t] = v]
        /\ UNCHANGED todo
     \/ /\ layer[v] = t[2]
        /\ Goto(t, "fan", "load")
        /\ cur' = [cur EXCEPT ![t] = v]
        /\ UNCHANGED todo
     \/ /\ layer[v] \notin {NoLayer, t[2]}
        /\ track[t] = "fan"
        /\ todo' = [todo EXCEPT ![t] = @ \ {v}]
        /\ UNCHANGED <<track, cur>>
  /\ UNCHANGED <<relayVars, connVars, left, tmp, pliLoop, viewVars, ctlVars>>

\* currentLayer was empty: it becomes this packet's layer.
ClaimLayer(t) ==
  /\ Goto(t, "claim", "load")
  /\ layer' = [layer EXCEPT ![cur[t]] = t[2]]
  /\ UNCHANGED <<relayVars, connVars, left, todo, cur, tmp, pliLoop, seq, out, since, ctlVars>>

\* sequenceNumber += 1 is a load and a store; readers of the lock race on it.
LoadSeq(t) ==
  /\ Goto(t, "load", "store")
  /\ tmp' = [tmp EXCEPT ![t] = seq[cur[t]]]
  /\ UNCHANGED <<relayVars, connVars, left, todo, cur, pliLoop, viewVars, ctlVars>>

\* Mutant: a counter wider than the RTP header's.
StoreSeqWide(t) ==
  /\ Goto(t, "store", "send")
  /\ seq' = [seq EXCEPT ![cur[t]] = tmp[t] + 1]
  /\ UNCHANGED <<relayVars, connVars, left, todo, cur, tmp, pliLoop, layer, out, since, ctlVars>>

StoreSeq(t) ==
  /\ Goto(t, "store", "send")
  /\ seq' = [seq EXCEPT ![cur[t]] = (tmp[t] + 1) % SeqMod]
  /\ UNCHANGED <<relayVars, connVars, left, todo, cur, tmp, pliLoop, layer, out, since, ctlVars>>

\* Mutant: the packet gets the number from before the increment.
SendPacketOld(t) ==
  /\ Goto(t, "send", "fan")
  /\ out' = [out EXCEPT ![cur[t]] = Append(@, [layer |-> t[2], seq |-> tmp[t]])]
  /\ todo' = [todo EXCEPT ![t] = @ \ {cur[t]}]
  /\ cur' = [cur EXCEPT ![t] = None]
  /\ tmp' = [tmp EXCEPT ![t] = 0]
  /\ UNCHANGED <<relayVars, connVars, left, pliLoop, layer, seq, since, ctlVars>>

\* The packet is written with the session's number: the one just stored, or
\* what a racing writer has put there since.
SendPacket(t) ==
  /\ Goto(t, "send", "fan")
  /\ \E n \in {(tmp[t] + 1) % SeqMod, seq[cur[t]]} :
       out' = [out EXCEPT ![cur[t]] = Append(@, [layer |-> t[2], seq |-> n])]
  /\ todo' = [todo EXCEPT ![t] = @ \ {cur[t]}]
  /\ cur' = [cur EXCEPT ![t] = None]
  /\ tmp' = [tmp EXCEPT ![t] = 0]
  /\ UNCHANGED <<relayVars, connVars, left, pliLoop, layer, seq, since, ctlVars>>

\* RUnlock: every session was visited.
EndFanOut(t) ==
  /\ Goto(t, "fan", "read")
  /\ todo[t] = {}
  /\ sessR' = [sessR EXCEPT ![StreamOf(t)] = @ \ {t}]
  /\ UNCHANGED <<streamMap, mapLock, labels, pli, sessions, sessW, connVars,
                 left, todo, cur, tmp, pliLoop, viewVars, ctlVars>>

\* The goroutine on pliChan takes an indication and writes it to its
\* publisher; on a closed connection the write fails and the goroutine ends.
ForwardPli(t) ==
  LET s == StreamOf(t) IN
  /\ pliLoop[t]
  /\ pli[s] > 0
  /\ pli' = [pli EXCEPT ![s] = @ - 1]
  /\ pliLoop' = [pliLoop EXCEPT ![t] = (ice[t[1]] = "up")]
  /\ UNCHANGED <<streamMap, mapLock, labels, sessions, sessW, sessR, connVars,
                 track, left, todo, cur, tmp, viewVars, ctlVars>>
----------------------------------------------------------------------------
(* GetAllStreams, WHEPLayers and WHEPChangeLayer.                          *)

\* A request of one of the three kinds arrives, for a session and a layer.
\* A body without an encodingId asks for the empty layer.
CtlRequest(r, op, v, l) ==
  /\ ctl[r] = "idle"
  /\ ctl' = [ctl EXCEPT ![r] = "want"]
  /\ ask' = [ask EXCEPT ![r] = [op |-> op, view |-> v, layer |-> l]]
  /\ UNCHANGED <<relayVars, connVars, trackVars, viewVars, rest, at>>

CtlLockMap(r) ==
  /\ ctl[r] = "want"
  /\ mapLock = None
  /\ mapLock' = r
  /\ ctl' = [ctl EXCEPT ![r] = "scan"]
  /\ rest' = [rest EXCEPT ![r] = {k \in Keys : streamMap[k] # None /\ ask[r].op # "status"}]
  /\ UNCHANGED <<streamMap, labels, pli, sessions, sessW, sessR, connVars,
                 trackVars, viewVars, ask, at>>

\* Mutant: a read lock where the layer is about to be stored.
TakeSessionsShared(r, k) ==
  LET s == streamMap[k] IN
  /\ ctl[r] = "scan"
  /\ k \in rest[r]
  /\ sessW[s] = None
  /\ UNCHANGED <<streamMap, mapLock, labels, pli, sessions, sessW, sessR, connVars,
                 trackVars, seq, out, ask>>

\* The loop over streamMap write-locks one stream's sessions after another,
\* in any order, and keeps every lock until the function returns.
TakeSessions(r, k) ==
  LET s == streamMap[k] IN
  /\ ctl[r] = "scan"
  /\ k \in rest[r]
  /\ sessW[s] = None
  /\ sessR[s] = {}
  /\ sessW' = [sessW EXCEPT ![s] = r]
  /\ UNCHANGED <<streamMap, mapLock, labels, pli, sessions, sessR, connVars,
                 trackVars, seq, out, ask>>

\* The session is not there: go on with the next stream.
CtlMiss(r, k) ==
  /\ TakeSessions(r, k)
  /\ ask[r].view \notin sessions[streamMap[k]]
  /\ rest' = [rest EXCEPT ![r] = @ \ {k}]
  /\ UNCHANGED <<layer, since, ctl, at>>

\* WHEPLayers found the session: it lists the labels and breaks the loop.
CtlList(r, k) ==
  /\ ask[r].op = "layers"
  /\ TakeSessions(r, k)
  /\ ask[r].view \in sessions[streamMap[k]]
  /\ rest' = [rest EXCEPT ![r] = {}]
  /\ UNCHANGED <<layer, since, ctl, at>>

\* WHEPChangeLayer found the session: it stores the layer, whatever it is,
\* and goes on to send on pliChan.
CtlChange(r, k) ==
  LET v == ask[r].view IN
  /\ ask[r].op = "change"
  /\ TakeSessions(r, k)
  /\ v \in sessions[streamMap[k]]
  /\ layer' = [layer EXCEPT ![v] = ask[r].layer]
  /\ since' = [since EXCEPT ![v] = [layer |-> ask[r].layer, at |-> Len(out[v])]]
  /\ ctl' = [ctl EXCEPT ![r] = "send"]
  /\ rest' = [rest EXCEPT ![r] = @ \ {k}]
  /\ at' = [at EXCEPT ![r] = streamMap[k]]

\* pliChan <- true: a plain send, which waits for room while the handler
\* holds streamMapLock and the session locks it has taken.
CtlSend(r) ==
  /\ ctl[r] = "send"
  /\ pli[at[r]] < PliCap
  /\ pli' = [pli EXCEPT ![at[r]] = @ + 1]
  /\ ctl' = [ctl EXCEPT ![r] = "scan"]
  /\ UNCHANGED <<streamMap, mapLock, labels, sessions, sessW, sessR, connVars,
                 trackVars, viewVars, ask, rest, at>>

\* Mutant: the session locks taken in the loop are never released.
CtlReturnLeaky(r) ==
  /\ ctl[r] = "scan"
  /\ rest[r] = {}
  /\ ctl' = [ctl EXCEPT ![r] = "done"]
  /\ ask' = [ask EXCEPT ![r] = NoAsk]
  /\ at' = [at EXCEPT ![r] = None]
  /\ mapLock' = None
  /\ UNCHANGED <<streamMap, labels, pli, sessions, sessW, sessR, connVars, trackVars, viewVars, rest>>

\* The deferred unlocks.
CtlReturn(r) ==
  /\ ctl[r] = "scan"
  /\ rest[r] = {}
  /\ ctl' = [ctl EXCEPT ![r] = "done"]
  /\ ask' = [ask EXCEPT ![r] = NoAsk]
  /\ at' = [at EXCEPT ![r] = None]
  /\ sessW' = [s \in Streams |-> IF sessW[s] = r THEN None ELSE sessW[s]]
  /\ mapLock' = None
  /\ UNCHANGED <<streamMap, labels, pli, sessions, sessR, connVars, trackVars, viewVars, rest>>
----------------------------------------------------------------------------
Handler(c) ==
  \/ \E k \in Keys : Request(c, k)
  \/ \E s \in Streams : Negotiate(c, s) \/ Reject(c, s)
  \/ RejectEarly(c)
  \/ IceFailed(c)

Publisher(p) == WhipAnswer(p) \/ deleteStream(p)

Viewer(v) == WhepAnswer(v) \/ DropSession(v) \/ ViewerPli(v)

\* The steps of videoWriter between RLock and RUnlock.
FanOut(t) ==
  \/ \E v \in Views : CheckLayer(t, v)
  \/ ClaimLayer(t) \/ LoadSeq(t) \/ StoreSeq(t) \/ SendPacket(t) \/ EndFanOut(t)

Track(t) ==
  \/ OnTrack(t) \/ addTrack(t) \/ ReadPacket(t) \/ TrackEnd(t)
  \/ BeginFanOut(t) \/ FanOut(t) \/ ForwardPli(t)

\* The steps of a control request once it has arrived.
Serve(r) ==
  \/ CtlLockMap(r)
  \/ \E k \in Keys : CtlMiss(r, k) \/ CtlList(r, k) \/ CtlChange(r, k)
  \/ CtlSend(r) \/ CtlReturn(r)

Control(r) ==
  \/ \E op \in Ops, v \in Views, l \in Layers \cup {NoLayer} : CtlRequest(r, op, v, l)
  \/ Serve(r)

Next ==
  \/ \E c \in Conns : Handler(c)
  \/ \E p \in Pubs : Publisher(p)
  \/ \E v \in Views : Viewer(v)
  \/ \E t \in Tracks : Track(t)
  \/ \E r \in Reqs : Control(r)

Spec == Init /\ [][Next]_vars

(* Fairness.  Every goroutine that can run is run.  The lock acquisitions   *)
(* get strong fairness: sync.Mutex hands the lock to a waiter that has been *)
(* starved, and a waiting writer of a sync.RWMutex stops new readers.  No   *)
(* fairness on what clients and networks do: requests, packets, failures.   *)
Acquire(c) == \E s \in Streams : Negotiate(c, s) \/ Reject(c, s)

Fairness ==
  /\ \A c \in Conns : SF_vars(Acquire(c))
  /\ \A p \in Pubs : WF_vars(WhipAnswer(p)) /\ SF_vars(deleteStream(p))
  /\ \A v \in Views : SF_vars(WhepAnswer(v)) /\ SF_vars(DropSession(v))
  /\ \A t \in Tracks : WF_vars(FanOut(t)) /\ WF_vars(ForwardPli(t))
  /\ \A r \in Reqs : SF_vars(Serve(r))

FairSpec == Spec /\ Fairness
----------------------------------------------------------------------------
ConnStates  == {"idle", "want", "gather", "live", "rejected"}
TrackStates == {"off", "label", "read", "have", "fan", "claim", "load", "store", "send", "done"}
InFan       == {"fan", "claim", "load", "store", "send"}
InSend      == {"load", "store", "send"}

Packet == [layer : Layers, seq : 0..SeqMod - 1]

RelayTypes ==
  /\ streamMap \in [Keys -> Streams \cup {None}]
  /\ mapLock \in Pubs \cup Views \cup Reqs \cup {None}
  /\ labels \in [Streams -> Seq(Layers)]
  /\ pli \in [Streams -> 0..PliCap]
  /\ sessions \in [Streams -> SUBSET Views]
  /\ sessW \in [Streams -> Reqs \cup {None}]
  /\ sessR \in [Streams -> SUBSET Tracks]

ConnTypes ==
  /\ conn \in [Conns -> ConnStates]
  /\ ice \in [Conns -> {"up", "failed", "closed"}]
  /\ key \in [Conns -> Keys \cup {None}]
  /\ home \in [Conns -> Streams \cup {None}]

TrackTypes ==
  /\ track \in [Tracks -> TrackStates]
  /\ left \in [Tracks -> 0..MaxPackets]
  /\ todo \in [Tracks -> SUBSET Views]
  /\ cur \in [Tracks -> Views \cup {None}]
  /\ tmp \in [Tracks -> 0..SeqMod - 1]
  /\ pliLoop \in [Tracks -> BOOLEAN]

ViewTypes ==
  /\ layer \in [Views -> Layers \cup {NoLayer}]
  /\ seq \in [Views -> 0..SeqMod - 1]
  /\ out \in [Views -> Seq(Packet)]
  /\ since \in [Views -> [layer : Layers \cup {NoLayer}, at : Nat]]

CtlTypes ==
  /\ ctl \in [Reqs -> {"idle", "want", "scan", "send", "done"}]
  /\ ask \in [Reqs -> [op : Ops \cup {"none"}, view : Views \cup {None},
                        layer : Layers \cup {NoLayer}]]
  /\ rest \in [Reqs -> SUBSET Keys]
  /\ at \in [Reqs -> Streams \cup {None}]

TypeOK == RelayTypes /\ ConnTypes /\ TrackTypes /\ ViewTypes /\ CtlTypes

\* Once a viewer has asked for a layer, every packet written to it until it
\* asks again is of that layer, whatever the tracks of whatever publishers are
\* doing: WHEPChangeLayer stores the layer under the write lock, so that no
\* track can be between its layer check and its write.
SwitchHolds ==
  \A v \in Views :
    since[v].layer # NoLayer =>
      \A i \in DOMAIN out[v] : i > since[v].at => out[v][i].layer = since[v].layer

\* The tracks of stream s that carry layer l.
Carriers(s, l) == {t \in Tracks : StreamOf(t) = s /\ t[2] = l /\ track[t] # "off"}

\* The increment of sequenceNumber under a read lock loses nothing for a
\* viewer that chose its layer before its first packet, as long as one track
\* carries that layer: the numbers are 1, 2, 3, ... modulo 2^16.
SequenceExact ==
  \A v \in Views :
    /\ since[v].layer # NoLayer
    /\ since[v].at = 0
    /\ Cardinality(Carriers(home[v], since[v].layer)) <= 1
    => \A i \in DOMAIN out[v] : out[v][i].seq = i % SeqMod

\* Two tracks race on a session's sequence number only while its layer was
\* never chosen, or when both carry the chosen layer.
RaceNeedsSharedLayer ==
  \A t, u \in Tracks :
    /\ t # u
    /\ track[t] \in InSend
    /\ track[u] \in InSend
    /\ cur[t] = cur[u]
    /\ since[cur[t]].layer # NoLayer
    => t[2] = u[2]

\* Publishers and viewers that gave one key are joined by one object, the one
\* in streamMap, until the ICE callback of a publisher of that key has deleted
\* the entry (which it does even when another publisher is using it).
OneStreamUntilFailure ==
  \A k \in Keys :
    (\A p \in Pubs : key[p] = k => ice[p] # "closed") =>
      \A c \in Conns : key[c] = k /\ home[c] # None => home[c] = streamMap[k]

\* A packet reaches only sessions of its own key.
KeysAreSeparate ==
  \A t \in Tracks : track[t] \in InFan => \A v \in todo[t] : key[v] = key[t[1]]

\* A WHEPChangeLayer that waits for room in pliChan.
Stuck(r) == ctl[r] = "send" /\ pli[at[r]] = PliCap

\* The session locks that the holder of streamMapLock has still to take.
Wanted ==
  IF mapLock \in Views THEN {home[mapLock]}
  ELSE IF mapLock \in Reqs THEN {streamMap[k] : k \in rest[mapLock]}
  ELSE {}

\* The waits for locks close no cycle.  Only the holder of streamMapLock, which is
\* inside of its handler, keeps session locks for writing, and only tracks
\* between RLock and RUnlock of their own stream, where they wait for nothing,
\* keep them for reading; what the holder has still to lock exists and is not
\* locked by itself, as it would be if two keys had one stream object.
LocksAreAcyclic ==
  /\ \A s \in Streams : sessW[s] \in {None, mapLock}
  /\ \A s \in Streams : \A t \in sessR[s] : track[t] \in InFan /\ StreamOf(t) = s
  /\ mapLock \in Conns => conn[mapLock] = "gather"
  /\ mapLock \in Reqs => ctl[mapLock] \in {"scan", "send"}
  /\ \A s \in Wanted : s # None /\ sessW[s] = None

\* The handlers come to an end, provided that a request that waits for room in
\* pliChan waits for a stream some publisher's goroutine still reads from.
\* Without that, one layer request can hold streamMapLock for ever, and with
\* it every later WHIP, WHEP, layer and status request.
HandlersReturn ==
  [](\A r \in Reqs : Stuck(r) => \E t \in Tracks : pliLoop[t] /\ StreamOf(t) = at[r])
    => /\ \A c \in Conns : conn[c] = "want" ~> conn[c] \in {"live", "rejected"}
       /\ \A r \in Reqs : ctl[r] = "want" ~> ctl[r] = "done"

\* A viewer that fails after WHEP has answered is removed from its stream for
\* good, under the same proviso.  (One that fails before WHEP stores its
\* session stays: the callback has already run.)
FailedViewerLeaves ==
  [](\A r \in Reqs : Stuck(r) => \E t \in Tracks : pliLoop[t] /\ StreamOf(t) = at[r])
    => \A v \in Views :
         conn[v] = "live" /\ ice[v] = "failed" ~> [](\A s \in Streams : v \notin sessions[s])
----------------------------------------------------------------------------
Feed == INSTANCE LayerFeed WITH Numbers <- 0..SeqMod - 1

\* The relay gives every viewer the feed that LayerFeed promises.
ImplementsFeed == Feed!FeedSpec
============================================================================
