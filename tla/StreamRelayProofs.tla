------------------------- MODULE StreamRelayProofs -------------------------
(***************************************************************************)
(* Theorems about StreamRelay, for every number of publishers, viewers,    *)
(* layers, requests and stream objects.                                    *)
(*                                                                         *)
(* The argument for SwitchHolds: a track between its layer check and its   *)
(* write holds the read lock of its stream (LockInv); the session it is    *)
(* writing to is a session of that stream, and of no other (HomeInv); so   *)
(* WHEPChangeLayer, which needs the write lock of the stream that has the  *)
(* session, finds no track there (LayerInv).                               *)
(***************************************************************************)
EXTENDS StreamRelay, FiniteSetTheorems, TLAPS

\* Who holds streamMapLock, and what its holder may rely on.
MapInv ==
  /\ \A c \in Conns : conn[c] = "gather" => mapLock = c
  /\ \A r \in Reqs :
       /\ ctl[r] \in {"scan", "send"} =>
            mapLock = r /\ \A k \in rest[r] : streamMap[k] # None
       /\ ctl[r] = "send" => at[r] # None

\* What a handler captured stays, and is there before anything uses it.
HomeInv ==
  /\ \A c \in Conns : conn[c] \in {"idle", "want"} => home[c] = None
  /\ \A c \in Conns : conn[c] \in {"gather", "live"} => home[c] # None
  /\ \A c \in Conns : conn[c] = "idle" \/ key[c] # None
  /\ \A c \in Conns : ice[c] # "up" => conn[c] \in {"gather", "live"}
  /\ \A s \in Streams : \A v \in sessions[s] : home[v] = s /\ conn[v] = "live"
  /\ \A t \in Tracks : track[t] # "off" => conn[t[1]] \in {"gather", "live"}

\* The read lock of a track in its fan-out.
LockInv ==
  \A t \in Tracks :
    /\ track[t] \in InFan => t \in sessR[StreamOf(t)] /\ todo[t] \subseteq sessions[StreamOf(t)]
    /\ track[t] \in {"claim"} \cup InSend => cur[t] \in todo[t]

\* The layer of a session, and of the packets on their way to it.
LayerInv ==
  /\ \A v \in Views : since[v].layer # NoLayer => layer[v] = since[v].layer
  /\ \A v \in Views : conn[v] # "live" => since[v].layer = NoLayer
  /\ \A t \in Tracks : track[t] = "claim" => since[cur[t]].layer = NoLayer
  /\ \A t \in Tracks : track[t] \in InSend => since[cur[t]].layer \in {NoLayer, t[2]}

RelayInv == TypeOK /\ MapInv /\ HomeInv /\ LockInv /\ LayerInv
----------------------------------------------------------------------------
\* A function to sets, or to sequences, keeps its type when one of its values
\* grows by an element of the right kind.
LEMMA GrowSet ==
  ASSUME NEW S, NEW D, NEW f \in [S -> SUBSET D], NEW x, NEW e \in D
  PROVE  [f EXCEPT ![x] = @ \cup {e}] \in [S -> SUBSET D]
  OBVIOUS

\* The same of a sequence that gets one more element.
LEMMA GrowSeq ==
  ASSUME NEW S, NEW D, NEW f \in [S -> Seq(D)], NEW x, NEW e \in D
  PROVE  [f EXCEPT ![x] = Append(@, e)] \in [S -> Seq(D)]
  <1> DEFINE g == [f EXCEPT ![x] = Append(@, e)]
  <1>1. ASSUME NEW y \in S PROVE g[y] \in Seq(D)
    <2>1. f[y] \in Seq(D) /\ Append(f[y], e) \in Seq(D)
      OBVIOUS
    <2>2. g[y] = IF y = x THEN Append(f[y], e) ELSE f[y]
      OBVIOUS
    <2> QED
      BY <2>1, <2>2
  <1>2. g = [y \in S |-> g[y]]
    OBVIOUS
  <1> QED
    BY <1>1, <1>2

\* A sequence number stays a uint16.
LEMMA SeqNumber == \A n \in 0..SeqMod - 1 : (n + 1) % SeqMod \in 0..SeqMod - 1
  BY RelayAssumption

\* The initial state satisfies the inductive invariant.
LEMMA InitInv == Init => RelayInv
  <1> SUFFICES ASSUME Init PROVE RelayInv
    OBVIOUS
  <1> USE DEF Init
  <1>1. TypeOK
    BY RelayAssumption DEF TypeOK, RelayTypes, ConnTypes, TrackTypes, ViewTypes, CtlTypes,
        ConnStates, TrackStates, Packet, Conns, NoAsk
  <1>2. MapInv
    BY DEF MapInv
  <1>3. HomeInv
    BY DEF HomeInv, Conns, Tracks
  <1>4. LockInv
    BY DEF LockInv, InFan, InSend
  <1>5. LayerInv
    BY DEF LayerInv, InSend
  <1> QED
    BY <1>1, <1>2, <1>3, <1>4, <1>5 DEF RelayInv

\* Every step keeps the variables in their types.
LEMMA TypeStep == RelayInv /\ [Next]_vars => TypeOK'
  <1> SUFFICES ASSUME RelayInv, [Next]_vars PROVE TypeOK'
    OBVIOUS
  <1> USE RelayAssumption DEF TypeOK, RelayTypes, ConnTypes, TrackTypes, ViewTypes, CtlTypes,
          ConnStates, TrackStates, Goto, relayVars, connVars, trackVars, viewVars, ctlVars, Conns
  <1>0. TypeOK /\ HomeInv /\ LockInv /\ MapInv
    BY DEF RelayInv
  <1>1. ASSUME NEW c \in Conns, Handler(c) PROVE TypeOK'
    <2>1. ASSUME NEW k \in Keys, Request(c, k) PROVE TypeOK'
      BY <1>0, <2>1 DEF Request
    <2>2. ASSUME NEW s \in Streams, Negotiate(c, s) PROVE TypeOK'
      <3>0. streamMap' \in [Keys -> Streams \cup {None}]
        <4>1. streamMap \in [Keys -> Streams \cup {None}]
          BY <1>0
        <4>2. UNCHANGED streamMap \/ streamMap' = [streamMap EXCEPT ![key[c]] = s]
          BY <2>2 DEF Negotiate, getStream
        <4> QED
          BY <4>1, <4>2
      <3>1. RelayTypes'
        BY <1>0, <2>2, <3>0 DEF Negotiate
      <3>2. ConnTypes'
        BY <1>0, <2>2 DEF Negotiate
      <3>3. TrackTypes' /\ ViewTypes' /\ CtlTypes'
        BY <1>0, <2>2 DEF Negotiate
      <3> QED
        BY <3>1, <3>2, <3>3 DEF TypeOK
    <2>3. ASSUME NEW s \in Streams, Reject(c, s) PROVE TypeOK'
      <3>0. streamMap' \in [Keys -> Streams \cup {None}]
        <4>1. streamMap \in [Keys -> Streams \cup {None}]
          BY <1>0
        <4>2. UNCHANGED streamMap \/ streamMap' = [streamMap EXCEPT ![key[c]] = s]
          BY <2>3 DEF Reject, getStream
        <4> QED
          BY <4>1, <4>2
      <3>1. RelayTypes'
        BY <1>0, <2>3, <3>0 DEF Reject
      <3>2. ConnTypes'
        BY <1>0, <2>3 DEF Reject
      <3>3. TrackTypes' /\ ViewTypes' /\ CtlTypes'
        BY <1>0, <2>3 DEF Reject
      <3> QED
        BY <3>1, <3>2, <3>3 DEF TypeOK
    <2>4. CASE RejectEarly(c)
      BY <1>0, <2>4 DEF RejectEarly
    <2>5. CASE IceFailed(c)
      BY <1>0, <2>5 DEF IceFailed
    <2> QED
      BY <1>1, <2>1, <2>2, <2>3, <2>4, <2>5 DEF Handler
  <1>2. ASSUME NEW p \in Pubs, Publisher(p) PROVE TypeOK'
    <2>1. CASE WhipAnswer(p)
      BY <1>0, <2>1 DEF WhipAnswer
    <2>2. CASE deleteStream(p)
      BY <1>0, <2>2 DEF deleteStream
    <2> QED
      BY <1>2, <2>1, <2>2 DEF Publisher
  <1>3. ASSUME NEW v \in Views, Viewer(v) PROVE TypeOK'
    <2>1. CASE WhepAnswer(v)
      <3>0. sessions' \in [Streams -> SUBSET Views]
        <4>1. sessions \in [Streams -> SUBSET Views]
          BY <1>0
        <4> QED
          BY <2>1, <4>1, GrowSet DEF WhepAnswer
      <3>1. RelayTypes'
        BY <1>0, <2>1, <3>0 DEF WhepAnswer
      <3>2. ConnTypes' /\ TrackTypes' /\ ViewTypes' /\ CtlTypes'
        BY <1>0, <2>1 DEF WhepAnswer
      <3> QED
        BY <3>1, <3>2 DEF TypeOK
    <2>2. CASE DropSession(v)
      BY <1>0, <2>2 DEF DropSession
    <2>3. CASE ViewerPli(v)
      <3>1. RelayTypes'
        BY <1>0, <2>3 DEF ViewerPli, HomeInv
      <3>2. ConnTypes' /\ TrackTypes' /\ ViewTypes' /\ CtlTypes'
        BY <1>0, <2>3 DEF ViewerPli
      <3> QED
        BY <3>1, <3>2 DEF TypeOK
    <2> QED
      BY <1>3, <2>1, <2>2, <2>3 DEF Viewer
  <1>4. ASSUME NEW t \in Tracks, Track(t) PROVE TypeOK'
    <2>0. t[1] \in Pubs /\ t[2] \in Layers /\ (track[t] # "off" => StreamOf(t) \in Streams)
      BY <1>0 DEF Tracks, StreamOf, HomeInv
    <2>1. CASE OnTrack(t)
      BY <1>0, <2>1 DEF OnTrack
    <2>2. CASE addTrack(t)
      <3>0. labels' \in [Streams -> Seq(Layers)]
        <4>1. labels \in [Streams -> Seq(Layers)]
          BY <1>0
        <4>2. [labels EXCEPT ![StreamOf(t)] = Append(@, t[2])] \in [Streams -> Seq(Layers)]
          BY <2>0, <4>1, GrowSeq
        <4> QED
          BY <2>2, <4>1, <4>2 DEF addTrack
      <3>1. RelayTypes'
        BY <1>0, <2>2, <3>0 DEF addTrack
      <3>2. TrackTypes'
        BY <1>0, <2>2 DEF addTrack
      <3>3. ConnTypes' /\ ViewTypes' /\ CtlTypes'
        BY <1>0, <2>2 DEF addTrack
      <3> QED
        BY <3>1, <3>2, <3>3 DEF TypeOK
    <2>3. CASE ReadPacket(t)
      <3>1. left' \in [Tracks -> 0..MaxPackets]
        <4>1. left \in [Tracks -> 0..MaxPackets] /\ left[t] > 0 /\ MaxPackets \in Nat
          BY <1>0, <2>3 DEF ReadPacket
        <4>2. left[t] - 1 \in 0..MaxPackets
          BY <4>1
        <4> QED
          BY <2>3, <4>1, <4>2 DEF ReadPacket
      <3>2. TrackTypes'
        BY <1>0, <2>3, <3>1 DEF ReadPacket
      <3>3. RelayTypes' /\ ConnTypes' /\ ViewTypes' /\ CtlTypes'
        BY <1>0, <2>3 DEF ReadPacket
      <3> QED
        BY <3>2, <3>3 DEF TypeOK
    <2>4. CASE TrackEnd(t)
      BY <1>0, <2>4 DEF TrackEnd
    <2>5. CASE BeginFanOut(t)
      <3>1. RelayTypes'
        BY <1>0, <2>0, <2>5 DEF BeginFanOut
      <3>2. TrackTypes'
        BY <1>0, <2>0, <2>5 DEF BeginFanOut
      <3>3. ConnTypes' /\ ViewTypes' /\ CtlTypes'
        BY <1>0, <2>5 DEF BeginFanOut
      <3> QED
        BY <3>1, <3>2, <3>3 DEF TypeOK
    <2>6. ASSUME NEW v \in Views, CheckLayer(t, v) PROVE TypeOK'
      <3>1. TrackTypes'
        <4>1. CASE cur' = [cur EXCEPT ![t] = v] /\ UNCHANGED todo
          <5>0. track' = [track EXCEPT ![t] = "claim"] \/ track' = [track EXCEPT ![t] = "load"]
                  \/ UNCHANGED track
            BY <2>6 DEF CheckLayer
          <5>1. track' \in [Tracks -> TrackStates]
            BY <1>0, <5>0
          <5>2. cur' \in [Tracks -> Views \cup {None}]
            BY <1>0, <4>1
          <5> QED
            BY <1>0, <2>6, <4>1, <5>1, <5>2 DEF CheckLayer
        <4>2. CASE todo' = [todo EXCEPT ![t] = @ \ {v}] /\ UNCHANGED <<track, cur>>
          BY <1>0, <2>6, <4>2 DEF CheckLayer
        <4> QED
          BY <2>6, <4>1, <4>2 DEF CheckLayer
      <3>2. RelayTypes' /\ ConnTypes' /\ ViewTypes' /\ CtlTypes'
        BY <1>0, <2>6 DEF CheckLayer
      <3> QED
        BY <3>1, <3>2 DEF TypeOK
    <2>7. CASE ClaimLayer(t)
      BY <1>0, <2>0, <2>7 DEF ClaimLayer
    <2>8. CASE LoadSeq(t)
      <3>1. cur[t] \in Views
        BY <1>0, <2>8 DEF LoadSeq, LockInv, InSend
      <3>2. TrackTypes'
        BY <1>0, <2>8, <3>1 DEF LoadSeq
      <3>3. RelayTypes' /\ ConnTypes' /\ ViewTypes' /\ CtlTypes'
        BY <1>0, <2>8 DEF LoadSeq
      <3> QED
        BY <3>2, <3>3 DEF TypeOK
    <2>9. CASE StoreSeq(t)
      <3>1. (tmp[t] + 1) % SeqMod \in 0..SeqMod - 1
        BY <1>0, SeqNumber
      <3>2. ViewTypes'
        BY <1>0, <2>9, <3>1 DEF StoreSeq
      <3>3. RelayTypes' /\ ConnTypes' /\ TrackTypes' /\ CtlTypes'
        BY <1>0, <2>9 DEF StoreSeq
      <3> QED
        BY <3>2, <3>3 DEF TypeOK
    <2>10. CASE SendPacket(t)
      <3>1. cur[t] \in Views
        BY <1>0, <2>10 DEF SendPacket, LockInv, InSend
      <3>2. TrackTypes'
        BY <1>0, <2>10 DEF SendPacket
      <3>3. ViewTypes'
        <4>1. (tmp[t] + 1) % SeqMod \in 0..SeqMod - 1
          BY <1>0, SeqNumber
        <4>2. PICK n \in {(tmp[t] + 1) % SeqMod, seq[cur[t]]} :
                out' = [out EXCEPT ![cur[t]] = Append(@, [layer |-> t[2], seq |-> n])]
          BY <2>10 DEF SendPacket
        <4>3. [layer |-> t[2], seq |-> n] \in Packet
          <5>1. seq[cur[t]] \in 0..SeqMod - 1
            BY <1>0, <3>1
          <5> QED
            BY <2>0, <4>1, <4>2, <5>1 DEF Packet
        <4>4. out \in [Views -> Seq(Packet)]
          BY <1>0
        <4>5. out' \in [Views -> Seq(Packet)]
          <5> DEFINE pkt == [layer |-> t[2], seq |-> n]
          <5>1. [out EXCEPT ![cur[t]] = Append(@, pkt)] \in [Views -> Seq(Packet)]
            <6> HIDE DEF pkt
            <6>1. pkt \in Packet
              BY <4>3 DEF pkt
            <6> QED
              BY <4>4, <6>1, GrowSeq
          <5> QED
            BY <4>2, <5>1
        <4> QED
          BY <1>0, <2>10, <4>5 DEF SendPacket
      <3>4. RelayTypes' /\ ConnTypes' /\ CtlTypes'
        BY <1>0, <2>10 DEF SendPacket
      <3> QED
        BY <3>2, <3>3, <3>4 DEF TypeOK
    <2>11. CASE EndFanOut(t)
      BY <1>0, <2>11 DEF EndFanOut
    <2>12. CASE ForwardPli(t)
      <3>0. pli' \in [Streams -> 0..PliCap]
        <4>1. pli \in [Streams -> 0..PliCap] /\ pli[StreamOf(t)] > 0
          BY <1>0, <2>12 DEF ForwardPli
        <4>2. pli' = [pli EXCEPT ![StreamOf(t)] = @ - 1]
          BY <2>12 DEF ForwardPli
        <4>3. ASSUME NEW s \in Streams PROVE pli'[s] \in 0..PliCap
          BY <4>1, <4>2
        <4> QED
          BY <4>1, <4>2, <4>3
      <3>1. RelayTypes'
        BY <1>0, <2>12, <3>0 DEF ForwardPli
      <3>2. TrackTypes'
        BY <1>0, <2>0, <2>12 DEF ForwardPli
      <3>3. ConnTypes' /\ ViewTypes' /\ CtlTypes'
        BY <1>0, <2>12 DEF ForwardPli
      <3> QED
        BY <3>1, <3>2, <3>3 DEF TypeOK
    <2> QED
      BY <1>4, <2>1, <2>2, <2>3, <2>4, <2>5, <2>6, <2>7, <2>8, <2>9, <2>10, <2>11, <2>12
      DEF Track, FanOut
  <1>5. ASSUME NEW r \in Reqs, Control(r) PROVE TypeOK'
    <2>1. ASSUME NEW op \in Ops, NEW v \in Views, NEW l \in Layers \cup {NoLayer},
                 CtlRequest(r, op, v, l)
          PROVE TypeOK'
      BY <1>0, <2>1 DEF CtlRequest
    <2>2. CASE CtlLockMap(r)
      BY <1>0, <2>2 DEF CtlLockMap
    <2>3. ASSUME NEW k \in Keys, CtlMiss(r, k) PROVE TypeOK'
      BY <1>0, <2>3 DEF CtlMiss, TakeSessions
    <2>4. ASSUME NEW k \in Keys, CtlList(r, k) PROVE TypeOK'
      BY <1>0, <2>4 DEF CtlList, TakeSessions
    <2>5. ASSUME NEW k \in Keys, CtlChange(r, k) PROVE TypeOK'
      <3>1. streamMap[k] \in Streams
        BY <1>0, <2>5 DEF CtlChange, TakeSessions, MapInv
      <3>2. ask[r].view \in Views /\ ask[r].layer \in Layers \cup {NoLayer}
        BY <1>0, <2>5, <3>1 DEF CtlChange
      <3>3. RelayTypes'
        BY <1>0, <2>5 DEF CtlChange, TakeSessions
      <3>4. ViewTypes'
        BY <1>0, <2>5, <3>2 DEF CtlChange, TakeSessions
      <3>5. CtlTypes'
        BY <1>0, <2>5, <3>1 DEF CtlChange, TakeSessions
      <3>6. ConnTypes' /\ TrackTypes'
        BY <1>0, <2>5 DEF CtlChange, TakeSessions
      <3> QED
        BY <3>3, <3>4, <3>5, <3>6 DEF TypeOK
    <2>6. CASE CtlSend(r)
      <3>1. RelayTypes'
        BY <1>0, <2>6 DEF CtlSend, MapInv
      <3>2. CtlTypes'
        BY <1>0, <2>6 DEF CtlSend
      <3>3. ConnTypes' /\ TrackTypes' /\ ViewTypes'
        BY <1>0, <2>6 DEF CtlSend
      <3> QED
        BY <3>1, <3>2, <3>3 DEF TypeOK
    <2>7. CASE CtlReturn(r)
      <3>1. RelayTypes'
        BY <1>0, <2>7 DEF CtlReturn
      <3>2. CtlTypes'
        BY <1>0, <2>7 DEF CtlReturn, NoAsk
      <3>3. ConnTypes' /\ TrackTypes' /\ ViewTypes'
        BY <1>0, <2>7 DEF CtlReturn
      <3> QED
        BY <3>1, <3>2, <3>3 DEF TypeOK
    <2> QED
      BY <1>5, <2>1, <2>2, <2>3, <2>4, <2>5, <2>6, <2>7 DEF Control, Serve
  <1>6. CASE UNCHANGED vars
    BY <1>0, <1>6 DEF vars
  <1> QED
    BY <1>1, <1>2, <1>3, <1>4, <1>5, <1>6 DEF Next


\* A track's own steps leave the handlers alone.
LEMMA TrackFrame ==
  ASSUME NEW t \in Tracks, Track(t)
  PROVE  UNCHANGED <<streamMap, mapLock, sessions, sessW, connVars, since, ctlVars>>
  BY DEF Track, FanOut, OnTrack, addTrack, ReadPacket, TrackEnd, BeginFanOut, CheckLayer,
         ClaimLayer, LoadSeq, StoreSeq, SendPacket, EndFanOut, ForwardPli,
         relayVars, viewVars, connVars, ctlVars

\* A handler's steps leave the tracks and the sessions alone.
LEMMA HandlerFrame ==
  ASSUME NEW c \in Conns, Handler(c)
  PROVE  UNCHANGED <<trackVars, viewVars, ctlVars, sessions, sessR>>
  BY DEF Handler, Request, Negotiate, Reject, RejectEarly, IceFailed,
         relayVars, viewVars, trackVars, ctlVars

\* A control request changes nothing of streams, connections and tracks.
LEMMA ControlFrame ==
  ASSUME NEW r \in Reqs, Control(r)
  PROVE  UNCHANGED <<streamMap, sessions, sessR, connVars, trackVars, out>>
  BY DEF Control, Serve, CtlRequest, CtlLockMap, CtlMiss, CtlList, CtlChange, CtlSend,
         CtlReturn, TakeSessions, relayVars, viewVars, connVars, trackVars

\* Every step keeps what is known of streamMap and its lock.
LEMMA MapStep == RelayInv /\ [Next]_vars => MapInv'
  <1> SUFFICES ASSUME RelayInv, [Next]_vars PROVE MapInv'
    OBVIOUS
  <1>0. TypeOK /\ MapInv
    BY DEF RelayInv
  <1> USE RelayAssumption DEF MapInv, TypeOK, RelayTypes, ConnTypes, CtlTypes, Conns
  <1>1. ASSUME NEW c \in Conns, Handler(c) PROVE MapInv'
    <2>1. ASSUME mapLock = None, UNCHANGED <<ctl, rest, at>>
          PROVE  \A r \in Reqs : ctl[r] \notin {"scan", "send"}
      BY <1>0, <2>1
    <2>2. ASSUME NEW k \in Keys, Request(c, k) PROVE MapInv'
      BY <1>0, <2>2 DEF Request, relayVars, ctlVars
    <2>3. ASSUME NEW s \in Streams, Negotiate(c, s) PROVE MapInv'
      BY <1>0, <2>1, <2>3 DEF Negotiate, ctlVars
    <2>4. ASSUME NEW s \in Streams, Reject(c, s) PROVE MapInv'
      BY <1>0, <2>1, <2>4 DEF Reject, ctlVars
    <2>5. CASE RejectEarly(c)
      BY <1>0, <2>5 DEF RejectEarly, relayVars, ctlVars
    <2>6. CASE IceFailed(c)
      BY <1>0, <2>6 DEF IceFailed, relayVars, ctlVars
    <2> QED
      BY <1>1, <2>2, <2>3, <2>4, <2>5, <2>6 DEF Handler
  <1>2. ASSUME NEW p \in Pubs, Publisher(p) PROVE MapInv'
    <2>1. CASE WhipAnswer(p)
      BY <1>0, <2>1 DEF WhipAnswer, ctlVars
    <2>2. CASE deleteStream(p)
      BY <1>0, <2>2 DEF deleteStream, ctlVars
    <2> QED
      BY <1>2, <2>1, <2>2 DEF Publisher
  <1>3. ASSUME NEW v \in Views, Viewer(v) PROVE MapInv'
    <2>1. CASE WhepAnswer(v)
      BY <1>0, <2>1 DEF WhepAnswer, ctlVars
    <2>2. CASE DropSession(v)
      BY <1>0, <2>2 DEF DropSession, ctlVars
    <2>3. CASE ViewerPli(v)
      BY <1>0, <2>3 DEF ViewerPli, connVars, ctlVars
    <2> QED
      BY <1>3, <2>1, <2>2, <2>3 DEF Viewer
  <1>4. ASSUME NEW t \in Tracks, Track(t) PROVE MapInv'
    BY <1>0, <1>4, TrackFrame DEF connVars, ctlVars
  <1>5. ASSUME NEW r \in Reqs, Control(r) PROVE MapInv'
    <2>1. ASSUME NEW op \in Ops, NEW v \in Views, NEW l \in Layers \cup {NoLayer},
                 CtlRequest(r, op, v, l)
          PROVE MapInv'
      BY <1>0, <2>1 DEF CtlRequest, relayVars, connVars
    <2>2. CASE CtlLockMap(r)
      BY <1>0, <2>2 DEF CtlLockMap, connVars
    <2>3. ASSUME NEW k \in Keys, CtlMiss(r, k) \/ CtlList(r, k) PROVE MapInv'
      BY <1>0, <2>3 DEF CtlMiss, CtlList, TakeSessions, connVars
    <2>4. ASSUME NEW k \in Keys, CtlChange(r, k) PROVE MapInv'
      BY <1>0, <2>4 DEF CtlChange, TakeSessions, connVars
    <2>5. CASE CtlSend(r)
      BY <1>0, <2>5 DEF CtlSend, connVars
    <2>6. CASE CtlReturn(r)
      BY <1>0, <2>6 DEF CtlReturn, connVars
    <2> QED
      BY <1>5, <2>1, <2>2, <2>3, <2>4, <2>5, <2>6 DEF Control, Serve
  <1>6. CASE UNCHANGED vars
    BY <1>0, <1>6 DEF vars, relayVars, connVars, ctlVars
  <1> QED
    BY <1>1, <1>2, <1>3, <1>4, <1>5, <1>6 DEF Next

\* Every step keeps what is known of where sessions and handlers belong.
LEMMA HomeStep == RelayInv /\ [Next]_vars => HomeInv'
  <1> SUFFICES ASSUME RelayInv, [Next]_vars PROVE HomeInv'
    OBVIOUS
  <1>0. TypeOK /\ HomeInv
    BY DEF RelayInv
  <1> USE RelayAssumption DEF HomeInv, TypeOK, RelayTypes, ConnTypes, Conns, Tracks
  <1>1. ASSUME NEW c \in Conns, Handler(c) PROVE HomeInv'
    <2>1. ASSUME NEW k \in Keys, Request(c, k) PROVE HomeInv'
      BY <1>0, <2>1 DEF Request, relayVars, trackVars
    <2>2. ASSUME NEW s \in Streams, Negotiate(c, s) PROVE HomeInv'
      BY <1>0, <2>2 DEF Negotiate, trackVars
    <2>3. ASSUME NEW s \in Streams, Reject(c, s) PROVE HomeInv'
      BY <1>0, <2>3 DEF Reject, trackVars
    <2>4. CASE RejectEarly(c)
      BY <1>0, <2>4 DEF RejectEarly, relayVars, trackVars
    <2>5. CASE IceFailed(c)
      BY <1>0, <2>5 DEF IceFailed, relayVars, trackVars
    <2> QED
      BY <1>1, <2>1, <2>2, <2>3, <2>4, <2>5 DEF Handler
  <1>2. ASSUME NEW p \in Pubs, Publisher(p) PROVE HomeInv'
    <2>1. CASE WhipAnswer(p)
      BY <1>0, <2>1 DEF WhipAnswer, trackVars
    <2>2. CASE deleteStream(p)
      BY <1>0, <2>2 DEF deleteStream, trackVars
    <2> QED
      BY <1>2, <2>1, <2>2 DEF Publisher
  <1>3. ASSUME NEW v \in Views, Viewer(v) PROVE HomeInv'
    <2>1. CASE WhepAnswer(v)
      BY <1>0, <2>1 DEF WhepAnswer, trackVars
    <2>2. CASE DropSession(v)
      BY <1>0, <2>2 DEF DropSession, trackVars
    <2>3. CASE ViewerPli(v)
      BY <1>0, <2>3 DEF ViewerPli, connVars, trackVars
    <2> QED
      BY <1>3, <2>1, <2>2, <2>3 DEF Viewer
  <1>4. ASSUME NEW t \in Tracks, Track(t) PROVE HomeInv'
    <2>1. \A u \in Tracks : track'[u] # "off" => conn[u[1]] \in {"gather", "live"}
      <3>1. CASE OnTrack(t)
        BY <1>0, <3>1 DEF OnTrack, Goto, TrackTypes
      <3>2. CASE ~OnTrack(t)
        <4>1. ASSUME NEW x, NEW y, x # "off", Goto(t, x, y)
              PROVE  \A u \in Tracks : track'[u] # "off" => conn[u[1]] \in {"gather", "live"}
          BY <1>0, <4>1 DEF Goto, TrackTypes
        <4>2. ASSUME UNCHANGED track
              PROVE  \A u \in Tracks : track'[u] # "off" => conn[u[1]] \in {"gather", "live"}
          BY <1>0, <4>2
        <4>3. CASE addTrack(t) \/ ReadPacket(t) \/ TrackEnd(t) \/ BeginFanOut(t)
          BY <4>1, <4>3 DEF addTrack, ReadPacket, TrackEnd, BeginFanOut
        <4>4. ASSUME NEW v \in Views, CheckLayer(t, v)
              PROVE  \A u \in Tracks : track'[u] # "off" => conn[u[1]] \in {"gather", "live"}
          BY <4>1, <4>2, <4>4 DEF CheckLayer
        <4>5. CASE ClaimLayer(t) \/ LoadSeq(t) \/ StoreSeq(t) \/ SendPacket(t) \/ EndFanOut(t)
          BY <4>1, <4>5 DEF ClaimLayer, LoadSeq, StoreSeq, SendPacket, EndFanOut
        <4>6. CASE ForwardPli(t)
          BY <4>2, <4>6 DEF ForwardPli
        <4> QED
          BY <1>4, <3>2, <4>3, <4>4, <4>5, <4>6 DEF Track, FanOut
      <3> QED
        BY <3>1, <3>2
    <2> QED
      BY <1>0, <1>4, <2>1, TrackFrame DEF connVars
  <1>5. ASSUME NEW r \in Reqs, Control(r) PROVE HomeInv'
    BY <1>0, <1>5, ControlFrame DEF connVars, trackVars
  <1>6. CASE UNCHANGED vars
    BY <1>0, <1>6 DEF vars, relayVars, connVars, trackVars
  <1> QED
    BY <1>1, <1>2, <1>3, <1>4, <1>5, <1>6 DEF Next

\* A track enters its fan-out holding the read lock, with the sessions of its
\* stream to visit, and nobody changes those sessions until it leaves.
LEMMA LockStep == RelayInv /\ [Next]_vars => LockInv'
  <1> SUFFICES ASSUME RelayInv, [Next]_vars PROVE LockInv'
    OBVIOUS
  <1>0. TypeOK /\ HomeInv /\ LockInv
    BY DEF RelayInv
  <1> USE RelayAssumption DEF LockInv, InFan, InSend, StreamOf, TypeOK, RelayTypes, ConnTypes,
                              TrackTypes, Tracks, Conns
  <1>1. ASSUME NEW c \in Conns, Handler(c) PROVE LockInv'
    <2>1. \A t \in Tracks : track[t] # "off" => home'[t[1]] = home[t[1]]
      BY <1>0, <1>1 DEF Handler, Request, Negotiate, Reject, RejectEarly, IceFailed, HomeInv
    <2> QED
      BY <1>0, <1>1, <2>1, HandlerFrame DEF trackVars
  <1>2. ASSUME NEW p \in Pubs, Publisher(p) PROVE LockInv'
    BY <1>0, <1>2 DEF Publisher, WhipAnswer, deleteStream, trackVars
  <1>3. ASSUME NEW v \in Views, Viewer(v) PROVE LockInv'
    <2>1. CASE WhepAnswer(v)
      BY <1>0, <2>1 DEF WhepAnswer, trackVars
    <2>2. CASE DropSession(v)
      <3>1. \A t \in Tracks : track[t] \in InFan => sessions'[StreamOf(t)] = sessions[StreamOf(t)]
        BY <1>0, <2>2 DEF DropSession
      <3> QED
        BY <1>0, <2>2, <3>1 DEF DropSession, trackVars
    <2>3. CASE ViewerPli(v)
      BY <1>0, <2>3 DEF ViewerPli, connVars, trackVars
    <2> QED
      BY <1>3, <2>1, <2>2, <2>3 DEF Viewer
  <1>4. ASSUME NEW t \in Tracks, Track(t) PROVE LockInv'
    <2>0. UNCHANGED <<sessions, home>>
      BY <1>4, TrackFrame DEF connVars
    <2>1. CASE OnTrack(t)
      BY <1>0, <2>0, <2>1 DEF OnTrack, Goto, relayVars
    <2>2. CASE addTrack(t)
      BY <1>0, <2>0, <2>2 DEF addTrack, Goto
    <2>3. CASE ReadPacket(t) \/ TrackEnd(t)
      BY <1>0, <2>0, <2>3 DEF ReadPacket, TrackEnd, Goto, relayVars
    <2>4. CASE BeginFanOut(t)
      <3>1. track[t] = "have" /\ home[t[1]] \in Streams
        <4>1. track[t] = "have" /\ t[1] \in Conns
          BY <2>4 DEF BeginFanOut, Goto
        <4>2. conn[t[1]] \in {"gather", "live"}
          <5>1. \A u \in Tracks : track[u] # "off" => conn[u[1]] \in {"gather", "live"}
            BY <1>0 DEF HomeInv
          <5> QED
            BY <4>1, <5>1
        <4>3. home[t[1]] # None
          <5>1. \A c \in Conns : conn[c] \in {"gather", "live"} => home[c] # None
            BY <1>0 DEF HomeInv
          <5> QED
            BY <4>1, <4>2, <5>1
        <4>4. home[t[1]] \in Streams \cup {None}
          BY <1>0, <4>1
        <4> QED
          BY <4>1, <4>3, <4>4
      <3>2. track' = [track EXCEPT ![t] = "fan"]
            /\ sessR' = [sessR EXCEPT ![home[t[1]]] = @ \cup {t}]
            /\ todo' = [todo EXCEPT ![t] = sessions[home[t[1]]]] /\ UNCHANGED cur
        BY <2>4 DEF BeginFanOut, Goto
      <3>3. ASSUME NEW u \in Tracks, u # t
            PROVE  /\ track'[u] = track[u] /\ todo'[u] = todo[u]
                   /\ sessR[home[u[1]]] \subseteq sessR'[home[u[1]]] \/ home[u[1]] \notin Streams
        BY <1>0, <3>2, <3>3
      <3>4. ASSUME NEW u \in Tracks, track[u] # "off" PROVE home[u[1]] \in Streams
        BY <1>0, <3>4 DEF HomeInv
      <3>5. track'[t] = "fan" /\ t \in sessR'[home[t[1]]] /\ todo'[t] = sessions[home[t[1]]]
        BY <1>0, <3>1, <3>2
      <3> QED
        BY <1>0, <2>0, <3>2, <3>3, <3>4, <3>5
    <2>5. ASSUME NEW v \in Views, CheckLayer(t, v) PROVE LockInv'
      BY <1>0, <2>0, <2>5 DEF CheckLayer, Goto, relayVars
    <2>6. CASE ClaimLayer(t) \/ LoadSeq(t) \/ StoreSeq(t)
      BY <1>0, <2>0, <2>6 DEF ClaimLayer, LoadSeq, StoreSeq, Goto, relayVars
    <2>7. CASE SendPacket(t)
      BY <1>0, <2>0, <2>7 DEF SendPacket, Goto, relayVars
    <2>8. CASE EndFanOut(t)
      BY <1>0, <2>0, <2>8 DEF EndFanOut, Goto
    <2>9. CASE ForwardPli(t)
      BY <1>0, <2>0, <2>9 DEF ForwardPli
    <2> QED
      BY <1>4, <2>1, <2>2, <2>3, <2>4, <2>5, <2>6, <2>7, <2>8, <2>9 DEF Track, FanOut
  <1>5. ASSUME NEW r \in Reqs, Control(r) PROVE LockInv'
    BY <1>0, <1>5, ControlFrame DEF connVars, trackVars
  <1>6. CASE UNCHANGED vars
    BY <1>0, <1>6 DEF vars, relayVars, connVars, trackVars
  <1> QED
    BY <1>1, <1>2, <1>3, <1>4, <1>5, <1>6 DEF Next

\* WHEPChangeLayer finds no track between its layer check and its write for
\* the session it is about to change.
LEMMA ChangeExcludes ==
  ASSUME RelayInv, NEW r \in Reqs, NEW k \in Keys, CtlChange(r, k), NEW t \in Tracks,
         track[t] \in {"claim"} \cup InSend
  PROVE  cur[t] # ask[r].view
  <1>1. ask[r].view \in sessions[streamMap[k]] /\ sessR[streamMap[k]] = {}
    BY DEF CtlChange, TakeSessions
  <1>2. streamMap[k] \in Streams
    BY DEF CtlChange, TakeSessions, RelayInv, MapInv, TypeOK, RelayTypes
  <1>3. home[ask[r].view] = streamMap[k]
    BY <1>1, <1>2 DEF RelayInv, HomeInv
  <1>4. track[t] \in InFan
    BY DEF InFan, InSend
  <1>5. t \in sessR[StreamOf(t)] /\ cur[t] \in sessions[StreamOf(t)] /\ StreamOf(t) \in Streams
    BY <1>4 DEF RelayInv, LockInv, HomeInv, InFan, TypeOK, ConnTypes, StreamOf, Tracks, Conns
  <1>6. home[cur[t]] = StreamOf(t)
    BY <1>5 DEF RelayInv, HomeInv
  <1> QED
    BY <1>1, <1>3, <1>5, <1>6

\* Every step keeps what is known of fan-outs, layers and read locks.
LEMMA LayerStep == RelayInv /\ [Next]_vars => LayerInv'
  <1> SUFFICES ASSUME RelayInv, [Next]_vars PROVE LayerInv'
    OBVIOUS
  <1>0. TypeOK /\ HomeInv /\ LockInv /\ LayerInv
    BY DEF RelayInv
  <1>00. \A t \in Tracks : track[t] \in {"claim"} \cup InSend => cur[t] \in Views
    BY <1>0 DEF LockInv, TypeOK, TrackTypes
  <1> USE RelayAssumption DEF LayerInv, InSend, TypeOK, ConnTypes, TrackTypes, ViewTypes, Conns
  <1>1. ASSUME NEW c \in Conns, Handler(c) PROVE LayerInv'
    <2>1. \A v \in Views : conn[v] = "live" => conn'[v] = "live"
      BY <1>0, <1>1 DEF Handler, Request, Negotiate, Reject, RejectEarly, IceFailed
    <2> QED
      BY <1>0, <1>00, <1>1, <2>1, HandlerFrame DEF trackVars, viewVars
  <1>2. ASSUME NEW p \in Pubs, Publisher(p) PROVE LayerInv'
    <2>1. \A v \in Views : conn[v] = "live" => conn'[v] = "live"
      BY <1>0, <1>2 DEF Publisher, WhipAnswer, deleteStream
    <2>2. UNCHANGED <<trackVars, viewVars>>
      BY <1>2 DEF Publisher, WhipAnswer, deleteStream
    <2> QED
      BY <1>0, <1>00, <2>1, <2>2 DEF trackVars, viewVars
  <1>3. ASSUME NEW v \in Views, Viewer(v) PROVE LayerInv'
    <2>1. CASE WhepAnswer(v)
      BY <1>0, <1>00, <2>1 DEF WhepAnswer, trackVars
    <2>2. CASE DropSession(v)
      BY <1>0, <1>00, <2>2 DEF DropSession, trackVars, viewVars
    <2>3. CASE ViewerPli(v)
      BY <1>0, <1>00, <2>3 DEF ViewerPli, connVars, trackVars, viewVars
    <2> QED
      BY <1>3, <2>1, <2>2, <2>3 DEF Viewer
  <1>4. ASSUME NEW t \in Tracks, Track(t) PROVE LayerInv'
    <2>0. UNCHANGED <<conn, since>>
      BY <1>4, TrackFrame DEF connVars
    <2>1. CASE OnTrack(t) \/ addTrack(t) \/ ReadPacket(t) \/ TrackEnd(t) \/ BeginFanOut(t) \/ EndFanOut(t)
      BY <1>0, <1>00, <2>0, <2>1
      DEF OnTrack, addTrack, ReadPacket, TrackEnd, BeginFanOut, EndFanOut, Goto, viewVars
    <2>2. ASSUME NEW v \in Views, CheckLayer(t, v) PROVE LayerInv'
      <3>1. UNCHANGED layer
        BY <2>2 DEF CheckLayer, viewVars
      <3>2. CASE layer[v] = NoLayer /\ Goto(t, "fan", "claim") /\ cur' = [cur EXCEPT ![t] = v]
        <4>1. since[v].layer = NoLayer
          BY <1>0, <3>2
        <4> QED
          BY <1>0, <1>00, <2>0, <3>1, <3>2, <4>1 DEF Goto
      <3>3. CASE layer[v] = t[2] /\ Goto(t, "fan", "load") /\ cur' = [cur EXCEPT ![t] = v]
        <4>1. since[v].layer \in {NoLayer, t[2]}
          BY <1>0, <3>3
        <4> QED
          BY <1>0, <1>00, <2>0, <3>1, <3>3, <4>1 DEF Goto
      <3>4. CASE UNCHANGED <<track, cur>>
        BY <1>0, <1>00, <2>0, <3>1, <3>4
      <3> QED
        BY <2>2, <3>2, <3>3, <3>4 DEF CheckLayer
    <2>3. CASE ClaimLayer(t)
      BY <1>0, <1>00, <2>0, <2>3 DEF ClaimLayer, Goto
    <2>4. CASE LoadSeq(t) \/ StoreSeq(t)
      <3>1. /\ UNCHANGED <<layer, cur>>
            /\ track[t] \in InSend
            /\ \A u \in Tracks : u # t => track'[u] = track[u]
        BY <1>0, <2>4 DEF LoadSeq, StoreSeq, Goto, viewVars
      <3>2. \A u \in Tracks : track'[u] \in InSend => track[u] \in InSend
        BY <1>0, <2>4, <3>1 DEF LoadSeq, StoreSeq, Goto
      <3>11. \A u \in Tracks : track'[u] = "claim" => track[u] = "claim"
        BY <1>0, <2>4, <3>1 DEF LoadSeq, StoreSeq, Goto
      <3>12. UNCHANGED <<layer, cur, since, conn>>
        BY <2>0, <3>1
      <3>3. LayerInv
        BY <1>0
      <3>4. \A v \in Views : since[v].layer # NoLayer => layer[v] = since[v].layer
        BY <3>3
      <3>5. \A v \in Views : conn[v] # "live" => since[v].layer = NoLayer
        BY <3>3
      <3>6. \A u \in Tracks : track[u] = "claim" => since[cur[u]].layer = NoLayer
        BY <3>3
      <3>7. \A u \in Tracks : track[u] \in InSend => since[cur[u]].layer \in {NoLayer, u[2]}
        BY <3>3
      <3>8. /\ \A v \in Views : since'[v].layer # NoLayer => layer'[v] = since'[v].layer
            /\ \A v \in Views : conn'[v] # "live" => since'[v].layer = NoLayer
        BY <3>4, <3>5, <3>12
      <3>9. \A u \in Tracks : track'[u] = "claim" => since'[cur'[u]].layer = NoLayer
        BY <3>6, <3>11, <3>12
      <3>10. \A u \in Tracks : track'[u] \in InSend => since'[cur'[u]].layer \in {NoLayer, u[2]}
        BY <3>2, <3>7, <3>12
      <3> QED
        BY <3>8, <3>9, <3>10
    <2>5. CASE SendPacket(t)
      <3>1. /\ UNCHANGED layer
            /\ track'[t] = "fan"
            /\ \A u \in Tracks : u # t => track'[u] = track[u] /\ cur'[u] = cur[u]
        BY <1>0, <2>5 DEF SendPacket, Goto
      <3> QED
        BY <1>0, <2>0, <3>1
    <2>6. CASE ForwardPli(t)
      BY <1>0, <1>00, <2>0, <2>6 DEF ForwardPli, viewVars
    <2> QED
      BY <1>4, <2>1, <2>2, <2>3, <2>4, <2>5, <2>6 DEF Track, FanOut
  <1>5. ASSUME NEW r \in Reqs, Control(r) PROVE LayerInv'
    <2>1. ASSUME NEW k \in Keys, CtlChange(r, k) PROVE LayerInv'
      <3> DEFINE v == ask[r].view
      <3>1. v \in Views /\ conn[v] = "live" /\ UNCHANGED <<conn, track, cur>>
        <4>1. streamMap[k] \in Streams /\ v \in sessions[streamMap[k]]
          BY <2>1 DEF CtlChange, TakeSessions, RelayInv, MapInv, RelayTypes
        <4> QED
          BY <1>0, <2>1, <4>1 DEF CtlChange, TakeSessions, HomeInv, RelayTypes, connVars, trackVars
      <3>2. /\ layer' = [layer EXCEPT ![v] = ask[r].layer]
            /\ since' = [since EXCEPT ![v] = [layer |-> ask[r].layer, at |-> Len(out[v])]]
        BY <2>1 DEF CtlChange
      <3>3. \A t \in Tracks : track[t] \in {"claim"} \cup InSend =>
              cur[t] # v /\ since'[cur[t]] = since[cur[t]]
        BY <1>0, <1>00, <2>1, <3>2, ChangeExcludes
      <3>4. \A w \in Views : w # v => since'[w] = since[w] /\ layer'[w] = layer[w]
        BY <1>0, <3>2
      <3>5. since'[v].layer = layer'[v]
        BY <1>0, <3>1, <3>2
      <3> HIDE DEF v
      <3>6. \A w \in Views : since'[w].layer # NoLayer => layer'[w] = since'[w].layer
        BY <1>0, <3>4, <3>5
      <3>7. \A w \in Views : conn'[w] # "live" => since'[w].layer = NoLayer
        BY <1>0, <3>1, <3>4
      <3>8. \A t \in Tracks : track'[t] = "claim" => since'[cur'[t]].layer = NoLayer
        BY <1>0, <3>1, <3>3
      <3>9. \A t \in Tracks : track'[t] \in InSend => since'[cur'[t]].layer \in {NoLayer, t[2]}
        BY <1>0, <3>1, <3>3
      <3> QED
        BY <3>6, <3>7, <3>8, <3>9
    <2>2. ASSUME NEW k \in Keys, CtlMiss(r, k) \/ CtlList(r, k) PROVE LayerInv'
      BY <1>0, <1>00, <2>2 DEF CtlMiss, CtlList, TakeSessions, connVars, trackVars
    <2>3. ASSUME UNCHANGED <<connVars, trackVars, viewVars>> PROVE LayerInv'
      BY <1>0, <1>00, <2>3 DEF connVars, trackVars, viewVars
    <2> QED
      BY <1>5, <2>1, <2>2, <2>3 DEF Control, Serve, CtlRequest, CtlLockMap, CtlSend, CtlReturn
  <1>6. CASE UNCHANGED vars
    BY <1>0, <1>00, <1>6 DEF vars, relayVars, connVars, trackVars, viewVars
  <1> QED
    BY <1>1, <1>2, <1>3, <1>4, <1>5, <1>6 DEF Next

\* Every step keeps the inductive invariant.
LEMMA InvStep == RelayInv /\ [Next]_vars => RelayInv'
  BY TypeStep, MapStep, HomeStep, LockStep, LayerStep DEF RelayInv

\* Every reachable state satisfies the inductive invariant.
THEOREM Invariance == Spec => []RelayInv
  <1>1. RelayInv /\ [Next]_vars => RelayInv'
    BY InvStep
  <1> QED
    BY InitInv, <1>1, PTL DEF Spec

\* The variables of the relay keep their types: among them, pliChan never
\* holds more than its capacity and a sequence number never leaves uint16.
THEOREM TypeCorrect == Spec => []TypeOK
  <1>1. RelayInv => TypeOK
    BY DEF RelayInv
  <1> QED
    BY Invariance, <1>1, PTL

\* Two goroutines that increment the number of one session, whose layer was
\* chosen, carry that layer both.
THEOREM RaceConfined == Spec => []RaceNeedsSharedLayer
  <1>1. RelayInv => RaceNeedsSharedLayer
    BY DEF RelayInv, LayerInv, RaceNeedsSharedLayer
  <1> QED
    BY Invariance, <1>1, PTL
----------------------------------------------------------------------------
----------------------------------------------------------------------------
(***************************************************************************)
(* The relay implements LayerFeed, for every value of the constants, and   *)
(* what LayerFeed promises makes SwitchHolds inductive: the refinement is  *)
(* proved first, and the invariant from the steps of the abstract feed.    *)
(*                                                                         *)
(* The numbers of the packets need more than LayerFeed says: a session     *)
(* that one track writes to counts its packets (CountInv), from zero       *)
(* (StartInv).                                                             *)
(***************************************************************************)
\* Nothing but WHEPChangeLayer and a packet's write touches out and since.
LEMMA QuietSteps ==
  ASSUME Next,
         \A r \in Reqs, k \in Keys : ~CtlChange(r, k),
         \A t \in Tracks : ~SendPacket(t)
  PROVE  UNCHANGED <<out, since>>
  <1>1. ASSUME NEW c \in Conns, Handler(c) PROVE UNCHANGED <<out, since>>
    BY <1>1, HandlerFrame DEF viewVars
  <1>2. ASSUME NEW p \in Pubs, Publisher(p) PROVE UNCHANGED <<out, since>>
    BY <1>2 DEF Publisher, WhipAnswer, deleteStream, viewVars
  <1>3. ASSUME NEW v \in Views, Viewer(v) PROVE UNCHANGED <<out, since>>
    BY <1>3 DEF Viewer, WhepAnswer, DropSession, ViewerPli, viewVars
  <1>4. ASSUME NEW t \in Tracks, Track(t), ~SendPacket(t) PROVE UNCHANGED <<out, since>>
    BY <1>4 DEF Track, FanOut, OnTrack, addTrack, ReadPacket, TrackEnd, BeginFanOut,
       CheckLayer, ClaimLayer, LoadSeq, StoreSeq, EndFanOut, ForwardPli, viewVars
  <1>5. ASSUME NEW r \in Reqs, Control(r), \A k \in Keys : ~CtlChange(r, k)
        PROVE  UNCHANGED <<out, since>>
    BY <1>5 DEF Control, Serve, CtlRequest, CtlLockMap, CtlMiss, CtlList, CtlSend, CtlReturn,
       TakeSessions, viewVars
  <1> QED
    BY <1>1, <1>2, <1>3, <1>4, <1>5 DEF Next

\* WHEPChangeLayer is a choice of the viewer whose session it found.
LEMMA ChangeChooses ==
  ASSUME RelayInv, NEW r \in Reqs, NEW k \in Keys, CtlChange(r, k)
  PROVE  \E v \in Views : \E l \in Layers \cup {NoLayer} : Feed!Choose(v, l)
  <1>1. streamMap[k] \in Streams /\ ask[r].view \in sessions[streamMap[k]]
    BY DEF CtlChange, TakeSessions, RelayInv, MapInv, TypeOK, RelayTypes
  <1>2. ask[r].view \in Views
    BY <1>1 DEF RelayInv, TypeOK, RelayTypes
  <1>3. ask[r].layer \in Layers \cup {NoLayer}
    BY DEF RelayInv, TypeOK, CtlTypes
  <1>4. Feed!Choose(ask[r].view, ask[r].layer)
    BY DEF CtlChange, TakeSessions, Feed!Choose
  <1> QED
    BY <1>2, <1>3, <1>4

\* A track writes to a session a packet of the layer its viewer chose.
LEMMA SendDelivers ==
  ASSUME RelayInv, NEW t \in Tracks, SendPacket(t)
  PROVE  \E v \in Views : \E l \in Layers, n \in 0..SeqMod - 1 : Feed!Deliver(v, l, n)
  <1>1. track[t] \in InSend /\ t[2] \in Layers
    BY DEF SendPacket, Goto, InSend, Tracks
  <1>2. cur[t] \in Views
    BY <1>1 DEF RelayInv, LockInv, TypeOK, TrackTypes
  <1>3. since[cur[t]].layer \in {NoLayer, t[2]}
    BY <1>1 DEF RelayInv, LayerInv
  <1>4. PICK n \in {(tmp[t] + 1) % SeqMod, seq[cur[t]]} :
          out' = [out EXCEPT ![cur[t]] = Append(@, [layer |-> t[2], seq |-> n])]
    BY DEF SendPacket
  <1>5. n \in 0..SeqMod - 1
    <2>1. tmp[t] \in 0..SeqMod - 1 /\ seq[cur[t]] \in 0..SeqMod - 1
      BY <1>2 DEF RelayInv, TypeOK, TrackTypes, ViewTypes
    <2>2. (tmp[t] + 1) % SeqMod \in 0..SeqMod - 1
      BY <2>1, SeqNumber
    <2> QED
      BY <1>4, <2>1, <2>2
  <1>6. Feed!Deliver(cur[t], t[2], n)
    BY <1>3, <1>4 DEF SendPacket, Feed!Deliver
  <1> QED
    BY <1>1, <1>2, <1>5, <1>6

\* Every step of the relay is a step of LayerFeed or changes nothing it sees.
LEMMA StepRefines == RelayInv /\ [Next]_vars => [Feed!FeedNext]_(Feed!feedVars)
  <1> SUFFICES ASSUME RelayInv, Next, ~UNCHANGED <<out, since>> PROVE Feed!FeedNext
    BY DEF Feed!feedVars, vars, viewVars
  <1>1. CASE \E r \in Reqs, k \in Keys : CtlChange(r, k)
    BY <1>1, ChangeChooses DEF Feed!FeedNext
  <1>2. CASE \E t \in Tracks : SendPacket(t)
    BY <1>2, SendDelivers DEF Feed!FeedNext
  <1> QED
    BY <1>1, <1>2, QuietSteps

\* The relay, with its locks, goroutines and stream objects, gives every viewer
\* the feed that LayerFeed promises.
THEOREM Refinement == Spec => ImplementsFeed
  <1>1. Init => Feed!FeedInit
    BY DEF Init, Feed!FeedInit
  <1> QED
    BY <1>1, StepRefines, Invariance, PTL DEF Spec, ImplementsFeed, Feed!FeedSpec
----------------------------------------------------------------------------
\* A step of the abstract feed keeps what was sent in agreement with what was
\* asked: a choice forgets the packets before it, a delivery obeys the choice.
LEMMA FeedKeepsLayer ==
  TypeOK /\ SwitchHolds /\ [Feed!FeedNext]_(Feed!feedVars) => SwitchHolds'
  <1> SUFFICES ASSUME ViewTypes, SwitchHolds, [Feed!FeedNext]_(Feed!feedVars),
                      NEW w \in Views, since'[w].layer # NoLayer,
                      NEW i \in DOMAIN out'[w], i > since'[w].at
               PROVE  out'[w][i].layer = since'[w].layer
    BY DEF TypeOK, SwitchHolds
  <1>0. out[w] \in Seq(Packet) /\ out \in [Views -> Seq(Packet)]
        /\ since \in [Views -> [layer : Layers \cup {NoLayer}, at : Nat]]
    BY DEF ViewTypes
  <1>1. ASSUME NEW v \in Views, NEW l \in Layers \cup {NoLayer}, Feed!Choose(v, l)
        PROVE  out'[w][i].layer = since'[w].layer
    <2>1. out'[w] = out[w]
      BY <1>1 DEF Feed!Choose
    <2>2. CASE w = v
      <3>1. since'[w].at = Len(out[w])
        BY <1>0, <1>1, <2>2 DEF Feed!Choose
      <3>2. i \in 1..Len(out[w])
        BY <1>0, <2>1
      <3>3. Len(out[w]) \in Nat
        BY <1>0
      <3> QED
        BY <3>1, <3>2, <3>3
    <2>3. CASE w # v
      <3>1. since'[w] = since[w]
        BY <1>0, <1>1, <2>3 DEF Feed!Choose
      <3> QED
        BY <2>1, <3>1 DEF SwitchHolds
    <2> QED
      BY <2>2, <2>3
  <1>2. ASSUME NEW v \in Views, NEW l \in Layers, NEW n \in 0..SeqMod - 1, Feed!Deliver(v, l, n)
        PROVE  out'[w][i].layer = since'[w].layer
    <2> DEFINE pkt == [layer |-> l, seq |-> n]
    <2>1. since' = since
      BY <1>2 DEF Feed!Deliver
    <2>2. CASE w = v
      <3>0. pkt.layer = l /\ pkt \in Packet
        BY DEF Packet
      <3>1. out'[w] = Append(out[w], pkt)
        BY <1>0, <1>2, <2>2 DEF Feed!Deliver
      <3>2. since[w].layer = l
        BY <1>2, <2>1, <2>2 DEF Feed!Deliver
      <3> HIDE DEF pkt
      <3>3. CASE i \in DOMAIN out[w]
        <4>1. out'[w][i] = out[w][i]
          BY <1>0, <3>0, <3>1, <3>3
        <4> QED
          BY <2>1, <3>3, <4>1 DEF SwitchHolds
      <3>4. CASE i \notin DOMAIN out[w]
        <4>1. out'[w][i] = pkt
          BY <1>0, <3>0, <3>1, <3>4
        <4> QED
          BY <2>1, <3>0, <3>2, <4>1
      <3> QED
        BY <3>3, <3>4
    <2>3. CASE w # v
      <3>1. out'[w] = out[w]
        BY <1>0, <1>2, <2>3 DEF Feed!Deliver
      <3> QED
        BY <2>1, <3>1 DEF SwitchHolds
    <2> QED
      BY <2>2, <2>3
  <1>3. CASE UNCHANGED Feed!feedVars
    BY <1>3 DEF Feed!feedVars, SwitchHolds
  <1> QED
    BY <1>1, <1>2, <1>3 DEF Feed!FeedNext

\* From the moment WHEPChangeLayer stores a layer, every packet written to that
\* viewer is of that layer until it asks again.
THEOREM Switching == Spec => []SwitchHolds
  <1>1. Init => SwitchHolds
    BY DEF Init, SwitchHolds
  <1>2. RelayInv /\ [Next]_vars => [Feed!FeedNext]_(Feed!feedVars)
    BY StepRefines
  <1>3. RelayInv => TypeOK
    BY DEF RelayInv
  <1>4. RelayInv /\ SwitchHolds /\ [Next]_vars => SwitchHolds'
    BY <1>2, <1>3, FeedKeepsLayer
  <1> QED
    BY <1>1, <1>4, Invariance, PTL DEF Spec
----------------------------------------------------------------------------
\* No track is between its store of a session's number and the packet it sends.
Quiet(v) == \A t \in Tracks : track[t] = "send" => cur[t] # v

\* The viewer chose its layer before its first packet, and one track carries it.
Chosen(v) ==
  /\ since[v].layer # NoLayer
  /\ since[v].at = 0
  /\ \A t, u \in Carriers(home[v], since[v].layer) : t = u

\* The number of a session is that of its last packet, or, of the track that has
\* just stored it, that of the next.
Counts(v) ==
  /\ \A i \in DOMAIN out[v] : out[v][i].seq = i % SeqMod
  /\ Quiet(v) => seq[v] = Len(out[v]) % SeqMod
  /\ \A t \in Tracks : track[t] = "store" /\ cur[t] = v => tmp[t] = seq[v]
  /\ \A t \in Tracks : track[t] = "send" /\ cur[t] = v =>
       (tmp[t] + 1) % SeqMod = seq[v] /\ seq[v] = (Len(out[v]) + 1) % SeqMod

\* A session that was sent nothing has not counted yet.
StartInv == \A v \in Views : out[v] = <<>> /\ Quiet(v) => seq[v] = 0

CountInv == \A v \in Views : Chosen(v) => Counts(v)

\* Finitely many tracks have come up.
ActiveInv == IsFiniteSet({t \in Tracks : track[t] # "off"})

\* Counting modulo m goes on by one.
LEMMA NextMod ==
  ASSUME NEW m \in Nat \ {0, 1}, NEW n \in Nat
  PROVE  /\ n % m \in 0..m - 1
         /\ ((n % m) + 1) % m = (n + 1) % m
  <1> DEFINE q == n \div m
             r == n % m
  <1>1. n = m * q + r /\ r \in 0..m - 1 /\ q \in Nat
    BY SMTT(20)
  <1>2. ASSUME NEW a \in Nat, NEW b \in 0..m - 1 PROVE (m * a + b) % m = b
    BY SMTT(20)
  <1> HIDE DEF q, r
  <1>3. CASE r + 1 < m
    <2>1. (n + 1) % m = r + 1
      <3>1. n + 1 = m * q + (r + 1) /\ r + 1 \in 0..m - 1
        BY <1>1, <1>3
      <3> QED
        BY <1>1, <1>2, <3>1
    <2>2. (r + 1) % m = r + 1
      BY <1>1, <1>3
    <2> QED
      BY <1>1, <2>1, <2>2 DEF r
  <1>4. CASE r + 1 = m
    <2>1. (n + 1) % m = 0
      <3>1. n + 1 = m * (q + 1) + 0 /\ q + 1 \in Nat /\ 0 \in 0..m - 1
        BY <1>1, <1>4
      <3> QED
        BY <1>2, <3>1
    <2>2. (r + 1) % m = 0
      BY <1>4
    <2> QED
      BY <1>1, <2>1, <2>2 DEF r
  <1> QED
    BY <1>1, <1>3, <1>4 DEF r

\* Of the relay's steps, five kinds concern the numbers.
LEMMA CountFrame ==
  ASSUME RelayInv, [Next]_vars,
         \A r \in Reqs, k \in Keys : ~CtlChange(r, k),
         \A t \in Tracks : ~LoadSeq(t) /\ ~StoreSeq(t) /\ ~SendPacket(t)
  PROVE  /\ UNCHANGED <<seq, out, since, tmp>>
         /\ \A t \in Tracks :
              /\ track[t] \in {"store", "send"} => track'[t] = track[t]
              /\ track'[t] \in {"store", "send"} => track'[t] = track[t] /\ cur'[t] = cur[t]
  <1> DEFINE Calm ==
        /\ UNCHANGED <<seq, out, since, tmp>>
        /\ \A t \in Tracks :
             /\ track[t] \in {"store", "send"} => track'[t] = track[t]
             /\ track'[t] \in {"store", "send"} => track'[t] = track[t] /\ cur'[t] = cur[t]
  <1>0. track \in [Tracks -> TrackStates] /\ cur \in [Tracks -> Views \cup {None}]
    BY DEF RelayInv, TypeOK, TrackTypes
  <1>1. ASSUME NEW c \in Conns, Handler(c) PROVE Calm
    BY <1>1, HandlerFrame DEF viewVars, trackVars
  <1>2. ASSUME NEW p \in Pubs, Publisher(p) PROVE Calm
    BY <1>2 DEF Publisher, WhipAnswer, deleteStream, viewVars, trackVars
  <1>3. ASSUME NEW v \in Views, Viewer(v) PROVE Calm
    BY <1>3 DEF Viewer, WhepAnswer, DropSession, ViewerPli, viewVars, trackVars
  <1>4. ASSUME NEW t \in Tracks, Track(t) PROVE Calm
    <2>1. ~LoadSeq(t) /\ ~StoreSeq(t) /\ ~SendPacket(t)
      OBVIOUS
    <2>2. CASE OnTrack(t) \/ addTrack(t) \/ ReadPacket(t) \/ TrackEnd(t) \/ BeginFanOut(t) \/ EndFanOut(t)
      BY <1>0, <2>2 DEF OnTrack, addTrack, ReadPacket, TrackEnd, BeginFanOut, EndFanOut, Goto, viewVars
    <2>3. CASE \E v \in Views : CheckLayer(t, v)
      BY <1>0, <2>3 DEF CheckLayer, Goto, viewVars
    <2>4. CASE ClaimLayer(t)
      BY <1>0, <2>4 DEF ClaimLayer, Goto
    <2>5. CASE ForwardPli(t)
      BY <2>5 DEF ForwardPli, viewVars
    <2> QED
      BY <1>4, <2>1, <2>2, <2>3, <2>4, <2>5 DEF Track, FanOut
  <1>5. ASSUME NEW r \in Reqs, Control(r) PROVE Calm
    BY <1>5 DEF Control, Serve, CtlRequest, CtlLockMap, CtlMiss, CtlList, CtlSend, CtlReturn,
       TakeSessions, viewVars, trackVars
  <1>6. CASE UNCHANGED vars
    BY <1>6 DEF vars, viewVars, trackVars
  <1> QED
    BY <1>1, <1>2, <1>3, <1>4, <1>5, <1>6 DEF Next

\* A connection keeps the stream object it captured, and a track stays up.
LEMMA HomesStay ==
  ASSUME RelayInv, [Next]_vars
  PROVE  /\ \A c \in Conns : conn[c] \in {"gather", "live"} => home'[c] = home[c]
         /\ \A t \in Tracks : track[t] # "off" => track'[t] # "off"
  <1> DEFINE Stay ==
        /\ \A c \in Conns : conn[c] \in {"gather", "live"} => home'[c] = home[c]
        /\ \A t \in Tracks : track[t] # "off" => track'[t] # "off"
  <1>0. /\ home \in [Conns -> Streams \cup {None}]
        /\ track \in [Tracks -> TrackStates]
    BY DEF RelayInv, TypeOK, ConnTypes, TrackTypes
  <1>1. ASSUME NEW c \in Conns, Handler(c) PROVE Stay
    <2>1. UNCHANGED track
      BY <1>1, HandlerFrame DEF trackVars
    <2>2. \A d \in Conns : conn[d] \in {"gather", "live"} => home'[d] = home[d]
      BY <1>0, <1>1 DEF Handler, Request, Negotiate, Reject, RejectEarly, IceFailed
    <2> QED
      BY <2>1, <2>2
  <1>2. ASSUME NEW p \in Pubs, Publisher(p) PROVE Stay
    BY <1>2 DEF Publisher, WhipAnswer, deleteStream, trackVars
  <1>3. ASSUME NEW v \in Views, Viewer(v) PROVE Stay
    BY <1>3 DEF Viewer, WhepAnswer, DropSession, ViewerPli, trackVars, connVars
  <1>4. ASSUME NEW t \in Tracks, Track(t) PROVE Stay
    <2>1. UNCHANGED home
      BY <1>4, TrackFrame DEF connVars
    <2>2. \/ track'[t] # "off" /\ \A u \in Tracks : u # t => track'[u] = track[u]
          \/ UNCHANGED track
      BY <1>0, <1>4 DEF Track, FanOut, OnTrack, addTrack, ReadPacket, TrackEnd, BeginFanOut,
         CheckLayer, ClaimLayer, LoadSeq, StoreSeq, SendPacket, EndFanOut, ForwardPli, Goto
    <2> QED
      BY <2>1, <2>2
  <1>5. ASSUME NEW r \in Reqs, Control(r) PROVE Stay
    BY <1>5, ControlFrame DEF connVars, trackVars
  <1>6. CASE UNCHANGED vars
    BY <1>6 DEF vars, connVars, trackVars
  <1> QED
    BY <1>1, <1>2, <1>3, <1>4, <1>5, <1>6 DEF Next

\* A second carrier never goes away: a viewer that has one now had one before.
LEMMA ChosenBefore ==
  ASSUME RelayInv, [Next]_vars, NEW v \in Views, since'[v] = since[v], Chosen(v)'
  PROVE  Chosen(v)
  <1>1. since[v].layer # NoLayer /\ since[v].at = 0
    BY DEF Chosen
  <1>2. conn[v] = "live" /\ v \in Conns
    BY <1>1 DEF RelayInv, LayerInv, Conns
  <1>3. home'[v] = home[v]
    BY <1>2, HomesStay
  <1>4. ASSUME NEW t \in Carriers(home[v], since[v].layer)
        PROVE  t \in Carriers(home[v], since[v].layer)'
    <2>1. t \in Tracks /\ StreamOf(t) = home[v] /\ t[2] = since[v].layer /\ track[t] # "off"
      BY <1>4 DEF Carriers
    <2>2. t[1] \in Conns /\ conn[t[1]] \in {"gather", "live"}
      BY <2>1 DEF RelayInv, HomeInv, Tracks, Conns
    <2>3. home'[t[1]] = home[t[1]] /\ track'[t] # "off"
      BY <2>1, <2>2, HomesStay
    <2> QED
      BY <1>3, <2>1, <2>3 DEF Carriers, StreamOf
  <1>5. \A t, u \in Carriers(home[v], since[v].layer)' : t = u
    BY DEF Chosen
  <1> QED
    BY <1>1, <1>4, <1>5 DEF Chosen

\* Who writes to a session whose layer was chosen carries that layer.
LEMMA WriterCarries ==
  ASSUME RelayInv, NEW t \in Tracks, track[t] \in InSend, since[cur[t]].layer # NoLayer
  PROVE  cur[t] \in Views /\ t \in Carriers(home[cur[t]], since[cur[t]].layer)
  <1>1. cur[t] \in todo[t] /\ todo[t] \subseteq sessions[StreamOf(t)] /\ cur[t] \in Views
    BY DEF RelayInv, LockInv, InFan, InSend, TypeOK, TrackTypes
  <1>2. track[t] # "off" /\ t[1] \in Conns
    BY DEF InSend, Tracks, Conns
  <1>3. conn[t[1]] \in {"gather", "live"}
    BY <1>2 DEF RelayInv, HomeInv
  <1>4. home[t[1]] \in Streams
    BY <1>2, <1>3 DEF RelayInv, HomeInv, TypeOK, ConnTypes
  <1>5. home[cur[t]] = StreamOf(t)
    BY <1>1, <1>4 DEF RelayInv, HomeInv, StreamOf
  <1>6. t[2] = since[cur[t]].layer
    BY DEF RelayInv, LayerInv
  <1> QED
    BY <1>1, <1>2, <1>5, <1>6 DEF Carriers

\* So there is one at a time, if one track carries the layer.
LEMMA OneWriter ==
  ASSUME RelayInv, NEW v \in Views, Chosen(v),
         NEW t \in Tracks, NEW u \in Tracks, track[t] \in InSend, track[u] \in InSend,
         cur[t] = v, cur[u] = v
  PROVE  t = u
  <1>1. t \in Carriers(home[v], since[v].layer) /\ u \in Carriers(home[v], since[v].layer)
    BY WriterCarries DEF Chosen
  <1> QED
    BY <1>1 DEF Chosen

\* What the steps of a track between load and send do to the numbers.
LEMMA WriteTypes ==
  ASSUME RelayInv
  PROVE  /\ track \in [Tracks -> TrackStates]
         /\ cur \in [Tracks -> Views \cup {None}]
         /\ tmp \in [Tracks -> 0..SeqMod - 1]
         /\ seq \in [Views -> 0..SeqMod - 1]
         /\ out \in [Views -> Seq(Packet)]
         /\ since \in [Views -> [layer : Layers \cup {NoLayer}, at : Nat]]
         /\ \A t \in Tracks : track[t] \in InSend => cur[t] \in Views
  <1>1. \A t \in Tracks : track[t] \in InSend => cur[t] \in Views
    BY DEF RelayInv, LockInv, InFan, InSend, TypeOK, TrackTypes
  <1> QED
    BY <1>1 DEF RelayInv, TypeOK, TrackTypes, ViewTypes

\* WHEPChangeLayer meets a session nobody writes to.
LEMMA ChangeQuiet ==
  ASSUME RelayInv, NEW r \in Reqs, NEW k \in Keys, CtlChange(r, k)
  PROVE  /\ UNCHANGED <<seq, out, track, cur, tmp>>
         /\ since' = [since EXCEPT ![ask[r].view] = [layer |-> ask[r].layer, at |-> Len(out[ask[r].view])]]
         /\ \A t \in Tracks : track[t] \in InSend => cur[t] # ask[r].view
  <1>1. \A t \in Tracks : track[t] \in InSend => cur[t] # ask[r].view
    BY ChangeExcludes
  <1> QED
    BY <1>1 DEF CtlChange, TakeSessions, trackVars

\* A session that was sent nothing has not counted, whatever the step.
LEMMA StartStep == RelayInv /\ StartInv /\ [Next]_vars => StartInv'
  <1> SUFFICES ASSUME RelayInv, StartInv, [Next]_vars, NEW v \in Views, out'[v] = <<>>, Quiet(v)'
               PROVE  seq'[v] = 0
    BY DEF StartInv
  <1>0. out[v] = <<>> /\ Quiet(v) => seq[v] = 0
    BY DEF StartInv
  <1>1. ASSUME NEW r \in Reqs, NEW k \in Keys, CtlChange(r, k) PROVE seq'[v] = 0
    BY <1>0, <1>1, ChangeQuiet DEF Quiet
  <1>2. ASSUME NEW t \in Tracks, LoadSeq(t) PROVE seq'[v] = 0
    <2>1. Quiet(v)
      BY <1>2, WriteTypes DEF LoadSeq, Goto, Quiet
    <2> QED
      BY <1>0, <1>2, <2>1 DEF LoadSeq, viewVars
  <1>3. ASSUME NEW t \in Tracks, StoreSeq(t) PROVE seq'[v] = 0
    <2>1. track'[t] = "send" /\ cur' = cur
      BY <1>3, WriteTypes DEF StoreSeq, Goto
    <2>2. cur[t] # v
      BY <2>1 DEF Quiet
    <2>3. Quiet(v)
      BY <1>3, <2>2, WriteTypes DEF StoreSeq, Goto, Quiet
    <2> QED
      BY <1>0, <1>3, <2>2, <2>3 DEF StoreSeq
  <1>4. ASSUME NEW t \in Tracks, SendPacket(t) PROVE seq'[v] = 0
    <2>1. cur[t] # v
      <3>1. PICK n \in {(tmp[t] + 1) % SeqMod, seq[cur[t]]} :
              out' = [out EXCEPT ![cur[t]] = Append(@, [layer |-> t[2], seq |-> n])]
        BY <1>4 DEF SendPacket
      <3>2. ASSUME cur[t] = v PROVE FALSE
        <4> DEFINE p == [layer |-> t[2], seq |-> n]
        <4>1. out'[v] = Append(out[v], p) /\ out[v] \in Seq(Packet)
          BY <3>1, <3>2, WriteTypes
        <4> HIDE DEF p
        <4>2. Len(out'[v]) = Len(out[v]) + 1 /\ Len(out[v]) \in Nat
          BY <4>1
        <4>3. Len(<<>>) = 0
          OBVIOUS
        <4> QED
          BY <4>2, <4>3
      <3> QED
        BY <3>2
    <2>2. out'[v] = out[v]
      BY <1>4, <2>1, WriteTypes DEF SendPacket
    <2>3. Quiet(v)
      BY <1>4, <2>1, WriteTypes DEF SendPacket, Goto, Quiet
    <2> QED
      BY <1>0, <1>4, <2>2, <2>3 DEF SendPacket
  <1>5. CASE /\ \A r \in Reqs, k \in Keys : ~CtlChange(r, k)
             /\ \A t \in Tracks : ~LoadSeq(t) /\ ~StoreSeq(t) /\ ~SendPacket(t)
    <2>1. Quiet(v)
      BY <1>5, CountFrame DEF Quiet
    <2> QED
      BY <1>0, <1>5, <2>1, CountFrame
  <1> QED
    BY <1>1, <1>2, <1>3, <1>4, <1>5

\* A step of a track on a session keeps its count, and leaves other sessions alone.
LEMMA CountStep == RelayInv /\ StartInv /\ CountInv /\ [Next]_vars => CountInv'
  <1> SUFFICES ASSUME RelayInv, StartInv, CountInv, [Next]_vars, NEW v \in Views, Chosen(v)'
               PROVE  Counts(v)'
    BY DEF CountInv
  <1>0. since'[v] = since[v] => Chosen(v) /\ Counts(v)
    BY ChosenBefore DEF CountInv
  <1>m. SeqMod \in Nat \ {0, 1}
    BY RelayAssumption
  <1>1. ASSUME NEW r \in Reqs, NEW k \in Keys, CtlChange(r, k) PROVE Counts(v)'
    <2>0. UNCHANGED <<seq, out, track, cur, tmp>>
      BY <1>1, ChangeQuiet
    <2>1. CASE ask[r].view = v
      <3>1. since'[v].at = Len(out[v])
        <4>1. since' = [since EXCEPT ![v] = [layer |-> ask[r].layer, at |-> Len(out[v])]]
          BY <1>1, <2>1, ChangeQuiet
        <4>2. v \in DOMAIN since
          BY WriteTypes
        <4> QED
          BY <4>1, <4>2
      <3>2. out[v] = <<>>
        BY <3>1, WriteTypes DEF Chosen
      <3>3. \A t \in Tracks : track[t] \in InSend => cur[t] # v
        BY <1>1, <2>1, ChangeQuiet
      <3>4. Quiet(v) /\ seq[v] = 0
        BY <3>2, <3>3 DEF StartInv, Quiet, InSend
      <3>5. Len(<<>>) = 0 /\ DOMAIN <<>> = {} /\ 0 % SeqMod = 0
        BY <1>m
      <3> QED
        BY <2>0, <3>2, <3>3, <3>4, <3>5 DEF Counts, Quiet, InSend
    <2>2. CASE ask[r].view # v
      <3>1. since'[v] = since[v]
        BY <1>1, <2>2, ChangeQuiet, WriteTypes
      <3> QED
        BY <1>0, <2>0, <3>1 DEF Counts, Quiet
    <2> QED
      BY <2>1, <2>2
  <1>2. ASSUME NEW t \in Tracks, LoadSeq(t) PROVE Counts(v)'
    <2>1. /\ UNCHANGED <<seq, out, since, cur>>
          /\ track' = [track EXCEPT ![t] = "store"] /\ track[t] = "load"
          /\ tmp' = [tmp EXCEPT ![t] = seq[cur[t]]]
      BY <1>2 DEF LoadSeq, Goto, viewVars
    <2>2. Counts(v)
      BY <1>0, <2>1
    <2>3. \A u \in Tracks :
            /\ track'[u] = "send" <=> track[u] = "send"
            /\ track'[u] = "store" => u = t \/ track[u] = "store"
            /\ u # t => tmp'[u] = tmp[u]
            /\ u = t => tmp'[u] = seq[cur[t]]
      BY <2>1, WriteTypes
    <2>4. \A u \in Tracks : track'[u] = "store" /\ cur[u] = v => tmp'[u] = seq[v]
      BY <2>2, <2>3 DEF Counts
    <2>5. \A u \in Tracks : track[u] = "send" => tmp'[u] = tmp[u]
      BY <2>1, <2>3
    <2> QED
      BY <2>1, <2>2, <2>3, <2>4, <2>5 DEF Counts, Quiet
  <1>3. ASSUME NEW t \in Tracks, StoreSeq(t) PROVE Counts(v)'
    <2>1. /\ UNCHANGED <<out, since, cur, tmp>>
          /\ track' = [track EXCEPT ![t] = "send"] /\ track[t] = "store"
          /\ seq' = [seq EXCEPT ![cur[t]] = (tmp[t] + 1) % SeqMod]
      BY <1>3 DEF StoreSeq, Goto
    <2>2. Chosen(v) /\ Counts(v)
      BY <1>0, <2>1
    <2>3. \A u \in Tracks : u # t => track'[u] = track[u]
      BY <2>1, WriteTypes
    <2>4. track'[t] = "send"
      BY <2>1, WriteTypes
    <2>5. CASE cur[t] = v
      <3>1. \A u \in Tracks : track[u] \in InSend /\ cur[u] = v => u = t
        BY <2>1, <2>2, <2>5, OneWriter DEF InSend
      <3>2. Quiet(v)
        BY <2>1, <3>1 DEF Quiet, InSend
      <3>3. seq[v] = Len(out[v]) % SeqMod /\ tmp[t] = seq[v]
        BY <2>1, <2>2, <2>5, <3>2 DEF Counts
      <3>4. seq'[v] = (tmp[t] + 1) % SeqMod
        BY <2>1, <2>5, WriteTypes
      <3>5. seq'[v] = (Len(out[v]) + 1) % SeqMod
        <4>1. Len(out[v]) \in Nat
          BY WriteTypes
        <4> QED
          BY <1>m, <3>3, <3>4, <4>1, NextMod
      <3>6. \A u \in Tracks : track'[u] \in {"store", "send"} /\ cur[u] = v => u = t
        BY <2>3, <3>1 DEF InSend
      <3>7. ~Quiet(v)'
        BY <2>1, <2>4, <2>5 DEF Quiet
      <3>8. \A i \in DOMAIN out[v] : out[v][i].seq = i % SeqMod
        BY <2>2 DEF Counts
      <3> QED
        BY <2>1, <2>4, <3>4, <3>5, <3>6, <3>7, <3>8 DEF Counts
    <2>6. CASE cur[t] # v
      <3>1. seq'[v] = seq[v]
        BY <2>1, <2>6, WriteTypes
      <3>2. \A u \in Tracks : cur[u] = v => track'[u] = track[u]
        BY <2>3, <2>6
      <3> QED
        BY <2>1, <2>2, <3>1, <3>2 DEF Counts, Quiet
    <2> QED
      BY <2>5, <2>6
  <1>4. ASSUME NEW t \in Tracks, SendPacket(t) PROVE Counts(v)'
    <2>0. PICK n \in {(tmp[t] + 1) % SeqMod, seq[cur[t]]} :
            out' = [out EXCEPT ![cur[t]] = Append(@, [layer |-> t[2], seq |-> n])]
      BY <1>4 DEF SendPacket
    <2>1. /\ UNCHANGED <<seq, since>>
          /\ track' = [track EXCEPT ![t] = "fan"] /\ track[t] = "send"
          /\ cur' = [cur EXCEPT ![t] = None]
          /\ tmp' = [tmp EXCEPT ![t] = 0]
      BY <1>4 DEF SendPacket, Goto
    <2>2. Chosen(v) /\ Counts(v)
      BY <1>0, <2>1
    <2>3. /\ track'[t] = "fan"
          /\ \A u \in Tracks : u # t => track'[u] = track[u] /\ cur'[u] = cur[u] /\ tmp'[u] = tmp[u]
      BY <2>1, WriteTypes
    <2>5. CASE cur[t] = v
      <3> DEFINE p == [layer |-> t[2], seq |-> n]
      <3>1. \A u \in Tracks : track[u] \in InSend /\ cur[u] = v => u = t
        BY <2>1, <2>2, <2>5, OneWriter DEF InSend
      <3>2. seq[v] = (Len(out[v]) + 1) % SeqMod /\ n = seq[v]
        BY <2>0, <2>1, <2>2, <2>5 DEF Counts
      <3>3. out'[v] = Append(out[v], p) /\ p.seq = n
        BY <2>0, <2>5, WriteTypes
      <3> HIDE DEF p
      <3>4. /\ Len(out'[v]) = Len(out[v]) + 1
            /\ \A i \in DOMAIN out'[v] :
                 (i \in DOMAIN out[v] /\ out'[v][i] = out[v][i]) \/ (i = Len(out[v]) + 1 /\ out'[v][i] = p)
        <4>1. out[v] \in Seq(Packet)
          BY WriteTypes
        <4> QED
          BY <3>3, <4>1
      <3>5. \A i \in DOMAIN out'[v] : out'[v][i].seq = i % SeqMod
        BY <2>2, <3>2, <3>3, <3>4 DEF Counts
      <3>6. \A u \in Tracks : track'[u] \in {"store", "send"} => cur'[u] # v
        BY <2>3, <3>1 DEF InSend
      <3> QED
        BY <2>1, <3>2, <3>4, <3>5, <3>6 DEF Counts
    <2>6. CASE cur[t] # v
      <3>1. out'[v] = out[v]
        BY <2>0, <2>6, WriteTypes
      <3>2. \A u \in Tracks : track'[u] \in {"store", "send"} => u # t
        BY <2>3
      <3>3. Quiet(v)' => Quiet(v)
        BY <2>3, <2>6 DEF Quiet
      <3> QED
        BY <2>1, <2>2, <2>3, <3>1, <3>2, <3>3 DEF Counts
    <2> QED
      BY <2>5, <2>6
  <1>5. CASE /\ \A r \in Reqs, k \in Keys : ~CtlChange(r, k)
             /\ \A t \in Tracks : ~LoadSeq(t) /\ ~StoreSeq(t) /\ ~SendPacket(t)
    <2>1. UNCHANGED <<seq, out, since, tmp>>
      BY <1>5, CountFrame
    <2>2. Counts(v)
      BY <1>0, <2>1
    <2>3. Quiet(v)' => Quiet(v)
      BY <1>5, CountFrame DEF Quiet
    <2>4. \A t \in Tracks : track'[t] \in {"store", "send"} => track[t] = track'[t] /\ cur[t] = cur'[t]
      BY <1>5, CountFrame
    <2> QED
      BY <2>1, <2>2, <2>3, <2>4 DEF Counts
  <1> QED
    BY <1>1, <1>2, <1>3, <1>4, <1>5


\* Tracks come up one at a time.
LEMMA ActiveStep == RelayInv /\ ActiveInv /\ [Next]_vars => ActiveInv'
  <1> SUFFICES ASSUME RelayInv, ActiveInv, [Next]_vars PROVE ActiveInv'
    OBVIOUS
  <1> DEFINE Up == {t \in Tracks : track[t] # "off"}
  <1>1. IsFiniteSet(Up)
    BY DEF ActiveInv
  <1>2. ASSUME NEW t \in Tracks, \A u \in Tracks : u # t => track'[u] = track[u]
        PROVE  IsFiniteSet(Up')
    <2>1. IsFiniteSet(Up \cup {t})
      BY <1>1, FS_AddElement
    <2>2. Up' \in SUBSET (Up \cup {t})
      BY <1>2
    <2> QED
      BY <2>1, <2>2, FS_Subset
  <1>3. ASSUME UNCHANGED track PROVE IsFiniteSet(Up')
    <2>1. Up' = Up
      BY <1>3
    <2> QED
      BY <1>1, <2>1
  <1>4. ASSUME NEW t \in Tracks, Track(t) PROVE IsFiniteSet(Up')
    <2>1. (\A u \in Tracks : u # t => track'[u] = track[u]) \/ UNCHANGED track
      BY <1>4, WriteTypes
      DEF Track, FanOut, OnTrack, addTrack, ReadPacket, TrackEnd, BeginFanOut, CheckLayer,
          ClaimLayer, LoadSeq, StoreSeq, SendPacket, EndFanOut, ForwardPli, Goto
    <2> QED
      BY <1>2, <1>3, <2>1
  <1>5. (\E t \in Tracks : Track(t)) \/ UNCHANGED track
    <2>1. ASSUME NEW c \in Conns, Handler(c) PROVE UNCHANGED track
      BY <2>1, HandlerFrame DEF trackVars
    <2>2. ASSUME NEW p \in Pubs, Publisher(p) PROVE UNCHANGED track
      BY <2>2 DEF Publisher, WhipAnswer, deleteStream, trackVars
    <2>3. ASSUME NEW v \in Views, Viewer(v) PROVE UNCHANGED track
      BY <2>3 DEF Viewer, WhepAnswer, DropSession, ViewerPli, trackVars
    <2>4. ASSUME NEW r \in Reqs, Control(r) PROVE UNCHANGED track
      BY <2>4, ControlFrame DEF trackVars
    <2>5. CASE UNCHANGED vars
      BY <2>5 DEF vars, trackVars
    <2> QED
      BY <2>1, <2>2, <2>3, <2>4, <2>5 DEF Next
  <1> QED
    BY <1>3, <1>4, <1>5 DEF ActiveInv

\* Of at most one carrier there are no two.
LEMMA AtMostOne ==
  ASSUME ActiveInv, NEW s, NEW l, Cardinality(Carriers(s, l)) <= 1
  PROVE  \A t, u \in Carriers(s, l) : t = u
  <1> SUFFICES ASSUME NEW t \in Carriers(s, l), NEW u \in Carriers(s, l), t # u PROVE FALSE
    OBVIOUS
  <1>1. IsFiniteSet(Carriers(s, l))
    <2>1. Carriers(s, l) \in SUBSET {x \in Tracks : track[x] # "off"}
      BY DEF Carriers
    <2> QED
      BY <2>1, FS_Subset DEF ActiveInv
  <1>2. Cardinality({t, u}) = 2 /\ {t, u} \in SUBSET Carriers(s, l)
    <2>1. IsFiniteSet({t}) /\ Cardinality({t}) = 1
      BY FS_Singleton
    <2>2. Cardinality({t} \cup {u}) = 2
      BY <2>1, FS_AddElement
    <2>3. {t} \cup {u} = {t, u}
      OBVIOUS
    <2> QED
      BY <2>2, <2>3
  <1>3. Cardinality({t, u}) <= Cardinality(Carriers(s, l)) /\ Cardinality(Carriers(s, l)) \in Nat
    BY <1>1, <1>2, FS_Subset, FS_CardinalityType
  <1> QED
    BY <1>2, <1>3

\* The numbers a viewer is sent have no gap and no repetition if it chose its
\* layer first and one track carries that layer, whatever the number of viewers,
\* publishers and tracks.
THEOREM Sequence == Spec => []SequenceExact
  <1> DEFINE Inv == StartInv /\ CountInv /\ ActiveInv
  <1>1. Init => Inv
    <2> SUFFICES ASSUME Init PROVE Inv
      OBVIOUS
    <2>1. StartInv
      BY DEF Init, StartInv
    <2>2. CountInv
      BY DEF Init, CountInv, Chosen
    <2>3. ActiveInv
      <3>1. {t \in Tracks : track[t] # "off"} = {}
        BY DEF Init
      <3> QED
        BY <3>1, FS_EmptySet DEF ActiveInv
    <2> QED
      BY <2>1, <2>2, <2>3
  <1>2. RelayInv /\ Inv /\ [Next]_vars => Inv'
    BY StartStep, CountStep, ActiveStep
  <1>3. Inv => SequenceExact
    <2> SUFFICES ASSUME Inv, NEW v \in Views, since[v].layer # NoLayer, since[v].at = 0,
                        Cardinality(Carriers(home[v], since[v].layer)) <= 1
                 PROVE  \A i \in DOMAIN out[v] : out[v][i].seq = i % SeqMod
      BY DEF SequenceExact
    <2>1. Chosen(v)
      BY AtMostOne DEF Chosen
    <2> QED
      BY <2>1 DEF CountInv, Counts
  <1> HIDE DEF Inv
  <1> QED
    BY <1>1, <1>2, <1>3, Invariance, PTL DEF Spec

----------------------------------------------------------------------------
(***************************************************************************)
(* Which stream object joins whom.  getStream makes an object at most once *)
(* per entry of streamMap, and home remembers who captured it.  The        *)
(* strengthening says that an object never changes keys: whatever is in    *)
(* streamMap was captured by a handler of that key, and two handlers that  *)
(* captured one object gave one key.                                       *)
(***************************************************************************)
\* An object in streamMap was captured, and only under that key.
MapHome ==
  \A k \in Keys : streamMap[k] # None =>
    /\ \E c \in Conns : home[c] = streamMap[k]
    /\ \A c \in Conns : home[c] = streamMap[k] => key[c] = k

\* Handlers that share an object share the key.
SharedHome ==
  \A c, d \in Conns : home[c] # None /\ home[c] = home[d] => key[c] = key[d]

IdentityInv == RelayInv /\ MapHome /\ SharedHome

\* The initial state satisfies the invariant about stream objects.
LEMMA IdentityInit == Init => MapHome /\ SharedHome /\ OneStreamUntilFailure
  BY DEF Init, MapHome, SharedHome, OneStreamUntilFailure

\* Only these steps touch what identifies a stream object.
LEMMA IdentityFrame ==
  ASSUME RelayInv, [Next]_vars,
         \A c \in Conns, k \in Keys : ~Request(c, k),
         \A c \in Conns, s \in Streams : ~Negotiate(c, s) /\ ~Reject(c, s),
         \A p \in Pubs : ~deleteStream(p)
  PROVE  /\ UNCHANGED <<streamMap, key, home>>
         /\ \A p \in Pubs : ice[p] = "closed" => ice'[p] = "closed"
  <1>0. ASSUME UNCHANGED <<streamMap, connVars>>
        PROVE  /\ UNCHANGED <<streamMap, key, home>>
               /\ \A p \in Pubs : ice[p] = "closed" => ice'[p] = "closed"
    BY <1>0 DEF connVars
  <1>00. ice \in [Conns -> {"up", "failed", "closed"}] /\ Pubs \subseteq Conns
    BY DEF RelayInv, TypeOK, ConnTypes, Conns
  <1> DEFINE Goal == /\ UNCHANGED <<streamMap, key, home>>
                     /\ \A p \in Pubs : ice[p] = "closed" => ice'[p] = "closed"
  <1>1. ASSUME NEW c \in Conns, Handler(c) PROVE Goal
    BY <1>00, <1>1 DEF Handler, RejectEarly, IceFailed, relayVars
  <1>2. ASSUME NEW p \in Pubs, Publisher(p) PROVE Goal
    BY <1>2 DEF Publisher, WhipAnswer
  <1>3. ASSUME NEW v \in Views, Viewer(v) PROVE Goal
    BY <1>00, <1>3 DEF Viewer, WhepAnswer, DropSession, ViewerPli, connVars
  <1>4. ASSUME NEW t \in Tracks, Track(t) PROVE Goal
    BY <1>0, <1>4, TrackFrame
  <1>5. ASSUME NEW r \in Reqs, Control(r) PROVE Goal
    BY <1>0, <1>5, ControlFrame
  <1>6. CASE UNCHANGED vars
    BY <1>0, <1>6 DEF vars, relayVars
  <1> QED
    BY <1>1, <1>2, <1>3, <1>4, <1>5, <1>6 DEF Next

\* What getStream does for a handler c of key k: the object it hands out is
\* the one in streamMap afterwards, and the other entries stay.
LEMMA Captures ==
  ASSUME RelayInv, NEW c \in Conns, NEW s \in Streams, Negotiate(c, s) \/ Reject(c, s)
  PROVE  /\ key[c] \in Keys /\ home[c] = None /\ s # None
         /\ getStream(key[c], s)
         /\ streamMap' = [streamMap EXCEPT ![key[c]] = s]
         /\ home' = [home EXCEPT ![c] = s]
         /\ UNCHANGED <<key, ice>>
  <1>1. conn[c] = "want" /\ getStream(key[c], s) /\ UNCHANGED <<key, ice>>
        /\ home' = [home EXCEPT ![c] = s]
    BY DEF Negotiate, Reject
  <1>2. key[c] \in Keys /\ home[c] = None
    BY <1>1 DEF RelayInv, HomeInv, TypeOK, ConnTypes
  <1>3. streamMap \in [Keys -> Streams \cup {None}]
    BY DEF RelayInv, TypeOK, RelayTypes
  <1>4. streamMap' = [streamMap EXCEPT ![key[c]] = s]
    BY <1>1, <1>2, <1>3 DEF getStream
  <1> QED
    BY <1>1, <1>2, <1>4, RelayAssumption

\* Every step keeps the invariant about stream objects.
LEMMA IdentityStep == IdentityInv /\ [Next]_vars => (MapHome /\ SharedHome)'
  <1> SUFFICES ASSUME IdentityInv, [Next]_vars PROVE MapHome' /\ SharedHome'
    OBVIOUS
  <1>0. /\ RelayInv /\ MapHome /\ SharedHome
        /\ streamMap \in [Keys -> Streams \cup {None}]
        /\ home \in [Conns -> Streams \cup {None}] /\ key \in [Conns -> Keys \cup {None}]
    BY DEF IdentityInv, RelayInv, TypeOK, RelayTypes, ConnTypes
  <1>1. ASSUME NEW c \in Conns, NEW k \in Keys, Request(c, k) PROVE MapHome' /\ SharedHome'
    <2>1. home[c] = None /\ key' = [key EXCEPT ![c] = k] /\ UNCHANGED <<streamMap, home>>
      BY <1>0, <1>1 DEF Request, RelayInv, HomeInv, relayVars
    <2> QED
      BY <1>0, <2>1 DEF MapHome, SharedHome
  <1>2. ASSUME NEW c \in Conns, NEW s \in Streams, Negotiate(c, s) \/ Reject(c, s)
        PROVE  MapHome' /\ SharedHome'
    <2>1. /\ key[c] \in Keys /\ home[c] = None /\ s # None
          /\ getStream(key[c], s)
          /\ streamMap' = [streamMap EXCEPT ![key[c]] = s]
          /\ home' = [home EXCEPT ![c] = s]
          /\ key' = key
      BY <1>0, <1>2, Captures
    <2>2. \A d \in Conns : home[d] = s => key[d] = key[c]
      BY <1>0, <2>1 DEF getStream, MapHome
    <2>3. \A k \in Keys : k # key[c] /\ streamMap[k] # None => streamMap[k] # s
      BY <1>0, <2>1 DEF getStream, MapHome
    <2>4. MapHome'
      <3> SUFFICES ASSUME NEW k \in Keys, streamMap'[k] # None
                   PROVE  /\ \E d \in Conns : home'[d] = streamMap'[k]
                          /\ \A d \in Conns : home'[d] = streamMap'[k] => key'[d] = k
        BY DEF MapHome
      <3>1. CASE k = key[c]
        BY <1>0, <2>1, <2>2, <3>1
      <3>2. CASE k # key[c]
        <4>1. streamMap'[k] = streamMap[k] /\ streamMap[k] # s
          BY <1>0, <2>1, <2>3, <3>2
        <4>2. \A d \in Conns : d # c => home'[d] = home[d]
          BY <1>0, <2>1
        <4>3. home'[c] = s
          BY <1>0, <2>1
        <4> QED
          BY <1>0, <2>1, <4>1, <4>2, <4>3 DEF MapHome
      <3> QED
        BY <3>1, <3>2
    <2>5. SharedHome'
      BY <1>0, <2>1, <2>2 DEF SharedHome
    <2> QED
      BY <2>4, <2>5
  <1>3. ASSUME NEW p \in Pubs, deleteStream(p) PROVE MapHome' /\ SharedHome'
    <2>1. streamMap' = [streamMap EXCEPT ![key[p]] = None] /\ UNCHANGED <<key, home>>
      BY <1>3 DEF deleteStream
    <2> QED
      BY <1>0, <2>1 DEF MapHome, SharedHome
  <1>4. ASSUME UNCHANGED <<streamMap, key, home>> PROVE MapHome' /\ SharedHome'
    BY <1>0, <1>4 DEF MapHome, SharedHome
  <1> QED
    BY <1>0, <1>1, <1>2, <1>3, <1>4, IdentityFrame

\* Every step keeps the users of one key on the object in streamMap.
LEMMA OneStreamStep ==
  RelayInv /\ OneStreamUntilFailure /\ [Next]_vars => OneStreamUntilFailure'
  <1> DEFINE NoneFailed(k) == \A p \in Pubs : key[p] = k => ice[p] # "closed"
  <1> SUFFICES ASSUME RelayInv, OneStreamUntilFailure, [Next]_vars,
                      NEW k \in Keys, NoneFailed(k)',
                      NEW d \in Conns, key'[d] = k, home'[d] # None
               PROVE  home'[d] = streamMap'[k]
    BY DEF OneStreamUntilFailure
  <1>0. /\ streamMap \in [Keys -> Streams \cup {None}]
        /\ home \in [Conns -> Streams \cup {None}] /\ key \in [Conns -> Keys \cup {None}]
        /\ ice \in [Conns -> {"up", "failed", "closed"}] /\ Pubs \subseteq Conns
    BY DEF RelayInv, TypeOK, RelayTypes, ConnTypes, Conns
  <1>00. NoneFailed(k) => \A c \in Conns : key[c] = k /\ home[c] # None => home[c] = streamMap[k]
    BY DEF OneStreamUntilFailure
  <1>1. ASSUME NEW c \in Conns, NEW l \in Keys, Request(c, l) PROVE home'[d] = streamMap'[k]
    <2>1. /\ home[c] = None /\ ice[c] = "up" /\ key' = [key EXCEPT ![c] = l]
          /\ UNCHANGED <<streamMap, home, ice>>
      BY <1>0, <1>1 DEF Request, RelayInv, HomeInv, relayVars
    <2>2. NoneFailed(k)
      BY <1>0, <2>1
    <2> QED
      BY <1>0, <1>00, <2>1, <2>2
  <1>2. ASSUME NEW c \in Conns, NEW s \in Streams, Negotiate(c, s) \/ Reject(c, s)
        PROVE  home'[d] = streamMap'[k]
    <2>1. /\ key[c] \in Keys /\ home[c] = None /\ s # None
          /\ getStream(key[c], s)
          /\ streamMap' = [streamMap EXCEPT ![key[c]] = s]
          /\ home' = [home EXCEPT ![c] = s]
          /\ UNCHANGED <<key, ice>>
      BY <1>2, Captures
    <2>2. NoneFailed(k)
      BY <2>1
    <2>3. CASE d = c
      BY <1>0, <2>1, <2>3
    <2>4. CASE d # c
      <3>1. home'[d] = home[d] /\ home[d] = streamMap[k]
        BY <1>0, <1>00, <2>1, <2>2, <2>4
      <3>2. streamMap'[k] = streamMap[k]
        BY <1>0, <2>1, <3>1 DEF getStream
      <3> QED
        BY <3>1, <3>2
    <2> QED
      BY <2>3, <2>4
  <1>3. ASSUME NEW p \in Pubs, deleteStream(p) PROVE home'[d] = streamMap'[k]
    <2>1. /\ streamMap' = [streamMap EXCEPT ![key[p]] = None]
          /\ ice' = [ice EXCEPT ![p] = "closed"] /\ UNCHANGED <<key, home>>
      BY <1>3 DEF deleteStream
    <2>2. key[p] # k /\ NoneFailed(k)
      BY <1>0, <2>1
    <2> QED
      BY <1>0, <1>00, <2>1, <2>2
  <1>4. ASSUME UNCHANGED <<streamMap, key, home>>,
               \A p \in Pubs : ice[p] = "closed" => ice'[p] = "closed"
        PROVE  home'[d] = streamMap'[k]
    <2>1. NoneFailed(k)
      BY <1>4
    <2> QED
      BY <1>00, <1>4, <2>1
  <1> QED
    BY <1>1, <1>2, <1>3, <1>4, IdentityFrame
----------------------------------------------------------------------------
\* Whoever gives one key is joined by one stream object, the one in streamMap,
\* as long as no publisher of that key has failed.
THEOREM OneStream == Spec => []OneStreamUntilFailure
  <1>1. RelayInv /\ OneStreamUntilFailure /\ [Next]_vars => OneStreamUntilFailure'
    BY OneStreamStep
  <1> QED
    BY IdentityInit, <1>1, Invariance, PTL DEF Spec

\* A track fans out to sessions of its publisher's key and of no other key,
\* also after failures have left several objects behind.
THEOREM Separation == Spec => []KeysAreSeparate
  <1>1. Spec => []IdentityInv
    <2>1. IdentityInv /\ [Next]_vars => (MapHome /\ SharedHome)'
      BY IdentityStep
    <2> QED
      BY IdentityInit, <2>1, Invariance, PTL DEF Spec, IdentityInv
  <1>2. IdentityInv => KeysAreSeparate
    <2> SUFFICES ASSUME IdentityInv, NEW t \in Tracks, track[t] \in InFan, NEW v \in todo[t]
                 PROVE  key[v] = key[t[1]]
      BY DEF KeysAreSeparate
    <2>1. v \in sessions[StreamOf(t)] /\ t[1] \in Conns
      BY DEF IdentityInv, RelayInv, LockInv, Tracks, Conns
    <2>2. StreamOf(t) \in Streams /\ StreamOf(t) # None
      <3>1. track[t] # "off"
        BY DEF InFan
      <3>2. home[t[1]] # None
        BY <2>1, <3>1 DEF IdentityInv, RelayInv, HomeInv
      <3>3. home[t[1]] \in Streams \cup {None}
        BY <2>1 DEF IdentityInv, RelayInv, TypeOK, ConnTypes
      <3> QED
        BY <3>2, <3>3 DEF StreamOf
    <2>3. home[v] = StreamOf(t) /\ v \in Conns
      BY <2>1, <2>2 DEF IdentityInv, RelayInv, HomeInv, TypeOK, RelayTypes, Conns
    <2> QED
      BY <2>1, <2>2, <2>3 DEF IdentityInv, SharedHome, StreamOf
  <1> QED
    BY <1>1, <1>2, PTL
----------------------------------------------------------------------------
(***************************************************************************)
(* Who waits for whom.  A track keeps the read lock of its own stream for  *)
(* as long as it fans out (ReaderInv); session locks are taken for writing *)
(* by requests that have streamMapLock, and none twice, because no stream  *)
(* object is under two keys of streamMap (WriterInv, with MapHome).        *)
(***************************************************************************)

\* A reader of a session lock is a track of that stream in its fan-out.
ReaderInv ==
  \A s \in Streams : \A t \in sessR[s] : track[t] \in InFan /\ StreamOf(t) = s

\* The holder of streamMapLock is in its handler; whoever has a session lock for
\* writing is this holder, and the streams it has still to lock are free of it.
WriterInv ==
  /\ \A s \in Streams : sessW[s] \in {None, mapLock}
  /\ mapLock \in Conns => conn[mapLock] = "gather"
  /\ mapLock \in Reqs => ctl[mapLock] \in {"scan", "send"}
  /\ \A r \in Reqs : ctl[r] \in {"scan", "send"} => \A k \in rest[r] : sessW[streamMap[k]] = None

\* Two keys of streamMap have two stream objects.
LEMMA DistinctStreams ==
  ASSUME IdentityInv, NEW j \in Keys, NEW k \in Keys, streamMap[j] # None, streamMap[j] = streamMap[k]
  PROVE  j = k
  <1>1. PICK c \in Conns : home[c] = streamMap[j]
    BY DEF IdentityInv, MapHome
  <1>2. key[c] = j /\ key[c] = k
    BY <1>1 DEF IdentityInv, MapHome
  <1> QED
    BY <1>2

\* Every step keeps the read locks with tracks that fan out.
LEMMA ReaderStep == RelayInv /\ ReaderInv /\ [Next]_vars => ReaderInv'
  <1> SUFFICES ASSUME RelayInv, ReaderInv, [Next]_vars PROVE ReaderInv'
    OBVIOUS
  <1> SUFFICES ASSUME NEW s \in Streams, NEW t \in Tracks, t \in sessR'[s]
               PROVE  track'[t] \in InFan /\ StreamOf(t)' = s
    <2>1. sessR' \in [Streams -> SUBSET Tracks]
      BY TypeStep DEF TypeOK, RelayTypes
    <2> QED
      BY <2>1 DEF ReaderInv
  <1>0. /\ sessR \in [Streams -> SUBSET Tracks] /\ track \in [Tracks -> TrackStates]
        /\ home \in [Conns -> Streams \cup {None}] /\ t[1] \in Conns
        /\ \A u \in Tracks : track[u] # "off" => conn[u[1]] \in {"gather", "live"}
    BY DEF RelayInv, TypeOK, RelayTypes, TrackTypes, ConnTypes, HomeInv, Tracks, Conns
  <1>1. ASSUME UNCHANGED <<sessR, track>>, home'[t[1]] = home[t[1]] \/ track[t] = "off"
        PROVE  track'[t] \in InFan /\ StreamOf(t)' = s
    BY <1>1 DEF ReaderInv, StreamOf, InFan
  <1>2. ASSUME NEW c \in Conns, Handler(c) PROVE track'[t] \in InFan /\ StreamOf(t)' = s
    <2>1. home'[t[1]] = home[t[1]] \/ track[t] = "off"
      BY <1>0, <1>2 DEF Handler, Request, Negotiate, Reject, RejectEarly, IceFailed
    <2> QED
      BY <1>1, <1>2, <2>1, HandlerFrame DEF trackVars
  <1>3. ASSUME NEW p \in Pubs, Publisher(p) PROVE track'[t] \in InFan /\ StreamOf(t)' = s
    BY <1>1, <1>3 DEF Publisher, WhipAnswer, deleteStream, trackVars
  <1>4. ASSUME NEW v \in Views, Viewer(v) PROVE track'[t] \in InFan /\ StreamOf(t)' = s
    BY <1>1, <1>4 DEF Viewer, WhepAnswer, DropSession, ViewerPli, connVars, trackVars
  <1>5. ASSUME NEW u \in Tracks, Track(u) PROVE track'[t] \in InFan /\ StreamOf(t)' = s
    <2>0. UNCHANGED home
      BY <1>5, TrackFrame DEF connVars
    <2>1. ASSUME UNCHANGED sessR, track'[u] \in InFan \/ track[u] \notin InFan,
                 \A x \in Tracks : x # u => track'[x] = track[x]
          PROVE  track'[t] \in InFan /\ StreamOf(t)' = s
      BY <1>5, <2>0, <2>1 DEF ReaderInv, StreamOf
    <2>2. CASE OnTrack(u) \/ addTrack(u) \/ ReadPacket(u) \/ TrackEnd(u)
      BY <1>0, <2>1, <2>2 DEF OnTrack, addTrack, ReadPacket, TrackEnd, Goto, InFan, relayVars
    <2>3. CASE BeginFanOut(u)
      <3>1. /\ track' = [track EXCEPT ![u] = "fan"]
            /\ sessR' = [sessR EXCEPT ![StreamOf(u)] = @ \cup {u}]
        BY <2>3 DEF BeginFanOut, Goto
      <3>2. CASE t \in sessR[s]
        BY <1>0, <2>0, <3>1, <3>2 DEF ReaderInv, StreamOf, InFan
      <3>3. CASE t \notin sessR[s]
        <4>1. t = u /\ s = StreamOf(u)
          BY <1>0, <3>1, <3>3
        <4> QED
          BY <1>0, <2>0, <3>1, <4>1 DEF StreamOf, InFan
      <3> QED
        BY <3>2, <3>3
    <2>4. ASSUME NEW v \in Views, CheckLayer(u, v) PROVE track'[t] \in InFan /\ StreamOf(t)' = s
      BY <1>0, <2>1, <2>4 DEF CheckLayer, Goto, InFan, relayVars
    <2>5. CASE ClaimLayer(u) \/ LoadSeq(u) \/ StoreSeq(u) \/ SendPacket(u)
      BY <1>0, <2>1, <2>5 DEF ClaimLayer, LoadSeq, StoreSeq, SendPacket, Goto, InFan, relayVars
    <2>6. CASE EndFanOut(u)
      <3>1. /\ track' = [track EXCEPT ![u] = "read"]
            /\ sessR' = [sessR EXCEPT ![StreamOf(u)] = @ \ {u}]
        BY <2>6 DEF EndFanOut, Goto
      <3>2. t \in sessR[s]
        BY <1>0, <3>1
      <3>3. track[t] \in InFan /\ StreamOf(t) = s
        BY <3>2 DEF ReaderInv
      <3>4. t # u
        BY <1>0, <3>1, <3>3
      <3> QED
        BY <1>0, <2>0, <3>1, <3>3, <3>4 DEF StreamOf
    <2>7. CASE ForwardPli(u)
      BY <1>1, <2>0, <2>7 DEF ForwardPli
    <2> QED
      BY <1>5, <2>2, <2>3, <2>4, <2>5, <2>6, <2>7 DEF Track, FanOut
  <1>6. ASSUME NEW r \in Reqs, Control(r) PROVE track'[t] \in InFan /\ StreamOf(t)' = s
    BY <1>1, <1>6, ControlFrame DEF connVars, trackVars
  <1>7. CASE UNCHANGED vars
    BY <1>1, <1>7 DEF vars, relayVars, connVars, trackVars
  <1> QED
    BY <1>2, <1>3, <1>4, <1>5, <1>6, <1>7 DEF Next

\* Every step keeps the session locks with the holder of streamMapLock.
LEMMA WriterStep == IdentityInv /\ WriterInv /\ [Next]_vars => WriterInv'
  <1> SUFFICES ASSUME IdentityInv, WriterInv, [Next]_vars PROVE WriterInv'
    OBVIOUS
  <1>0. /\ mapLock \in Conns \cup Reqs \cup {None} /\ sessW \in [Streams -> Reqs \cup {None}]
        /\ conn \in [Conns -> ConnStates] /\ rest \in [Reqs -> SUBSET Keys]
        /\ ctl \in [Reqs -> {"idle", "want", "scan", "send", "done"}]
        /\ streamMap \in [Keys -> Streams \cup {None}]
        /\ Conns \cap Reqs = {} /\ None \notin Conns \cup Reqs
        /\ Pubs \subseteq Conns /\ Views \subseteq Conns
    BY RelayAssumption DEF IdentityInv, RelayInv, TypeOK, RelayTypes, ConnTypes, CtlTypes, Conns
  <1>00. /\ \A c \in Conns : conn[c] = "gather" => mapLock = c
         /\ \A r \in Reqs : ctl[r] \in {"scan", "send"} =>
              mapLock = r /\ \A k \in rest[r] : streamMap[k] # None
    BY DEF IdentityInv, RelayInv, MapInv
  <1>1. ASSUME NEW c \in Conns, Handler(c) PROVE WriterInv'
    <2>1. UNCHANGED <<ctl, rest>>
      BY <1>1, HandlerFrame DEF ctlVars
    <2>2. ASSUME UNCHANGED <<streamMap, mapLock, sessW>>,
                 \A d \in Conns : conn[d] = "gather" => conn'[d] = "gather"
          PROVE  WriterInv'
      BY <2>1, <2>2 DEF WriterInv
    <2>3. ASSUME mapLock = None PROVE \A r \in Reqs : ctl[r] \notin {"scan", "send"}
      BY <1>0, <1>00, <2>3
    <2>4. ASSUME NEW k \in Keys, Request(c, k) PROVE WriterInv'
      BY <1>0, <2>2, <2>4 DEF Request, relayVars
    <2>5. ASSUME NEW s \in Streams, Negotiate(c, s) PROVE WriterInv'
      BY <1>0, <2>1, <2>3, <2>5 DEF Negotiate, WriterInv
    <2>6. ASSUME NEW s \in Streams, Reject(c, s) PROVE WriterInv'
      BY <1>0, <2>1, <2>3, <2>6 DEF Reject, WriterInv
    <2>7. CASE RejectEarly(c)
      BY <1>0, <2>2, <2>7 DEF RejectEarly, relayVars
    <2>8. CASE IceFailed(c)
      BY <1>0, <2>2, <2>8 DEF IceFailed, relayVars
    <2> QED
      BY <1>1, <2>4, <2>5, <2>6, <2>7, <2>8 DEF Handler
  <1>2. ASSUME NEW c \in Conns, WhipAnswer(c) \/ WhepAnswer(c) PROVE WriterInv'
    <2>1. /\ conn[c] = "gather" /\ mapLock' = None
          /\ UNCHANGED <<streamMap, sessW, ctl, rest>>
      BY <1>2 DEF WhipAnswer, WhepAnswer, ctlVars
    <2>2. mapLock = c /\ \A s \in Streams : sessW[s] = None
      BY <1>0, <1>00, <2>1 DEF WriterInv
    <2> QED
      BY <1>0, <1>00, <2>1, <2>2 DEF WriterInv
  <1>3. ASSUME NEW p \in Pubs, deleteStream(p) PROVE WriterInv'
    <2>1. \A r \in Reqs : ctl[r] \notin {"scan", "send"}
      BY <1>0, <1>00, <1>3 DEF deleteStream
    <2> QED
      BY <1>0, <1>3, <2>1 DEF deleteStream, WriterInv, ctlVars
  <1>4. ASSUME UNCHANGED <<streamMap, mapLock, sessW, conn, ctl, rest>> PROVE WriterInv'
    BY <1>4 DEF WriterInv
  <1>5. ASSUME NEW v \in Views, DropSession(v) \/ ViewerPli(v) PROVE WriterInv'
    BY <1>4, <1>5 DEF DropSession, ViewerPli, connVars, ctlVars
  <1>6. ASSUME NEW t \in Tracks, Track(t) PROVE WriterInv'
    BY <1>4, <1>6, TrackFrame DEF connVars, ctlVars
  <1>7. ASSUME NEW r \in Reqs, Control(r) PROVE WriterInv'
    <2>0. UNCHANGED <<streamMap, conn>>
      BY <1>7, ControlFrame DEF connVars
    <2>1. ASSUME NEW op \in Ops, NEW v \in Views, NEW l \in Layers \cup {NoLayer},
                 CtlRequest(r, op, v, l)
          PROVE WriterInv'
      BY <1>0, <2>0, <2>1 DEF CtlRequest, WriterInv, relayVars
    <2>2. CASE CtlLockMap(r)
      BY <1>0, <1>00, <2>0, <2>2 DEF CtlLockMap, WriterInv
    <2>3. ASSUME NEW k \in Keys, TakeSessions(r, k), ctl'[r] \in {"scan", "send"},
                 rest' \in {[rest EXCEPT ![r] = @ \ {k}], [rest EXCEPT ![r] = {}]},
                 \A q \in Reqs : q # r => ctl'[q] = ctl[q]
          PROVE  WriterInv'
      <3>1. /\ mapLock = r /\ ctl[r] = "scan" /\ k \in rest[r] /\ UNCHANGED mapLock
            /\ sessW' = [sessW EXCEPT ![streamMap[k]] = r]
        BY <1>00, <2>3 DEF TakeSessions
      <3>2. streamMap[k] # None /\ \A j \in Keys : j # k => streamMap[j] # streamMap[k]
        BY <1>00, <3>1, DistinctStreams
      <3>3. ASSUME NEW q \in Reqs, ctl'[q] \in {"scan", "send"}, NEW j \in rest'[q]
            PROVE  sessW'[streamMap[j]] = None
        <4>1. q = r
          BY <1>00, <2>3, <3>1, <3>3
        <4>2. j \in rest[r] /\ j # k /\ j \in Keys
          BY <1>0, <2>3, <3>3, <4>1
        <4>3. sessW[streamMap[j]] = None /\ streamMap[j] \in Streams
          BY <1>0, <1>00, <3>1, <4>2 DEF WriterInv
        <4> QED
          BY <1>0, <3>1, <3>2, <4>2, <4>3
      <3> QED
        BY <1>0, <2>0, <2>3, <3>1, <3>3 DEF WriterInv
    <2>4. ASSUME NEW k \in Keys, CtlMiss(r, k) \/ CtlList(r, k) PROVE WriterInv'
      BY <1>0, <2>3, <2>4 DEF CtlMiss, CtlList, TakeSessions
    <2>5. ASSUME NEW k \in Keys, CtlChange(r, k) PROVE WriterInv'
      BY <1>0, <2>3, <2>5 DEF CtlChange, TakeSessions
    <2>6. CASE CtlSend(r)
      BY <1>0, <2>0, <2>6 DEF CtlSend, WriterInv
    <2>7. CASE CtlReturn(r)
      BY <1>0, <1>00, <2>0, <2>7 DEF CtlReturn, WriterInv
    <2> QED
      BY <1>7, <2>1, <2>2, <2>4, <2>5, <2>6, <2>7 DEF Control, Serve
  <1>8. CASE UNCHANGED vars
    BY <1>4, <1>8 DEF vars, relayVars, connVars, ctlVars
  <1> QED
    BY <1>0, <1>1, <1>2, <1>3, <1>5, <1>6, <1>7, <1>8 DEF Next, Publisher, Viewer

\* For any number of keys, streams and requests the locks of the relay are taken
\* in an order: streamMapLock first, then session locks that are free or read by
\* tracks that wait for nothing.
THEOREM NoLockCycle == Spec => []LocksAreAcyclic
  <1>1. Init => ReaderInv /\ WriterInv
    BY RelayAssumption DEF Init, ReaderInv, WriterInv, Conns
  <1>2. IdentityInv /\ [Next]_vars => (MapHome /\ SharedHome)'
    BY IdentityStep
  <1>3. Spec => []IdentityInv
    BY IdentityInit, <1>2, Invariance, PTL DEF Spec, IdentityInv
  <1>4. RelayInv /\ ReaderInv /\ [Next]_vars => ReaderInv'
    BY ReaderStep
  <1>5. IdentityInv /\ WriterInv /\ [Next]_vars => WriterInv'
    BY WriterStep
  <1>6. RelayInv /\ ReaderInv /\ WriterInv => LocksAreAcyclic
    <2> SUFFICES ASSUME RelayInv, ReaderInv, WriterInv, NEW s \in Wanted
                 PROVE  s # None /\ sessW[s] = None
      BY DEF LocksAreAcyclic, ReaderInv, WriterInv
    <2>1. CASE mapLock \in Views
      <3>1. s = home[mapLock] /\ mapLock \in Conns /\ conn[mapLock] = "gather"
        BY <2>1 DEF Wanted, WriterInv, Conns
      <3>2. s # None /\ s \in Streams
        BY <3>1 DEF RelayInv, HomeInv, TypeOK, ConnTypes
      <3>3. sessW[s] \in {None, mapLock} /\ sessW[s] \in Reqs \cup {None}
        BY <3>2 DEF WriterInv, RelayInv, TypeOK, RelayTypes
      <3> QED
        BY <2>1, <3>2, <3>3, RelayAssumption
    <2>2. CASE mapLock \in Reqs /\ mapLock \notin Views
      <3>1. PICK k \in rest[mapLock] : s = streamMap[k]
        BY <2>2 DEF Wanted
      <3>2. ctl[mapLock] \in {"scan", "send"}
        BY <2>2 DEF WriterInv
      <3> QED
        BY <2>2, <3>1, <3>2 DEF WriterInv, RelayInv, MapInv
    <2> QED
      BY <2>1, <2>2 DEF Wanted
  <1> HIDE DEF IdentityInv
  <1> QED
    BY <1>1, <1>3, <1>4, <1>5, <1>6, Invariance, PTL DEF Spec
============================================================================
