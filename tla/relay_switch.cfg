SPECIFICATION Spec
CONSTANTS
  Keys = {k1}
  Streams = {s1}
  Pubs = {p1}
  Views = {v1}
  Layers = {hi, lo}
  Reqs = {r1, r2}
  None = None
  NoLayer = NoLayer
  PliCap = 1
  SeqMod = 2
  MaxPackets = 2
  Ops = {"change"}
  Failing = {}
  Lossy = {}
SYMMETRY ReqSymmetry
CHECK_DEADLOCK FALSE
INVARIANTS TypeOK SwitchHolds SequenceExact RaceNeedsSharedLayer
PROPERTY ImplementsFeed
