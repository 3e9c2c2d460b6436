SPECIFICATION Spec
CONSTANTS
  Keys = {k1, k2}
  Streams = {s1, s2, s3}
  Pubs = {p1, p2}
  Views = {v1}
  Layers = {hi}
  Reqs = {r1}
  None = None
  NoLayer = NoLayer
  PliCap = 1
  SeqMod = 3
  MaxPackets = 1
  Ops = {"layers", "change"}
  Failing = {p1, v1}
  Lossy = {}
CHECK_DEADLOCK FALSE
INVARIANTS LocksAreAcyclic OneStreamUntilFailure KeysAreSeparate
SYMMETRY Symmetry
