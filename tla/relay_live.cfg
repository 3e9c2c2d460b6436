SPECIFICATION FairSpec
CONSTANTS
  Keys = {k1}
  Streams = {s1}
  Pubs = {p1}
  Views = {v1}
  Layers = {hi}
  Reqs = {r1, r2}
  None = None
  NoLayer = NoLayer
  PliCap = 1
  SeqMod = 2
  MaxPackets = 1
  Ops = {"layers", "change"}
  Failing = {v1}
  Lossy = {v1}
CHECK_DEADLOCK FALSE
PROPERTIES HandlersReturn FailedViewerLeaves
