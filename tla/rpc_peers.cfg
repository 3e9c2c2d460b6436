SPECIFICATION FairSpec
CONSTANTS
  Calls = {c1, c2}
  Methods = {m1, m2}
  Apis <- Singles
  MaxApis = 2
  None = None
CHECK_DEADLOCK FALSE
INVARIANTS TypeOK RepliesFindTheirCall
PROPERTIES ImplementsRpcCalls CallsSettle
