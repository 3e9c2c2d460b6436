SPECIFICATION FairSpec
CONSTANTS
  Tabs = {t1, t2}
  Calls = {c1, c2}
  Notes = {n1}
  work = work
  Methods <- MCMethods
  Called <- MCCalled
  Noted <- MCNoted
  Apis <- MCApis
  None = None
CHECK_DEADLOCK FALSE
INVARIANTS TypeOK RepliesFindTheirCall LogsReachTheirTab
PROPERTIES ImplementsRpcCalls CallsSettle
