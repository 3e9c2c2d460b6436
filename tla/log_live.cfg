SPECIFICATION FairSpec
CONSTANTS
  Commits = {c1, c2}
  Logs <- MCShortLogs
  Dbs <- MCDbs
  NWriters = 2
  Cap = 1
  Top = 4
  MaxStarts = 2
  None = None
CHECK_DEADLOCK FALSE
INVARIANTS TypeOK OrderedPerDb
PROPERTIES ImplementsLogStream BlobCommitsReturn EntriesAreAppended
