SPECIFICATION FairSpec
CONSTANTS
  Lists <- MCLists
  FirstLists <- MCFirstLists
  LaneCounts = {1, 2}
  Overscan = 0
  Lead = 0
  Estimate = 2
  Sizes = {1, 3}
  Views = {2, 4}
  FirstViews = {2}
  Offsets = {2}
  Asked = {3}
  Restored <- MCRestored
  Heights <- MCHeights
  MaxMoves <- MCMoves
  Aligns = {"auto"}
  None = None
CHECK_DEADLOCK FALSE
INVARIANTS TypeOK CacheMatches LanesPacked VisibleAreRendered ViewHolds
PROPERTIES RetryEnds
