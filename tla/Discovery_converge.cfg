CONSTANTS
  Slices = {"s1", "s2"}
  Pods = {"p1", "p2"}
  Placed <- MCPlaced
  Followed = {"p1"}
  MaxVersion = 3
  DiscoveryMaxAge = 1
  ListTimeout = 1
  WatchTimeout = 1
  MaxAwait = 0
SPECIFICATION FairSpec
INVARIANT BoundedStaleness
PROPERTIES EventuallyAgrees
CHECK_DEADLOCK FALSE
