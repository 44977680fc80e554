SPECIFICATION MCSpec
CONSTANTS
  a = a
  b = b
  s1 = s1
  s2 = s2
  version = version
  status = status
  NoContent = NoContent
  NoSource = NoSource
  NoSnapshot = NoSnapshot
  NoFlight = NoFlight
  Sources = {s1, s2}
  Shards = {a, b}
  ShardOf <- MCShardOf
  Contents <- MCContents
  Exhaustive = {s1}
  Bound <- MCBound
INVARIANTS VerifiedTruthful SuppressedHidden
PROPERTIES DomainShared
CHECK_DEADLOCK FALSE
