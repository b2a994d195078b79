SPECIFICATION FairSpec
CONSTANTS
  a = a
  b = b
  p = p
  up = up
  first = first
  second = second
  NoClient = NoClient
  Nobody = Nobody
  Node <- MCNode
  Lists <- MCLists
  Client <- MCClient
  At <- MCAt
  Plan <- MCPlan
  Room = {3}
  DataShards = 2
  TotalShards = 3
  MaxRestarts = 1
INVARIANTS
  TypeOK
  LoneDownloadsAreServed
  ShardsAreWhereManifestsSay
PROPERTIES
  EnoughEnds
CHECK_DEADLOCK FALSE
