SPECIFICATION FairSpec
CONSTANTS
  na = na
  nb = nb
  nc = nc
  o1 = o1
  o2 = o2
  f1 = f1
  f2 = f2
  f3 = f3
  Lane <- MCLane
  Service <- MCService
  Node = {na, nb, nc}
  NoNode = NoNode
  Directory <- MCDirectory
  Fallback <- MCFallback
  OpenProbe <- MCOpenProbe
  MaxFaults = 1
  Op = {o1, o2}
  Pool = 2
  File = {f1, f2, f3}
  NoFile = NoFile
  Length <- MCLength
  MaxListed = 2
  NoKey = NoKey
  OtherKey = OtherKey
  Held <- MCHeld
  Granted <- MCGranted
  Mine = {f1, f2}
  Plan <- MCPlan
  MaxOpen = 1
INVARIANTS
  TypeOK
  ManifestsAreWhole
  NamedIsWhole
  PartsAreClaimedOnce
  EffectsFollowLosses
PROPERTIES
  FailoverWorks
  StoreRefined
  NeverStuck
CHECK_DEADLOCK FALSE
