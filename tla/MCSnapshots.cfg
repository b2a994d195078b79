SPECIFICATION FairSpec
CONSTANTS
  d1 = d1
  d2 = d2
  n1 = n1
  v1 = v1
  v2 = v2
  index = index
  style = style
  Domain = {d1, d2}
  NoDomain = NoDomain
  Protocols <- MCProtocols
  NameOf <- MCNameOf
  Limit = 2
  MaxRuns = 2
  Visit = {v1, v2}
  Cid <- Snapshot
  NoCid = NoCid
  Archive <- MCArchive
  Index = index
INVARIANTS
  TypeOK
  LoggedOnce
  BuildsAreLeftAlone
  LoggedIsNamed
  ReadyIsWhole
PROPERTIES
  FramesAreServed
  VisitsEnd
  ScanEnds
CHECK_DEADLOCK FALSE
