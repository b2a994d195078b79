SPECIFICATION Spec
CONSTANTS
  n1 = n1
  n2 = n2
  n3 = n3
  n4 = n4
  t1 = t1
  g = g
  Node = {n1, n2}
  Tx = {t1}
  Genesis = g
  CommitteeSize = 21
  InitialRep = 1
  NewcomerRep = 1
  PrepareReward = 0
  CommitReward = 0
  ArchiveSize = 1
  KeepEpochs = 2
  MaxRep = 1
  MaxEpoch = 1
  Score <- MCScore
  Kind <- OneName
  Met = {}
  Direct = {n1}
  Client = {n1, n2}
  MaxSubmits = 2
  MaxRestarts = 1
INVARIANTS
  TypeOK
  VotesAreBacked
  AppliedIsCertified
  AppliedOncePerCopy
  NoQuorumOverlooked
PROPERTIES
  FinalityRefined
