SPECIFICATION FairSpec
CONSTANTS
  n1 = n1
  n2 = n2
  n3 = n3
  n4 = n4
  t1 = t1
  g = g
  Node = {n1,n2,n3,n4}
  Tx = {t1}
  Genesis = g
  CommitteeSize = 21
  InitialRep = 1
  NewcomerRep = 1
  PrepareReward = 0
  CommitReward = 0
  ArchiveSize = 1
  KeepEpochs = 2
  MaxRep = 1
  MaxEpoch = 0
  Score <- MCScore
  Kind <- OneLedger
  Met = {n1,n2,n3,n4}
  Direct = {n1,n2,n3,n4}
  Client = {n1}
  MaxSubmits = 1
  MaxRestarts = 0
PROPERTIES
  FinalizedIsExecuted
