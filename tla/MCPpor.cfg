SPECIFICATION Spec
CONSTANTS
  n1 = n1
  n2 = n2
  n3 = n3
  n4 = n4
  t1 = t1
  t2 = t2
  g = g
  Node <- ThreeNodes
  Tx = {t1}
  Genesis = g
  CommitteeSize = 2
  InitialRep = 1
  NewcomerRep = 1
  PrepareReward = 1
  CommitReward = 2
  ArchiveSize = 2
  MaxRep = 3
  MaxEpoch = 1
  Score <- MCScore
  Self = n1
  FirstCommittee = {n1}
  AnnouncedRep = {1}
  KeepEpochs = 0
INVARIANTS
  TypeOK
  QuorumCertificate
  ValidatedFirst
  VotersAreKnown
  ArchiveIsALog
PROPERTIES
  EntriesMoveForward
  SeedFollowsFinality
