SPECIFICATION FairSpec
CONSTANTS
  w1 = w1  w2 = w2  w3 = w3  u1 = u1  u2 = u2  k1 = k1  r1 = r1
  alice = alice  bob = bob  carol = carol  old1 = old1  old2 = old2
  NoBody = NoBody  NoUser = NoUser  NoFile = NoFile  Nobody = Nobody
  Users = {alice, bob, carol}
  Bodies <- MCBodies
  Request <- MCRequest
  Conns = {w1, w2, u1}
  Authorised = {alice, bob, carol}
  UserOf <- DistinctUsers
  Batches <- PlainWords
  InitialText <- OneSentence
  InitialUndo = NoFile
  MaxIndex = 1
  MaxOps = 1
  MaxWordIndex = 2
  MaxWriteSize = 20
  MayDisconnect = {w1, w2}
  DiskFails = {w1, u1}
  MaxCrashes = 1
INVARIANTS LockExclusion NoOrphanLock MutexesMatch
PROPERTIES ServerFinishes
