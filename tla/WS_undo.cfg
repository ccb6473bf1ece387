SPECIFICATION Spec
CONSTANTS
  w1 = w1  w2 = w2  w3 = w3  u1 = u1  u2 = u2  k1 = k1  r1 = r1
  alice = alice  bob = bob  carol = carol  old1 = old1  old2 = old2
  NoBody = NoBody  NoUser = NoUser  NoFile = NoFile  Nobody = Nobody
  Users = {alice, bob, carol}
  Bodies <- MCBodies
  Request <- MCRequest
  Conns = {w1, w2, u1, u2}
  Authorised = {alice, bob, carol}
  UserOf <- DistinctUsers
  Batches <- PlainWords
  InitialText <- OneSentence
  InitialUndo <- EmptyText
  MaxIndex = 1
  MaxOps = 1
  MaxWordIndex = 2
  MaxWriteSize = 20
  MayDisconnect = {}
  DiskFails = {}
  MaxCrashes = 1
INVARIANTS CacheAgreesWithDisk
PROPERTIES RemovedStaysRemoved
