SPECIFICATION Spec
CONSTANTS
  f = f  g = g  h = h  al = al  bo = bo  ca = ca
  NoFile = NoFile  NoConn = NoConn
  Served = {{1, 2, 3, 4, 5}, {1, 2, 3, 7, 8}, {7, 8, 11, 13}, {4, 5, 6, 9}, {1, 2, 3, 15}, {3, 10, 12, 14}}
  Conns = {1, 2, 3, 4, 5, 6, 7, 8, 9, 10, 11, 12, 13, 14, 15}
  Op <- OpOf
  FileOf <- FilesOf
  UserOf <- UsersOf
  TargetOf <- TargetsOf
  AccessOf <- AccessesOf
  Files = {f, g, h}
  OwnerOf <- Owners
  Users <- EveryUser
  InitialList <- TwoFiles
  MaxEntries = 2
  CacheSize = 3
  Hash <- Colliding
  MaxRequests = 2
  MaxTime = 1
  MaxFailures = 1
  MaxCrashes = 1
INVARIANTS TypeOK CacheSound MetadataSaved RequestsConsistent ApprovedIsGranted
PROPERTIES GrantedIsListed OthersKeepAccess
