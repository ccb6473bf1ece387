SPECIFICATION Spec
CONSTANTS
  s1 = s1  s2 = s2  alice = alice  bob = bob  f = f  g = g  h = h  d = d
  NoUser = NoUser  NoServer = NoServer  NoName = NoName
  Users = {alice, bob}
  Names = {f, g, h, d}
  TargetOf <- IntoD
  Conns = {1, 2, 3, 4, 5, 6}
  Op <- Churn
  NameOf <- ChurnNames
  UserOf <- OneUser
  Servers = {s1, s2}
  InitialServers <- BothServers
  FileList <- BothAlices
  FolderList <- NoFolders
  MaxFiles = 3
  MaxMetadata = 3
  CacheSlots = {1}
  CacheSlot <- SharedSlot
  MaxFailures = 1
  MaxActive = 3
  Early = {1, 2, 3, 4, 5, 6}
INVARIANTS NodesMatchLists NoGhostFile OneEntryPerServer ListedIsStored StaleMeansRemoved
