SPECIFICATION Spec
CONSTANTS
  s1 = s1  s2 = s2  alice = alice  bob = bob  f = f  g = g  h = h  d = d
  NoUser = NoUser  NoServer = NoServer  NoName = NoName
  Users = {alice, bob}
  Names = {f, g, h, d}
  TargetOf <- IntoD
  Conns = {1, 2, 3, 4, 5}
  Op <- Creates
  NameOf <- CreateNames
  UserOf <- TwoUsers
  Servers = {s1, s2}
  InitialServers <- BothServers
  FileList <- NoFiles
  FolderList <- NoFolders
  MaxFiles = 2
  MaxMetadata = 1
  CacheSlots = {1}
  CacheSlot <- SharedSlot
  MaxFailures = 0
  MaxActive = 6
  Early = {1, 2, 3, 4, 5}
INVARIANTS TypeOK Balanced CreatorOwns
