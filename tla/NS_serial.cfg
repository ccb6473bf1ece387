SPECIFICATION Spec
CONSTANTS
  s1 = s1  s2 = s2  alice = alice  bob = bob  f = f  g = g  h = h  d = d
  NoUser = NoUser  NoServer = NoServer  NoName = NoName
  Users = {alice, bob}
  Names = {f, g, h, d}
  TargetOf <- IntoD
  Conns = {1, 2, 3, 4, 5, 6, 7, 8}
  Op <- Mixed
  NameOf <- MixedNames
  UserOf <- BobIsLate
  Servers = {s1, s2}
  InitialServers <- NoServers
  FileList <- TooManyOnS2
  FolderList <- NoFolders
  MaxFiles = 2
  MaxMetadata = 3
  CacheSlots = {1, 2}
  CacheSlot <- OwnSlots
  MaxFailures = 0
  MaxActive = 1
  Early = {1, 4}
INVARIANT CacheTruthful
PROPERTIES LocationTrue RegisteredFilesListed
