SPECIFICATION FairSpec
CONSTANTS
  f = f  g = g  h = h  n = n  m = m  al = al  bo = bo  ca = ca
  s1 = s1  s2 = s2  s3 = s3  s4 = s4
  Conns = {1, 2, 3, 4, 5, 6, 7, 8, 9, 10, 11, 12, 13, 14, 15, 16, 17, 18, 19, 20}
  Served = {{1, 2, 4}, {1, 4, s1}, {2, 4, s3}, {4, 5, 6, s3}, {2, 4, s2}, {3, 4, 8, s2}, {4, 5, 6, 7}, {4, 8, 9, s2}, {10, 11, 12, s1}, {13, 14, 15, s2}, {16, 17, 18, 19, 20}, {3, s3, s4}}
  Op <- OpOf
  UserOf <- UsersOf
  FileOf <- FilesOf
  ShowAll = {3}
  ShowLong = {2}
  Servers = {s1, s2, s3, s4}
  InitialServers <- TwoServers
  FileList <- Listings
  Granted <- BobSeesF
  Resembles <- NoneResembles
  MayRestart = {s2}
  MaxClients = 2
  MaxServers = 3
  MaxFiles = 3
  MaxLines = 3
  Nobody = Nobody
INVARIANTS TypeOK ViewConsistent SuccessIsReal
PROPERTY OnlyStartsBlock
CHECK_DEADLOCK FALSE
