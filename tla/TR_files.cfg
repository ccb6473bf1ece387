SPECIFICATION FairSpec
CONSTANTS
  w1 = w1  w2 = w2  v1 = v1  u1 = u1  d1 = d1  d2 = d2  k1 = k1
  r1 = r1  s1 = s1  e1 = e1  e2 = e2
  Conns = {w1, w2, v1, u1, d1, d2, k1, r1, s1, e1, e2}
  Served = {{w1, w2, d1}, {w1, d1, k1}, {w1, u1}, {u1, d1}, {d1, d2}, {v1, d1}, {w1, d1, s1}, {w1, r1}, {d1, k1, r1}, {d1, k1, e1}, {w1, e1}, {e1, e2}}
  Op <- OpOf
  MayVanish = {v1}
  InitialWords <- ThreeWords
  Objects = {1, 2, 3, 4, 5}
  NoObject = NoObject
  Inodes = {1, 2, 3, 4, 5, 6, 7, 8, 9, 10}
  NoFile = NoFile
  Nobody = Nobody
  SmallFile = 1
  ChunkSize = 2
  ScriptOf <- OwnScript
  NoScript = NoScript
  MaxBreaks = 1
INVARIANTS TypeOK RefcountCovers CachedOnceAndLive CompleteIsWhole ExecBufferHolds
PROPERTIES DeleteFreesUnused TransferEnds
