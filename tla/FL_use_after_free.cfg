SPECIFICATION LifetimeSpec
CONSTANTS
  w1 = w1  w2 = w2  d1 = d1
  Conns = {w1, w2, d1}
  Served = {{w1, w2, d1}}
  Op <- OpOf
  MayVanish = {}
  InitialWords <- OneWord
  Objects = {1, 2, 3, 4, 5}
  NoObject = NoObject
  Inodes = {1, 2, 3, 4, 5, 6, 7, 8, 9, 10}
  NoFile = NoFile
  Nobody = Nobody
INVARIANT NoUseAfterFree
