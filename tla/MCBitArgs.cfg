SPECIFICATION Spec
CONSTANTS
  WordBits = 2
  Modulus = {0, 1}
  InitialWires = 100000
  InitialConstraints = 10000
  InitialLtBits = 1
  InitialLts = 1
  InitialSynBits = 1
  InitialSyns = 1
  InvalidId = 100000
  AesRows = 2
  AesCols = 2
  ShortRounds = 2
  LongRounds = 2
  AffineMatrix <- MCAffine
  AffineConst = {1}
  Rb = {0, 1}
  LeafDomain <- MCLeafDomain
  InodeDomain <- MCInodeDomain
  HiroseIv <- MCHiroseIv
  HiroseLeafTweak <- MCLeafTweak
  HiroseInodeTweak <- MCInodeTweak
  ParamMax = 9
  Texts <- BitTextsOnly
  MaxVectorLen = 12
  MaxInlineDepth = 2
  MaxBlocks = 3
  ByteCeiling = 700
  LineCeiling = 60
  WireCeiling = 5000
  GateCeiling = 5000
  DepthMax = 2
  LeafMax = 8
  MaxMinor = 1
  ScaleMinor = 1
  Capacity = 8
  Requests <- MCRequests
  Registering <- MCRegistering
  Backends <- MCBackends
  Files <- NoFiles
  SizeMax = 8
CHECK_DEADLOCK FALSE
INVARIANTS
  SelectorsAreBits
