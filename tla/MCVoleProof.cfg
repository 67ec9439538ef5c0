SPECIFICATION Spec
CONSTANTS
  Lambdas = {2, 4, 6}
  Params <- MCParams
  c1 = c1
  c2 = c2
  good = good
  bad = bad
  i1 = i1
  i2 = i2
  s1 = s1
  s2 = s2
  Circuits = {c1, c2}
  Witnesses = {good, bad}
  Instances = {i1, i2}
  Satisfies <- MCSatisfies
  FsSeeds = {s1, s2}
  MaxCommits = 1
  MaxCtr = 1
SYMMETRY Symmetry
CHECK_DEADLOCK FALSE
INVARIANTS
  TypeOK
  AcceptsIntact
  RejectsDamaged
  VoleCorrelation
  AllButOne
  OpeningFits
  NothingLeft
