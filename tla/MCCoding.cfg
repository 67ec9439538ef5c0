SPECIFICATION Spec
CONSTANTS
  FieldBits = 2
  FieldPoly = 7
  ParamSets <- MCParamSets
  Draws <- MCDraws
  Exchanges <- MCExchanges
  Plain <- MCPlain
  Coeffs <- MCCoeffs
  Mixes <- MCMixes
  MaxAir = 3
CHECK_DEADLOCK FALSE
INVARIANTS
  RankIsDimension
  SinkReads
  KeyAndCircuit
