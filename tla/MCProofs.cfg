SPECIFICATION ProofsSpec
CONSTANTS
  InitialWires = 2
  InitialConstraints = 1
  InitialLtBits = 2
  InitialLts = 1
  InitialSynBits = 4
  InitialSyns = 1
  InvalidId = 99
  Lambda = 2
  Elem <- MCElem
  Zero <- MCZero
  One <- MCOne
  Plus <- MCPlus
  Times <- MCTimes
  Alpha <- MCAlpha
  Delta <- MCDelta
  U <- MCU
  V <- MCV
  Chall <- MCChall
  Programs <- MCPrograms
  Witnesses <- MCWitnesses
  Instances <- MCInstances
CHECK_DEADLOCK FALSE
INVARIANTS
  AcceptedMeansAsked
  FingerprintBinds
  KeyRelation
  Complete
  Meaningful
  Masked
  WordsMeanWhatWasAsked
  ChecksMeet
  WordsComplete
  WordsMeaningful
