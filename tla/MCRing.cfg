SPECIFICATION Spec
CONSTANTS
  ArgusSets <- MCArgusSets
  CustomPredicate <- MCCustom
  ProofTag = 1
  OpenerTag = 2
  MaxSections = 3
  Setups <- MCSetups
  People <- MCPeople
  SkOf <- MCSkOf
  IdOf <- MCIdOf
  RandOf <- MCRandOf
  SaltOf <- MCSaltOf
  EpochKeyOf <- MCEpochKeyOf
  Drawn <- MCDrawn
  OtherDrawn <- MCOtherDrawn
CHECK_DEADLOCK FALSE
INVARIANTS
  EligibleAreHeard
  SignsOnlyEntitled
  EnvelopeFaithful
  VerifiesOnlyWhatWasSigned
  OneShowPerScope
  OpensToSigner
