SPECIFICATION Spec
CONSTANTS
  Masters = {m1}
  MaxDepth = 3
  shallow = shallow
  deep = deep
  Cfgs = {shallow, deep}
  CfgDepth <- MCDepth
  Files = {state, backup}
CHECK_DEADLOCK FALSE
INVARIANTS
  TypeOK
  ForwardSecure
  LiveEpochsSignable
  SignsOnlyWhatItHolds
  AdvanceNeverStuck
  HistoryFree
PROPERTIES
  LoadsWhatWasSaved
  ImplementsEpochKey
