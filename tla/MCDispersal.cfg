SPECIFICATION FairSpec
CONSTANTS
  FieldBits = 3
  FieldPoly = 11
  Width <- MCWidth
  FileHash <- MCFileHash
  Reaches <- MCReaches
  Datasets <- MCDatasets
  Published <- MCPublished
  Descriptors <- MCDescriptors
  Packets <- MCPackets
  Genuine <- MCGenuine
  MaxLosses = 1
  TreeMaxCapacity = 7
CHECK_DEADLOCK FALSE
INVARIANTS
  AcceptedIsGenuine
  CanonicalDescriptor
  DecodesTheFile
PROPERTIES
  Rebuilds
