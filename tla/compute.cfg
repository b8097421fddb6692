\* Three threads compute graphs of one to three nodes.
SPECIFICATION FairSpec
CONSTANTS
  N = 3
  ChunkSize = 2
  VectorChunkSize = 4
  Calls <- MCCalls
INVARIANTS
  TypeOK
  InputsComplete
  WorkBufferIsStable
PROPERTIES
  SuccessIsComplete
  BarrierHolds
  CallsReturn
