CONSTANTS
  Inputs <- OneInput
  ThreadAlignment = 4
  FirstTensorAlignment = 2
  NumThreads = 1
  WorldSize = 1
  ThreadChunkSize = 8
  NumChunks = 10
  NumTensors = 5
  FirstChunk <- TableFirst
  LastChunk <- TableLast
  PrefetchChunk <- TablePrefetch
  ChunkSlots <- TableChunkSlots
  TensorSlots <- TableTensorSlots
  Slots <- TableSlots
  IoDepth = 3
  MaxPrefetchChunks = 4
  EarlyExit = FALSE
SPECIFICATION Spec
INVARIANTS TypeOK HeldTensorIntact WindowExclusive CompleteMeansCopied NeverCrashes
PROPERTIES ImplementsStages ImplementsStream CallsReturn PrefetchProceeds ThreadEnds
