CONSTANTS
  NumChunks = 9
  NumTensors = 6
  FirstChunk <- RingFirst
  LastChunk <- RingLast
  PrefetchChunk <- RingPrefetch
  ChunkSlots <- RingChunkSlots
  TensorSlots <- RingTensorSlots
  Slots <- WideSlots
  IoDepth = 6
  MaxPrefetchChunks = 2
  EarlyExit = TRUE
SPECIFICATION Spec
INVARIANTS HeldTensorIntact SubmitNeverBlocks FreedWhenQuiet
