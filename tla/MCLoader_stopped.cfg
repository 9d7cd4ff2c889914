CONSTANTS
  NumChunks = 9
  NumTensors = 6
  FirstChunk <- RingFirst
  LastChunk <- RingLast
  PrefetchChunk <- RingPrefetch
  ChunkSlots <- RingChunkSlots
  TensorSlots <- RingTensorSlots
  Slots <- NarrowSlots
  IoDepth = 2
  MaxPrefetchChunks = 4
  EarlyExit = TRUE
SPECIFICATION Spec
INVARIANTS NeverCrashes
