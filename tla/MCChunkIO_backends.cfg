CONSTANTS
  Sessions <- OneOrTwoRanks
  NumChunks = 3
  ChunkSize <- SizeOfChunk
  ThreadAlignment = 2
  IoDepth = 2
  MaxPrefetchChunks = 2
  ShortReadBackends = {"cufile"}
SPECIFICATION Spec
INVARIANTS TypeOK CountersExact
PROPERTIES ImplementsStages EveryChunkReported
CHECK_DEADLOCK FALSE
