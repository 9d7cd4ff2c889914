CONSTANTS
  Inputs <- SmallestBuffer
  ThreadAlignment = 4
  FirstTensorAlignment = 2
  NumThreads = 1
  WorldSize = 1
  ThreadChunkSize = 8
  IoDepth = 1
  Headers = {4, 7}
  Sizes = {3, 20, 34}
  NumTensors = 4
  MaxFiles = 2
SPECIFICATION Spec
INVARIANTS ChunksInBuffer
