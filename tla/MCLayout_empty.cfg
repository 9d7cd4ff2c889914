CONSTANTS
  Inputs <- SmallestBuffer
  ThreadAlignment = 4
  FirstTensorAlignment = 2
  NumThreads = 1
  WorldSize = 1
  ThreadChunkSize = 8
  IoDepth = 1
  Headers = {4, 7}
  Sizes = {0, 3}
  NumTensors = 2
  MaxFiles = 2
SPECIFICATION Spec
INVARIANTS LastChunkReachable
