CONSTANTS
  Inputs <- SmallestBuffer
  ThreadAlignment = 4
  FirstTensorAlignment = 2
  NumThreads = 1
  WorldSize = 2
  ThreadChunkSize = 8
  IoDepth = 1
  Headers = {4, 7}
  Sizes = {0, 3, 20, 42}
  NumTensors = 5
  MaxFiles = 2
SPECIFICATION Spec
INVARIANTS NoInternalError PrefetchKeepsTensor PrefetchReaches TensorsInBuffer TensorsAligned PrefetchFurthest
