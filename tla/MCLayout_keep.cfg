CONSTANTS
  Inputs <- WholeBuffer
  ThreadAlignment = 4
  FirstTensorAlignment = 2
  NumThreads = 1
  WorldSize = 1
  ThreadChunkSize = 8
  IoDepth = 1
  Headers = {7}
  Sizes = {5}
  NumTensors = 8
  MaxFiles = 8
SPECIFICATION Spec
INVARIANTS AllStayIfTheyFit
