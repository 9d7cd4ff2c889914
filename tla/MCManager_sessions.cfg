CONSTANTS
  Sessions <- ThreeSessions
  Arguments <- ThreeArguments
  TensorSizes <- TwoTensorsOnDisk
  Device <- OneDevice
  InMemory <- OneInMemory
  WorldSize = 2
  CpuCount = 8
  Avails <- EnoughOrLittleElsewhere
  Available = {"AIO", "AIO_BUFFERED", "MMAP"}
  CacheBuffer = TRUE
  UseInternalMemoryRegister = FALSE
SPECIFICATION Spec
INVARIANTS TypeOK HostBuffersExclusive OpenedWithinLimits
PROPERTIES NoNullHandle ImplementsStreams 
