CONSTANTS
  Sessions <- TwoSessions
  Arguments <- ThreeArguments
  TensorSizes <- TwoTensorsOnDisk
  Device <- TwoDevices
  InMemory <- OneInMemory
  WorldSize = 2
  CpuCount = 8
  Avails <- EnoughOrLittleElsewhere
  Available = {"AIO", "AIO_BUFFERED", "MMAP"}
  CacheBuffer = TRUE
  UseInternalMemoryRegister = FALSE
SPECIFICATION Spec
INVARIANT TensorsOnOwnDevice
