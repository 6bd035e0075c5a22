CONSTANTS
  Q = 13
  Threads = 2
  ByteBits = 2
  WordBytes = 2
  ScalarBytes = 5
  MinBits = 3
  MaxBits = 3
  UseGpu = TRUE
  Radix = 16
  Calls <- MCCalls
SPECIFICATION Spec
INVARIANTS TypeOK BucketSums CpuCorrect
