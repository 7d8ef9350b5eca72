SPECIFICATION FairSpec
CONSTANTS
  Commands <- Eat
  Launches = 1
  dot_duration_us = 4
  RepetitionGap = 4
  OverSleep = 1
  IdleMax = 4
  expected_dot_us = 4
  tol_us = 2
  QueueLength = 8
  BufferSize = 10
  IntRange = 4096
  Latency = 1
  DecoderLag = 3
PROPERTY MessageIsPrinted
CHECK_DEADLOCK FALSE
