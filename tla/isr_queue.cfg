SPECIFICATION Spec
CONSTANTS
  Commands <- Eat
  Launches = 1
  dot_duration_us = 2
  RepetitionGap = 4
  OverSleep = 1
  IdleMax = 4
  expected_dot_us = 2
  tol_us = 0
  QueueLength = 2
  BufferSize = 10
  IntRange = 4096
  Latency = 2
  DecoderLag = 1
INVARIANTS QueueSuffices LevelSettles
CHECK_DEADLOCK FALSE
