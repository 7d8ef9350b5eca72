SPECIFICATION Spec
CONSTANTS
  Commands <- Spaced
  Launches = 2
  dot_duration_us = 2
  RepetitionGap = 4
  OverSleep = 0
  IdleMax = 40
  expected_dot_us = 2
  tol_us = 0
  QueueLength = 3
  BufferSize = 10
  IntRange = 48
  Latency = 0
  DecoderLag = 2
INVARIANTS LongGapsEndWords
CHECK_DEADLOCK FALSE
