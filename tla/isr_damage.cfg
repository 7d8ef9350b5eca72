SPECIFICATION Spec
CONSTANTS
  Commands <- Words
  Launches = 2
  dot_duration_us = 2
  RepetitionGap = 4
  OverSleep = 0
  IdleMax = 40
  expected_dot_us = 2
  tol_us = 0
  QueueLength = 2
  BufferSize = 3
  IntRange = 48
  Latency = 0
  DecoderLag = 8
INVARIANTS TypeOK DamageIsLocal
CHECK_DEADLOCK FALSE
