SPECIFICATION FairSpec
CONSTANTS
  Commands <- Short
  Launches = 1
  dot_duration_us = 4
  RepetitionGap = 56
  OverSleep = 1
  IdleMax = 3
  expected_dot_us = 4
  tol_us = 2
  QueueLength = 100
  BufferSize = 10
  IntRange = 4096
  Latency = 1
  DecoderLag = 6
INVARIANTS InOrder IInv
PROPERTIES ImplementsDisplay LettersArePrinted
CHECK_DEADLOCK FALSE
