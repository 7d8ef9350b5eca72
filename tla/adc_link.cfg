SPECIFICATION FairSpec
CONSTANTS
  Commands <- Tiny
  Launches = 1
  dot_duration_us = 4
  RepetitionGap = 28
  OverSleep = 1
  IdleMax = 44
  DOT_DURATION = 4
  DASH_MIN_DURATION = 10
  LETTER_GAP_MIN = 10
  WORD_GAP_MIN = 24
  TIMEOUT_MS = 40
  SAMPLE_RATE_MS = 1
  SampleLate = 0
  BufferSize = 10
INVARIANTS TypeOK LettersDoNotLinger LinkInv
PROPERTY ImplementsDisplay
CHECK_DEADLOCK FALSE
