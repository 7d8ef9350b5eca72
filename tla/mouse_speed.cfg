SPECIFICATION Spec
CONSTANTS
  Host = {h1}
  NoHost = NoHost
  ConnId = {0}
  Answers = {TRUE}
  Tilt <- OneWay
  Period = 1
  Medium = 1
  Long = 2
  Preemption = 1
  Labs = {"lab4_3"}
  Steps = 2
  MaxTime = 5
INVARIANTS AccelerationIsEarned
CHECK_DEADLOCK FALSE
