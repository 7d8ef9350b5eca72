SPECIFICATION FairSpec
CONSTANTS
  Host = {h1, h2}
  NoHost = NoHost
  ConnId = {0, 1}
  Answers = {TRUE, FALSE}
  Tilt <- Still
  Period = 0
  Medium = 1
  Long = 2
  Preemption = 0
  Labs = {"lab4_2", "lab4_3"}
  Steps = 2
  MaxTime = 0
INVARIANTS TypeOK ConnectionsAgree ReportsAreInService PointerStaysNear
PROPERTIES Reachable TiltIsReported
CHECK_DEADLOCK FALSE
