SPECIFICATION FairSpec
CONSTANTS
  ADDR_GND = gnd
  ADDR_VCC = vcc
  Address <- BothAddresses
  Home <- BothAddresses
  NoHandle = NoHandle
  MaxRef = 3
  Lab = {"lab4_1", "lab4_3"}
INVARIANTS TypeOK DriverAgrees HandleIsForAddress MutexIsGivenBack SampleIsConfigured
PROPERTIES SamplesResume ImplementsSource
CHECK_DEADLOCK FALSE
