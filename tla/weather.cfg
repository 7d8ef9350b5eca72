SPECIFICATION FairSpec
CONSTANTS
  CONFIG_EXAMPLE_WIFI_CONN_MAX_RETRY = 2
  MaxEvents = 3
  MaxBacklog = 2
INVARIANTS TypeOK StartedMeansAddressed NothingLeaks ReportIsOfOneCycle SuccessMeansReceived
PROPERTY PostsArrive
