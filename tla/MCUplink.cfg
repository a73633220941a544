CONSTANTS
  Points = {p1, p2, p3}
  Capacity = 2
  WIFI_CONFIG_TIMEOUT = 2
  MaxLookups = 2
  MaxInFlight = 3
  MaxFaults = 2
SPECIFICATION FairSpec
INVARIANTS PointsOnce StateIsNotStale
PROPERTIES GetsConfigured StaysRegistered SendsData FallsBackToAp
