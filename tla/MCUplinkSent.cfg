CONSTANTS
  Points = {p1, p2, p3}
  Capacity = 2
  WIFI_CONFIG_TIMEOUT = 2
  MaxLookups = 2
  MaxInFlight = 2
  MaxFaults = 2
SPECIFICATION Spec
PROPERTY ReturnedTrueMeansSent
