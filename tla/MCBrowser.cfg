SPECIFICATION Spec
CONSTANTS
  None = None
  Values = {onboard, edited}
  MaxConnections = 2
  MaxScans = 2
  MaxHosts = 2
  CatalogSlots = 2
  Instances <- PageInstances
INVARIANTS
  OneConnectionAtDevice
  ReadyIsTrue
PROPERTIES
  DisconnectLosesNothing
  WaitsEnd
CHECK_DEADLOCK FALSE
