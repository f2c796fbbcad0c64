SPECIFICATION Spec
CONSTANTS
  None = None
  Values = {onboard, edited}
  MaxConnections = 2
  MaxScans = 2
  MaxHosts = 1
  CatalogSlots = 2
  Instances <- TeardownInstances
INVARIANT NoSessionOverlap
CHECK_DEADLOCK FALSE
