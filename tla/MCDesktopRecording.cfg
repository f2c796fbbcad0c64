SPECIFICATION Spec
CONSTANTS
  None = None
  Keyboards = {"k1"}
  Threads = {"t1", "t2"}
  Autosaved = {"lighting"}
  RefreshReads = 1
  CatalogSlots = 1
  MaxConnections = 2
  Instances <- RecordingInstances
PROPERTY RecordingSettles
CHECK_DEADLOCK FALSE
