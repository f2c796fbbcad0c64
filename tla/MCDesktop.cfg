SPECIFICATION Spec
CONSTANTS
  None = None
  Keyboards = {"k1", "k2"}
  Threads = {"t1", "t2"}
  Autosaved = {"lighting"}
  RefreshReads = 1
  CatalogSlots = 1
  MaxConnections = 2
  Instances <- LinkAndWindow
INVARIANT OneThreadAtDevice
PROPERTIES DroppedOnlyIfAway NothingLostOnClose WaitingEnds
CHECK_DEADLOCK FALSE
