SPECIFICATION Spec
CONSTANTS
  None = None
  Loaded = {"Lighting", "Picture"}
  Values <- MCValues
  PictureEffect = "perkey"
  MaxConnections = 2
  MaxSteps = 3
PROPERTY RemovalNoticed
CHECK_DEADLOCK FALSE
