SPECIFICATION Spec
CONSTANTS
  None = None
  plain = plain
  play1 = play1
  empty = empty
  short = short
  endless = endless
  dim = dim
  bright = bright
  red = red
  blue = blue
  none = none
  layer1 = layer1
  layer2 = layer2
  NoContext = none
  EmptyProgram = empty
  Contexts <- MCContexts
  Slots <- MCSlots
  FirstSlot <- MCFirstSlot
  BindingAction <- MCBindingAction
  Stageable <- MCStageable
  PictureEffect = "perkey"
  PictureDefault <- MCPictureDefault
  RequiredField = None
  Supported <- MacroSupported
  Values <- MacroValues
  Reported <- MacroReported
  MaxGeneration = 2
  MaxOperation = 4
INVARIANTS
  TypeOK
  ExclusiveActivities
  AssignmentOwnsTicket
