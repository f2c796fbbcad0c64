SPECIFICATION Spec
CONSTANTS
  None = None
  plain = plain
  play1 = play1
  empty = empty
  short = short
  endless = endless
  dim = dim
  bright = bright
  red = red
  blue = blue
  none = none
  layer1 = layer1
  layer2 = layer2
  NoContext = none
  EmptyProgram = empty
  Contexts <- MCContexts
  Slots <- MCSlots
  FirstSlot <- MCFirstSlot
  BindingAction <- MCBindingAction
  Stageable <- MCStageable
  PictureEffect = "perkey"
  PictureDefault <- MCPictureDefault
  RequiredField = "streaming"
  Supported <- LightSupported
  Values <- LightValues
  Reported <- LightReported
  MaxGeneration = 2
  MaxOperation = 4
INVARIANTS
  ReadyIsConnected
  PreparationOwnsTicket
  SelectorEditsExclusive
  PictureSavedInContext
  HostKeepsBaseline
PROPERTIES
  DraftsSurviveDevice
  UncertaintyNeedsRead
