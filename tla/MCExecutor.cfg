SPECIFICATION Spec
CONSTANTS
  None = None
  Kinds <- Requests
  MaxRequests = 2
  MaxGeneration = 1
  MaxOperation = 2
  CatalogSlots = 2
  QueueSize = 2
INVARIANTS
  OneAnswerComing
  CatalogIsCurrent
  HostHoldsDevice
  ReservationEnds
  HostWaitsForOneCall
  StopProblemSurvives
  GenerationFencesCalls
PROPERTIES
  ServiceSpec
  RequestsAreAnswered
  HostingEnds
  RetirementFinishes
