SPECIFICATION Spec
CONSTANTS
  BaseKeys <- SmallBase
  FunctionKeys <- SmallFunction
  ReservedKeys <- SmallReserved
  Pages = 2
  Slots = 2
  MaxSwitches = 1
INVARIANTS OutcomeIsTrue OneFaultIsUndone
PROPERTIES OperationEnds
CHECK_DEADLOCK FALSE
