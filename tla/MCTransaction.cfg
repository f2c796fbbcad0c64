SPECIFICATION Spec
CONSTANTS
    Cells <- MCCells
    Values <- MCValues
    Requests <- MCRequests
    Foreign <- MCForeign
    MaxPolls = 2
    MaxJobs = 2
INVARIANTS OutcomeIsTrue BackedUp ReplyAnswersCommand
PROPERTY JobsEnd
