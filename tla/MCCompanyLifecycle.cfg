SPECIFICATION FairSpec
CONSTANTS
  MaxInstance = 2
  Steps = 1
  MaxIssues = 1
  Overlap = FALSE
INVARIANTS TypeOK SingleCompany CompleteIsEarned CancelReapsAgents NoCancelledBinding
PROPERTIES ProgressKept ImplementsRegistry CancelledIsReleased
