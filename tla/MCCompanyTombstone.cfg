SPECIFICATION Spec
CONSTANTS
  MaxInstance = 1
  Steps = 1
  MaxIssues = 1
  Overlap = TRUE
PROPERTY CancelIsFinal
