SPECIFICATION Spec
CONSTANTS
  maxSubagentDepth = 1
  CutsFail = TRUE
  MaxRuns = 1
  MaxSteps = 1
INVARIANT
  CancellationPropagates
