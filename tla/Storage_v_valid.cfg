SPECIFICATION Spec
CONSTANTS
  Values = {v0, v1, v2}
  Default = v0
  NCHUNKS = 2
  LOAD_ATTEMPTS = 2
  Builds <- TwoSections
  MaxUpdates = 2
  MaxFailures = 2
  MaxNoise = 1
INVARIANTS OneSectionValid
CHECK_DEADLOCK FALSE
